-------------------------- MODULE GlzaSubstituteProofs -------------------------
(***************************************************************************)
(* What holds of GLZA's substitution for all texts, rules, numbers of      *)
(* finders and sizes of rings: however the threads interleave, the text    *)
(* comes out as one thread would have made it.                             *)
(*                                                                         *)
(* The invariant gives every command a place in the text, wherever it is:  *)
(* in the ring to substitute_thread, in a finder's ring, or not yet        *)
(* posted.                                                                 *)
(***************************************************************************)
EXTENDS GlzaSubstitute, NumberLemmas, SequenceTheorems

(* Places in the text: <<p, 0>> between two commands, <<p, n>> when the n   *)
(* symbols from p on have been skipped and their rule's symbol is due, and  *)
(* <<L + 1, 1>> after the last command.                                     *)
Place == Nat \X Nat

NoRule(t, p, q) == \A r \in p .. q - 1 : RuleAt(t, r) = {}

(* Command c at place a is what a scan of text t finds there, and leads to  *)
(* place b.  It is within a region that ends at f: only a match reaches     *)
(* across.                                                                  *)
Follows(t, c, a, b, f) ==
  \/ /\ c.do = "copy" /\ c.n \in Nat \ {0}
     /\ a[2] = 0 /\ b = <<a[1] + c.n, 0>>
     /\ b[1] <= Len(t) + 1 /\ b[1] <= f
     /\ NoRule(t, a[1], b[1])
  \/ /\ c.do = "skip"
     /\ a[2] = 0 /\ a[1] < f
     /\ \E s \in RuleAt(t, a[1]) : c.n = Len(Rules[s])
     /\ b = <<a[1], c.n>>
  \/ /\ c.do = "put" /\ a[2] # 0 /\ a[1] < f
     /\ c.symbol \in RuleAt(t, a[1]) /\ a[2] = Len(Rules[c.symbol])
     /\ b = <<a[1] + a[2], 0>>
  \/ /\ c.do = "end"
     /\ a = <<Len(t) + 1, 0>> /\ b = <<Len(t) + 1, 1>>

(* The first n commands of cs lead from place a to place b, by the places   *)
(* at.                                                                      *)
Path(t, cs, n, a, b, f, at) ==
  /\ at[0] = a /\ at[n] = b
  /\ \A k \in 0 .. n - 1 : Follows(t, cs[k], at[k], at[k + 1], f)

Run(t, cs, n, a, b, f) ==
  \E at \in [0 .. n -> Place] : Path(t, cs, n, a, b, f, at)

Listed(q) == [k \in 0 .. Len(q) - 1 |-> q[k + 1]]

(* What a scan at p with c symbols to copy and commands q to post has found *)
(* beyond place a.                                                          *)
Scanned(t, q, p, c, a, f) ==
  /\ c <= p
  /\ Run(t, Listed(q), Len(q), a, <<p - c, 0>>, f)
  /\ NoRule(t, p - c, p)

(* The commands in finder f's ring from a slot on, and what f has not       *)
(* posted yet.                                                              *)
InRing(f, slot) == Distance(FinderRing, slot, f.write)
Slots(f, slot) ==
  [k \in 0 .. InRing(f, slot) - 1 |-> f.data[Onward(FinderRing, slot, k)]]

Found(t, f, slot, a, stop) ==
  \E z \in Place :
    /\ Run(t, Slots(f, slot), InRing(f, slot), a, z, stop)
    /\ Scanned(t, f.queue, f.pos, f.copied, z, stop)

-------------------------------------------------------------------------------
(* The commands that substitute_thread has not obeyed.                      *)
Ahead == Distance(Ring, next, posted)
Pending == [k \in 0 .. Ahead - 1 |-> ring[Onward(Ring, next, k)]]

(* Where the regions begin of which no command has been taken.              *)
Frontier ==
  IF mpc \in {"create", "await", "scan"} THEN Stop0
  ELSE IF mpc \in {"head", "drain"} THEN StartOf(cur)
  ELSE IF mpc \in {"merge", "take"} THEN StopOf(cur)
  ELSE L + 1

Scanning == mpc \in {"create", "await", "scan"}
Heading == mpc \in {"head", "drain"}
Taking == mpc \in {"merge", "take"}

(* Nothing of finder t has been taken; all of it has been.                  *)
Waits(t) == Scanning \/ (Heading /\ t >= cur) \/ (Taking /\ t > cur)
Over(t) == ~Waits(t) /\ ~(Taking /\ t = cur)

-------------------------------------------------------------------------------
Command ==
  [do : {"copy"}, n : Nat \ {0}] \cup [do : {"skip"}, n : Nat]
    \cup [do : {"put"}, symbol : DOMAIN Rules] \cup {EndOfText}

FinderType ==
  [pc : {"none", "created", "ready", "scan", "ended"}, start : Nat, pos : Nat,
   copied : Nat, queue : Seq(Command), extra : Nat,
   write : 0 .. FinderRing - 1, read : 0 .. FinderRing - 1, done : BOOLEAN,
   data : [0 .. FinderRing - 1 -> Command]]

Types ==
  /\ text \in Texts
  /\ finder \in [Finder -> FinderType]
  /\ mpc \in {"create", "await", "scan", "head", "drain", "merge", "take", "finish",
              "join", "end"}
  /\ spc \in {"none", "created", "look", "obey", "put", "half", "ended"}
  /\ pos \in Nat /\ copied \in Nat /\ queue \in Seq(Command)
  /\ extra \in Nat /\ cur \in Finder
  /\ taken \in 0 .. FinderRing - 1 /\ upTo \in 0 .. FinderRing - 1
  /\ ring \in [0 .. Ring - 1 -> Command]
  /\ posted \in 0 .. Ring - 1 /\ wrote \in 0 .. Ring - 1 /\ read \in 0 .. Ring - 1
  /\ next \in 0 .. Ring - 1 /\ seen \in 0 .. Ring - 1
  /\ old \in Nat /\ out \in Nat

(* The indices follow each other round the ring, and between two looks for  *)
(* room no more is posted than there was room for.                          *)
Since(x) == Distance(Ring, read, x)

Indices ==
  /\ mpc \in {"create", "await"} =>
       /\ posted = 0 /\ wrote = 0 /\ next = 0 /\ seen = 0
       /\ mpc = "create" => spc = "none"
       /\ mpc = "await" => spc = "created" \/ (spc = "look" /\ read = 0)
  /\ mpc \notin {"create", "await"} =>
       /\ spc # "none"
       /\ Since(next) <= Since(seen) /\ Since(seen) <= Since(wrote)
       /\ Since(wrote) <= Since(posted)
       /\ posted % Half # 0 => Since(posted) < Half + (posted % Half)
       /\ spc = "created" => next = 0 /\ seen = 0 /\ read = 0
  /\ spc \in {"look", "half"} => next = seen /\ read = next
  /\ spc = "put" => next # seen
  /\ mpc = "end" => spc = "ended"

(* A scan of the region that ends at stop goes beyond it by a match only.   *)
WithinRegion(p, c, stop) ==
  /\ p \in 1 .. L + 1 /\ c < p
  /\ p <= stop + Block
  /\ c > 0 => p <= stop

Main ==
  /\ WithinRegion(pos, copied, Stop0)
  /\ mpc \in {"create", "await"} => pos = 1 /\ copied = 0 /\ queue = <<>>
  /\ \/ queue = <<>>
     \/ \E c \in Nat \ {0} : queue = <<Copy(c)>>
     \/ \E c \in Nat, s \in DOMAIN Rules : queue = Commands(c, s)
  /\ Scanning => cur = 1
  /\ Heading \/ Taking => Split
  /\ Heading => StartOf(cur) + extra <= StopOf(cur)
  /\ ~Heading => extra = 0
  /\ ~Taking => taken = 0

(* What a finder knows of itself, and what it shares with the main thread.  *)
Alone(t, f) ==
  /\ f.done = TRUE <=> f.pc = "ended"
  /\ f.pc \in {"none", "created", "ready"} => f.write = 0
  /\ f.pc = "ready" => f.pos = f.start /\ f.copied = 0 /\ f.queue = <<>>
  /\ f.pc \in {"scan", "ended"} =>
       WithinRegion(f.pos, f.copied, StopOf(t)) /\ f.start <= f.pos
  /\ f.pc = "ended" =>
       /\ f.queue = <<>> /\ f.copied = 0
       /\ f.pos >= StopOf(t) /\ f.extra = f.pos - StopOf(t)
  /\ Split => f.start \in StartOf(t) .. StopOf(t)

Shared(t, f) ==
  /\ f.pc = "none" <=> ~Split \/ mpc = "create"
  /\ Waits(t) => f.start = StartOf(t)
  /\ Waits(t) /\ ~(mpc = "drain" /\ t = cur) => f.read = 0
  /\ Over(t) /\ Split => f.pc = "ended"
  /\ mpc = "drain" /\ t = cur => f.pc \in {"scan", "ended"}
  /\ Taking /\ t = cur /\ f.pc \in {"created", "ready"} =>
       taken = 0 /\ (mpc = "take" => upTo = 0)
  /\ Taking /\ t = cur /\ f.pc \in {"scan", "ended"} =>
       /\ Distance(FinderRing, f.read, taken) <= InRing(f, f.read)
       /\ mpc = "take" => Distance(FinderRing, taken, upTo) <= InRing(f, taken)

Finders == \A t \in Finder : Alone(t, finder[t]) /\ Shared(t, finder[t])

(* Where substitute_thread is, and up to where main has posted.             *)
ThreadAt(a) ==
  IF spc \in {"put", "half"}
    THEN /\ a[2] # 0 /\ old = a[1] + a[2]
         /\ \E s \in RuleAt(text, a[1]) : a[2] = Len(Rules[s])
  ELSE /\ old = a[1] /\ old <= L + 1
       /\ spc = "ended" => a = <<L + 1, 1>>
       /\ spc # "ended" => a[2] = 0

MainAt(b) ==
  /\ Scanning => Scanned(text, queue, pos, copied, b, Stop0)
  /\ Heading => b = <<StartOf(cur) + extra, 0>>
  /\ mpc = "finish" => b = <<L + 1, 0>>
  /\ mpc \in {"join", "end"} => b = <<L + 1, 1>>

FinderAt(t, f, b) ==
  /\ Waits(t) /\ ~(mpc = "drain" /\ t = cur) /\ f.pc \in {"scan", "ended"} =>
       Found(text, f, 0, <<f.start, 0>>, StopOf(t))
  /\ Taking /\ t = cur /\ f.pc \in {"scan", "ended"} =>
       Found(text, f, taken, b, StopOf(t))
  /\ Taking /\ t = cur /\ f.pc \in {"created", "ready"} => b = <<f.start, 0>>

(* Up to out the buffer holds what the text before p becomes, and from out  *)
(* on it is the text.                                                       *)
Symbol(t) == Values(t) \cup DOMAIN Rules

Rewrote(t, d, o, p) ==
  LET whole == RewrittenFrom(t)[1]
      rest == RewrittenFrom(t)[p]
  IN /\ d \in [1 .. Len(t) -> Symbol(t)]
     /\ Len(whole) = o - 1 + Len(rest)
     /\ \A k \in 1 .. o - 1 : d[k] = whole[k]
     /\ \A k \in 1 .. Len(rest) : whole[o - 1 + k] = rest[k]
     /\ \A k \in o .. Len(t) : d[k] = t[k]

Positions(a, b) ==
  /\ ThreadAt(a)
  /\ MainAt(b)
  /\ Run(text, Pending, Ahead, a, b, Frontier)
  /\ 1 <= out /\ out <= a[1] /\ out <= Frontier
  /\ Rewrote(text, buf, out, a[1])
  /\ \A t \in Finder : FinderAt(t, finder[t], b)

Meaning == \E a, b \in Place : Positions(a, b)

Inv ==
  /\ Types
  /\ Indices
  /\ Main
  /\ Finders
  /\ Meaning

-------------------------------------------------------------------------------
LEMMA Division ==
  ASSUME NEW n \in Nat, NEW k \in Nat \ {0}
  PROVE  /\ n \div (k + 1) \in Nat /\ n \div (k + 2) \in Nat
         /\ n \div (k + 2) <= n /\ n \div (k + 2) <= n \div (k + 1)
         /\ n \div (k + 1) + k * (n \div (k + 1)) <= n
<1>1. PICK q \in Nat : q = n \div (k + 1)
  BY DivNat
<1>2. PICK r \in Nat : r = n \div (k + 2)
  BY DivNat
<1>3. (k + 1) * q <= n
  BY <1>1
<1>4. (k + 2) * r <= n /\ n < (k + 1) * (q + 1)
  BY <1>1, <1>2
<1>5. (k + 1) * q = q + k * q
  OBVIOUS
<1>6. r <= (k + 2) * r /\ r <= n
  <2>1. (k + 2) * r = r + (k + 1) * r /\ (k + 1) * r \in Nat
    OBVIOUS
  <2> QED
    BY <2>1, <1>4
<1>7. SUFFICES ASSUME q + 1 <= r PROVE FALSE
  BY <1>1, <1>2, <1>3, <1>5, <1>6
<1>8. (k + 1) * (q + 1) <= (k + 1) * r
  BY <1>7
<1>9. (k + 1) * r <= (k + 2) * r
  OBVIOUS
<1> QED
  BY <1>4, <1>8, <1>9

(* The regions follow each other up to the end of the text, and each of the *)
(* finders' is at least a block long.                                       *)
LEMMA TextLength ==
  ASSUME text \in Texts
  PROVE  /\ L \in Nat /\ text \in [1 .. L -> Values(text)] /\ text \in Seq(Values(text))
         /\ Block \in Nat /\ Stop0 \in 1 .. L + 1
<1>1. text \in Seq(Values(text))
  BY SubstituteAssumption
<1>2. L \in Nat /\ text \in [1 .. L -> Values(text)]
  BY <1>1 DEF L
<1>3. Threads \in Nat \ {0}
  BY SubstituteAssumption
<1>4. L \div (Threads + 1) \in Nat /\ L \div (Threads + 2) \in Nat
      /\ L \div (Threads + 2) <= L
  BY <1>2, <1>3, Division
<1> QED
  BY <1>1, <1>2, <1>4 DEF Block, Stop0

LEMMA Regions ==
  ASSUME text \in Texts, Split, NEW t \in Finder
  PROVE  /\ StartOf(t) \in Nat /\ StopOf(t) \in Nat
         /\ Stop0 <= StartOf(t) /\ StartOf(t) + Block <= StopOf(t)
         /\ StopOf(t) <= L + 1
         /\ StartOf(1) = Stop0 /\ StopOf(Threads) = L + 1
         /\ t < Threads => StopOf(t) = StartOf(t) + Block /\ StopOf(t) = StartOf(t + 1)
<1>1. /\ L \in Nat /\ Block \in Nat /\ Stop0 \in 1 .. L + 1
      /\ Threads \in Nat \ {0} /\ t \in 1 .. Threads
  BY TextLength, SubstituteAssumption DEF Finder
<1>2. Stop0 + Threads * Block <= L + 1
  <2>1. /\ L \div (Threads + 1) \in Nat /\ L \div (Threads + 2) \in Nat
        /\ L \div (Threads + 2) <= L \div (Threads + 1)
        /\ L \div (Threads + 1) + Threads * (L \div (Threads + 1)) <= L
    BY <1>1, Division
  <2>2. Threads * (L \div (Threads + 1)) \in Nat
    BY <2>1, <1>1
  <2> QED
    BY <2>1, <2>2, <1>1 DEF Stop0, Block
<1>3. (t - 1) * Block \in Nat /\ (t - 1) * Block + Block = t * Block
  BY <1>1
<1>4. t * Block <= Threads * Block
  BY <1>1
<1>5. StartOf(t) = Stop0 + (t - 1) * Block
  BY DEF StartOf
<1>6. StartOf(t) + Block <= L + 1
  BY <1>1, <1>2, <1>3, <1>4, <1>5
<1>7. t < Threads => StopOf(t) = StartOf(t) + Block /\ StopOf(t) = StartOf(t + 1)
  BY <1>1, <1>3, <1>5 DEF StopOf, StartOf
<1>8. StartOf(1) = Stop0 /\ StopOf(Threads) = L + 1
  BY <1>1 DEF StartOf, StopOf
<1>9. t = Threads => StopOf(t) = L + 1
  BY DEF StopOf
<1> QED
  BY <1>1, <1>3, <1>5, <1>6, <1>7, <1>8, <1>9

(* Where the thread that obeys begins, nobody has taken anything.           *)
LEMMA FrontierBound ==
  ASSUME text \in Texts, cur \in Finder,
         Heading \/ Taking => Split
  PROVE  Frontier \in Nat /\ Frontier <= L + 1
BY TextLength, Regions DEF Frontier, Heading, Taking

-------------------------------------------------------------------------------
(* Rules, and what becomes of a text.                                       *)
LEMMA RuleLength ==
  ASSUME NEW t \in Texts, NEW p \in Nat, NEW s \in RuleAt(t, p)
  PROVE  /\ s \in DOMAIN Rules /\ Len(Rules[s]) \in Nat /\ Len(Rules[s]) > 1
         /\ Len(t) \in Nat /\ p + Len(Rules[s]) <= Len(t) + 1
         /\ Len(t) >= Long => Len(Rules[s]) <= Len(t) \div (Threads + 1)
<1>1. s \in DOMAIN Rules /\ p + Len(Rules[s]) - 1 <= Len(t)
  BY DEF RuleAt
<1>2. t \in Seq(Values(t)) /\ Rules[s] \in Seq(Values(Rules[s]))
  BY <1>1, SubstituteAssumption
<1>3. Len(Rules[s]) \in Nat /\ Len(t) \in Nat
  BY <1>2
<1> QED
  BY <1>1, <1>3, SubstituteAssumption

(* A rule is not the beginning of another one: at most one fits.            *)
LEMMA OneRule ==
  ASSUME NEW t \in Texts, NEW p \in Nat, NEW r \in RuleAt(t, p), NEW s \in RuleAt(t, p)
  PROVE  r = s
<1>1. ASSUME NEW x \in RuleAt(t, p), NEW y \in RuleAt(t, p),
             Len(Rules[x]) <= Len(Rules[y]), x # y
      PROVE  FALSE
  <2> DEFINE X == Rules[x]
             Y == Rules[y]
  <2>1. x \in DOMAIN Rules /\ y \in DOMAIN Rules
    BY DEF RuleAt
  <2>2. X \in Seq(Values(X)) /\ Y \in Seq(Values(Y)) /\ Len(X) \in Nat /\ Len(Y) \in Nat
    <3>1. X \in Seq(Values(X)) /\ Y \in Seq(Values(Y))
      BY <2>1, SubstituteAssumption
    <3> QED
      BY <3>1
  <2>3. \A k \in 1 .. Len(X) : Y[k] = X[k]
    <3>1. ASSUME NEW k \in 1 .. Len(X) PROVE Y[k] = X[k]
      <4>1. t[p + k - 1] = X[k]
        BY DEF RuleAt
      <4>2. k \in 1 .. Len(Y)
        BY <1>1, <2>2
      <4>3. t[p + k - 1] = Y[k]
        BY <4>2 DEF RuleAt
      <4> QED
        BY <4>1, <4>3
    <3> QED
      BY <3>1
  <2>4. ~(\E k \in 0 .. Len(Y) - Len(X) : SubSeq(Y, k + 1, k + Len(X)) = X)
    BY <1>1, <2>1, SubstituteAssumption
  <2>5. SubSeq(Y, 1, Len(X)) # X
    <3>1. 0 \in 0 .. Len(Y) - Len(X) /\ 0 + Len(X) = Len(X) /\ 0 + 1 = 1
      BY <1>1, <2>2
    <3> HIDE DEF X, Y
    <3> QED
      BY <3>1, <2>4
  <2> HIDE DEF X, Y
  <2>6. \A k \in 1 .. Len(X) : Y[k] \in Values(X)
    BY <2>2, <2>3 DEF Values
  <2>7. SubSeq(Y, 1, Len(X)) \in Seq(Values(X))
    BY <2>2, <2>6, SubSeqProperties
  <2>8. /\ Len(SubSeq(Y, 1, Len(X))) = Len(X)
        /\ \A k \in 1 .. Len(X) : SubSeq(Y, 1, Len(X))[k] = X[k]
    BY <2>2, <2>3, <2>6, SubSeqProperties
  <2>9. SubSeq(Y, 1, Len(X)) = X
    BY <2>2, <2>7, <2>8, SeqEqual
  <2> QED
    BY <2>5, <2>9
<1>2. Len(Rules[r]) \in Nat /\ Len(Rules[s]) \in Nat
  BY RuleLength
<1> QED
  BY <1>1, <1>2

(* Where nothing has been written, a scan finds what the text holds.        *)
LEMMA RuleInBuffer ==
  ASSUME NEW t \in Texts, NEW d \in [1 .. Len(t) -> Symbol(t)], NEW p \in Nat,
         NEW o \in Nat, o <= p, 1 <= o, \A k \in o .. Len(t) : d[k] = t[k]
  PROVE  RuleAt(d, p) = RuleAt(t, p)
<1>1. t \in Seq(Values(t)) /\ Len(t) \in Nat
  <2>1. t \in Seq(Values(t))
    BY SubstituteAssumption
  <2> QED
    BY <2>1
<1>2. d \in Seq(Symbol(t)) /\ Len(d) = Len(t)
  BY <1>1
<1>3. ASSUME NEW s \in DOMAIN Rules
      PROVE  s \in RuleAt(d, p) <=> s \in RuleAt(t, p)
  <2>1. Len(Rules[s]) \in Nat
    <3>1. Rules[s] \in Seq(Values(Rules[s]))
      BY SubstituteAssumption
    <3> QED
      BY <3>1
  <2>2. ASSUME p + Len(Rules[s]) - 1 <= Len(t)
        PROVE  \A k \in 1 .. Len(Rules[s]) : d[p + k - 1] = t[p + k - 1]
    BY <1>1, <2>1, <2>2
  <2> QED
    BY <1>2, <2>2 DEF RuleAt
<1> QED
  BY <1>3 DEF RuleAt

(* One step of the reference: what becomes of t from p on, by what becomes  *)
(* of it further on.                                                        *)
Rest(t, from, p) ==
  IF p > Len(t) THEN <<>>
  ELSE IF RuleAt(t, p) = {} THEN <<t[p]>> \o from[p + 1]
  ELSE LET s == CHOOSE s \in RuleAt(t, p) : TRUE
       IN <<s>> \o from[p + Len(Rules[s])]

(* It looks only further on, and makes a text of it.                        *)
LEMMA RestFurther ==
  ASSUME NEW t \in Texts, NEW p \in 1 .. Len(t) + 1, NEW g, NEW h,
         \A q \in p + 1 .. Len(t) + 1 : g[q] = h[q] /\ g[q] \in Seq(Symbol(t))
  PROVE  Rest(t, g, p) = Rest(t, h, p) /\ Rest(t, g, p) \in Seq(Symbol(t))
<1>1. t \in Seq(Values(t)) /\ Len(t) \in Nat
  <2>1. t \in Seq(Values(t))
    BY SubstituteAssumption
  <2> QED
    BY <2>1
<1>2. CASE p > Len(t)
  BY <1>2 DEF Rest
<1>3. CASE p <= Len(t) /\ RuleAt(t, p) = {}
  <2>1. p + 1 \in p + 1 .. Len(t) + 1 /\ t[p] \in Symbol(t)
    BY <1>1, <1>3 DEF Symbol, Values
  <2>2. g[p + 1] = h[p + 1] /\ <<t[p]>> \in Seq(Symbol(t)) /\ g[p + 1] \in Seq(Symbol(t))
    BY <2>1
  <2>3. <<t[p]>> \o g[p + 1] \in Seq(Symbol(t))
    BY <2>2, ConcatProperties
  <2> QED
    BY <1>1, <1>3, <2>2, <2>3 DEF Rest
<1>4. CASE p <= Len(t) /\ RuleAt(t, p) # {}
  <2> DEFINE s == CHOOSE s \in RuleAt(t, p) : TRUE
  <2>1. s \in RuleAt(t, p)
    BY <1>4
  <2> HIDE DEF s
  <2>2. p + Len(Rules[s]) \in p + 1 .. Len(t) + 1 /\ s \in Symbol(t)
    BY <2>1, <1>1, RuleLength DEF Symbol
  <2>3. /\ g[p + Len(Rules[s])] = h[p + Len(Rules[s])]
        /\ <<s>> \in Seq(Symbol(t)) /\ g[p + Len(Rules[s])] \in Seq(Symbol(t))
    BY <2>2
  <2>4. <<s>> \o g[p + Len(Rules[s])] \in Seq(Symbol(t))
    BY <2>3, ConcatProperties
  <2>5. ASSUME NEW k PROVE Rest(t, k, p) = <<s>> \o k[p + Len(Rules[s])]
    BY <1>1, <1>4 DEF Rest, s
  <2> QED
    BY <2>3, <2>4, <2>5
<1> QED
  BY <1>1, <1>2, <1>3, <1>4

(* So there is such a function: from the end of the text on, for each       *)
(* number of places from there.                                             *)
LEMMA RewrittenExists ==
  ASSUME NEW t \in Texts
  PROVE  \E from \in [1 .. Len(t) + 1 -> Seq(Symbol(t))] :
            from = [p \in 1 .. Len(t) + 1 |-> Rest(t, from, p)]
<1> DEFINE N == Len(t) + 1
           F == [1 .. N -> Seq(Symbol(t))]
           S == {m \in Nat : \E f \in F :
                   \A p \in 1 .. N : p > N - m => f[p] = Rest(t, f, p)}
<1>1. N \in Nat \ {0}
  <2>1. t \in Seq(Values(t))
    BY SubstituteAssumption
  <2> QED
    BY <2>1
<1>2. 0 \in S
  <2>1. [p \in 1 .. N |-> <<>>] \in F
    OBVIOUS
  <2>2. \A p \in 1 .. N : ~(p > N - 0)
    BY <1>1
  <2> QED
    BY <2>1, <2>2
<1>3. ASSUME NEW m \in Nat, m \in S PROVE m + 1 \in S
  <2>1. PICK f \in F : \A p \in 1 .. N : p > N - m => f[p] = Rest(t, f, p)
    BY <1>3
  <2>2. ASSUME NEW p \in 1 .. N
        PROVE  \A q \in p + 1 .. N : f[q] \in Seq(Symbol(t))
    BY <2>1, <1>1
  <2>3. \A p \in 1 .. N : Rest(t, f, p) \in Seq(Symbol(t))
    BY <2>2, RestFurther, <1>1
  <2> DEFINE g == [p \in 1 .. N |-> IF p = N - m THEN Rest(t, f, p) ELSE f[p]]
  <2>4. /\ g \in F
        /\ \A p \in 1 .. N : p # N - m => g[p] = f[p]
        /\ \A p \in 1 .. N : p = N - m => g[p] = Rest(t, f, p)
    BY <2>1, <2>3
  <2> HIDE DEF g
  <2>5. ASSUME NEW p \in 1 .. N, p > N - (m + 1) PROVE g[p] = Rest(t, g, p)
    <3>1. \A q \in p + 1 .. N : f[q] = g[q] /\ f[q] \in Seq(Symbol(t))
      BY <2>1, <2>4, <2>5, <1>1
    <3>2. Rest(t, f, p) = Rest(t, g, p)
      BY <3>1, RestFurther, <1>1
    <3>3. CASE p = N - m
      BY <3>2, <3>3, <2>4
    <3>4. CASE p > N - m
      BY <3>2, <3>4, <2>1, <2>4, <1>1
    <3> QED
      BY <3>3, <3>4, <2>5, <1>1
  <2> QED
    BY <2>4, <2>5
<1>4. N \in S
  <2> HIDE DEF S
  <2> QED
    BY <1>1, <1>2, <1>3, NatSet
<1>5. PICK f \in F : \A p \in 1 .. N : p > N - N => f[p] = Rest(t, f, p)
  BY <1>4
<1>6. f = [p \in 1 .. N |-> Rest(t, f, p)]
  BY <1>1, <1>5
<1> QED
  BY <1>6

LEMMA RewrittenText ==
  ASSUME NEW t \in Texts
  PROVE  /\ \A p \in 1 .. Len(t) + 1 : RewrittenFrom(t)[p] = Rest(t, RewrittenFrom(t), p)
         /\ RewrittenFrom(t) \in [1 .. Len(t) + 1 -> Seq(Symbol(t))]
<1> DEFINE N == Len(t) + 1
           Is(from) == from = [p \in 1 .. N |-> Rest(t, from, p)]
<1>1. RewrittenFrom(t) = CHOOSE from : Is(from)
  BY DEF RewrittenFrom, Rest
<1>2. \E from : Is(from)
  BY RewrittenExists
<1>3. Is(RewrittenFrom(t))
  <2> HIDE DEF Is
  <2> QED
    BY <1>1, <1>2
<1> DEFINE R == RewrittenFrom(t)
           S == {m \in Nat : \A p \in 1 .. N : p > N - m => R[p] \in Seq(Symbol(t))}
<1>4. N \in Nat \ {0}
  <2>1. t \in Seq(Values(t))
    BY SubstituteAssumption
  <2> QED
    BY <2>1
<1>5. /\ R = [p \in 1 .. N |-> Rest(t, R, p)]
      /\ \A p \in 1 .. N : R[p] = Rest(t, R, p)
  BY <1>3
<1> HIDE DEF R
<1>6. 0 \in S
  BY <1>4
<1>7. ASSUME NEW m \in Nat, m \in S PROVE m + 1 \in S
  <2>1. ASSUME NEW p \in 1 .. N, p > N - (m + 1) PROVE R[p] \in Seq(Symbol(t))
    <3>1. \A q \in p + 1 .. N : R[q] \in Seq(Symbol(t))
      BY <1>4, <1>7, <2>1
    <3>2. Rest(t, R, p) \in Seq(Symbol(t))
      BY <3>1, <1>4, RestFurther
    <3> QED
      BY <3>2, <1>5
  <2> QED
    BY <2>1
<1>8. N \in S
  <2> HIDE DEF S
  <2> QED
    BY <1>4, <1>6, <1>7, NatSet
<1>9. \A p \in 1 .. N : R[p] \in Seq(Symbol(t))
  BY <1>4, <1>8
<1> QED
  BY <1>5, <1>9 DEF R

LEMMA TextIsSequence ==
  ASSUME NEW t \in Texts
  PROVE  t \in Seq(Values(t)) /\ Len(t) \in Nat /\ t \in [1 .. Len(t) -> Values(t)]
<1>1. t \in Seq(Values(t))
  BY SubstituteAssumption
<1> QED
  BY <1>1

(* What becomes of the text where a rule fits, and where none does for a    *)
(* while.                                                                   *)
LEMMA RestAtRule ==
  ASSUME NEW t \in Texts, NEW p \in 1 .. Len(t) + 1, NEW s \in RuleAt(t, p)
  PROVE  LET here == RewrittenFrom(t)[p]
             after == RewrittenFrom(t)[p + Len(Rules[s])]
         IN /\ p + Len(Rules[s]) \in 1 .. Len(t) + 1
            /\ Len(after) \in Nat /\ Len(here) = 1 + Len(after) /\ here[1] = s
            /\ \A k \in 1 .. Len(after) : here[1 + k] = after[k]
<1> DEFINE q == p + Len(Rules[s])
           after == RewrittenFrom(t)[q]
<1>1. q \in 1 .. Len(t) + 1 /\ p <= Len(t) /\ s \in Symbol(t)
  BY RuleLength DEF Symbol
<1>2. (CHOOSE r \in RuleAt(t, p) : TRUE) = s
  BY OneRule
<1>3. RewrittenFrom(t)[p] = <<s>> \o after
  <2>1. RewrittenFrom(t)[p] = Rest(t, RewrittenFrom(t), p)
    BY RewrittenText
  <2>2. Rest(t, RewrittenFrom(t), p)
          = LET r == CHOOSE r \in RuleAt(t, p) : TRUE
            IN <<r>> \o RewrittenFrom(t)[p + Len(Rules[r])]
    BY <1>1, TextIsSequence DEF Rest
  <2> QED
    BY <2>1, <2>2, <1>2
<1>4. after \in Seq(Symbol(t))
  BY <1>1, RewrittenText
<1>5. <<s>> \in Seq(Symbol(t)) /\ Len(<<s>>) = 1
  BY <1>1
<1> HIDE DEF after, q
<1>6. /\ Len(<<s>> \o after) = Len(<<s>>) + Len(after)
      /\ \A i \in 1 .. Len(<<s>>) + Len(after) :
           (<<s>> \o after)[i] = IF i <= Len(<<s>>) THEN <<s>>[i] ELSE after[i - Len(<<s>>)]
  BY <1>4, <1>5, ConcatProperties
<1>7. /\ Len(after) \in Nat /\ Len(<<s>> \o after) = 1 + Len(after)
      /\ (<<s>> \o after)[1] = s
      /\ \A k \in 1 .. Len(after) : (<<s>> \o after)[1 + k] = after[k]
  BY <1>4, <1>5, <1>6
<1> QED
  BY <1>1, <1>3, <1>7 DEF after, q

LEMMA RestAtSymbol ==
  ASSUME NEW t \in Texts, NEW p \in 1 .. Len(t), RuleAt(t, p) = {}
  PROVE  LET here == RewrittenFrom(t)[p]
             after == RewrittenFrom(t)[p + 1]
         IN /\ Len(after) \in Nat /\ Len(here) = 1 + Len(after) /\ here[1] = t[p]
            /\ \A k \in 1 .. Len(after) : here[1 + k] = after[k]
<1> DEFINE after == RewrittenFrom(t)[p + 1]
           s == t[p]
<1>1. p + 1 \in 1 .. Len(t) + 1 /\ p \in 1 .. Len(t) + 1 /\ s \in Symbol(t)
  BY TextIsSequence DEF Symbol, Values
<1>3. RewrittenFrom(t)[p] = <<s>> \o after
  <2>1. RewrittenFrom(t)[p] = Rest(t, RewrittenFrom(t), p)
    BY <1>1, RewrittenText
  <2>2. Rest(t, RewrittenFrom(t), p) = <<s>> \o after
    BY <1>1, TextIsSequence DEF Rest
  <2> QED
    BY <2>1, <2>2
<1>4. after \in Seq(Symbol(t))
  BY <1>1, RewrittenText
<1>5. <<s>> \in Seq(Symbol(t)) /\ Len(<<s>>) = 1
  BY <1>1
<1> HIDE DEF after, s
<1>6. /\ Len(<<s>> \o after) = Len(<<s>>) + Len(after)
      /\ \A i \in 1 .. Len(<<s>>) + Len(after) :
           (<<s>> \o after)[i] = IF i <= Len(<<s>>) THEN <<s>>[i] ELSE after[i - Len(<<s>>)]
  BY <1>4, <1>5, ConcatProperties
<1>7. /\ Len(after) \in Nat /\ Len(<<s>> \o after) = 1 + Len(after)
      /\ (<<s>> \o after)[1] = s
      /\ \A k \in 1 .. Len(after) : (<<s>> \o after)[1 + k] = after[k]
  BY <1>4, <1>5, <1>6
<1> QED
  BY <1>3, <1>7 DEF after, s

LEMMA RestAtCopy ==
  ASSUME NEW t \in Texts, NEW p \in 1 .. Len(t) + 1, NEW n \in Nat,
         p + n <= Len(t) + 1, NoRule(t, p, p + n)
  PROVE  LET here == RewrittenFrom(t)[p]
             after == RewrittenFrom(t)[p + n]
         IN /\ Len(after) \in Nat /\ Len(here) = n + Len(after)
            /\ \A k \in 1 .. n : here[k] = t[p + k - 1]
            /\ \A k \in 1 .. Len(after) : here[n + k] = after[k]
<1> DEFINE R(q) == RewrittenFrom(t)[q]
           N == Len(t) + 1
           Good(m) == /\ Len(R(p + m)) \in Nat /\ Len(R(p)) = m + Len(R(p + m))
                      /\ \A k \in 1 .. m : R(p)[k] = t[p + k - 1]
                      /\ \A k \in 1 .. Len(R(p + m)) : R(p)[m + k] = R(p + m)[k]
           S == {m \in Nat : m <= n => Good(m)}
<1>1. N \in Nat /\ \A q \in 1 .. N : R(q) \in Seq(Symbol(t)) /\ Len(R(q)) \in Nat
  <2>1. \A q \in 1 .. N : R(q) \in Seq(Symbol(t))
    BY RewrittenText
  <2> QED
    BY <2>1, TextIsSequence
<1>2. \A q \in p .. p + n - 1 :
        /\ q \in 1 .. Len(t)
        /\ Len(R(q + 1)) \in Nat /\ Len(R(q)) = 1 + Len(R(q + 1)) /\ R(q)[1] = t[q]
        /\ \A k \in 1 .. Len(R(q + 1)) : R(q)[1 + k] = R(q + 1)[k]
  <2>1. ASSUME NEW q \in p .. p + n - 1 PROVE q \in 1 .. Len(t) /\ RuleAt(t, q) = {}
    BY TextIsSequence DEF NoRule
  <2> QED
    BY <2>1, RestAtSymbol
<1> HIDE DEF R
<1>3. 0 \in S
  <2>1. p + 0 = p /\ Len(R(p)) \in Nat
    BY <1>1
  <2> QED
    BY <2>1
<1>4. ASSUME NEW m \in Nat, m \in S PROVE m + 1 \in S
  <2> SUFFICES ASSUME m + 1 <= n PROVE Good(m + 1)
    OBVIOUS
  <2>1. Good(m)
    BY <1>4
  <2>2. p + m \in p .. p + n - 1 /\ (p + m) + 1 = p + (m + 1)
    OBVIOUS
  <2>3. /\ Len(R(p + (m + 1))) \in Nat /\ Len(R(p + m)) = 1 + Len(R(p + (m + 1)))
        /\ R(p + m)[1] = t[p + m]
        /\ \A k \in 1 .. Len(R(p + (m + 1))) : R(p + m)[1 + k] = R(p + (m + 1))[k]
    <3> HIDE DEF R
    <3>1. /\ Len(R(p + m + 1)) \in Nat /\ Len(R(p + m)) = 1 + Len(R(p + m + 1))
          /\ R(p + m)[1] = t[p + m]
          /\ \A k \in 1 .. Len(R(p + m + 1)) : R(p + m)[1 + k] = R(p + m + 1)[k]
      BY <2>2, <1>2
    <3>2. p + m + 1 = p + (m + 1)
      OBVIOUS
    <3> QED
      BY ONLY <3>1, <3>2
  <2>4. Len(R(p)) = (m + 1) + Len(R(p + (m + 1)))
    <3>1. PICK x \in Nat : x = Len(R(p + (m + 1)))
      BY <2>3
    <3>2. Len(R(p)) = m + (1 + x)
      BY <3>1, <2>1, <2>3
    <3> QED
      BY ONLY <3>1, <3>2, m \in Nat, x \in Nat
  <2>5. ASSUME NEW k \in 1 .. m + 1 PROVE R(p)[k] = t[p + k - 1]
    <3>1. CASE k \in 1 .. m
      BY <3>1, <2>1
    <3>2. CASE k = m + 1
      <4>1. 1 \in 1 .. Len(R(p + m)) /\ p + k - 1 = p + m
        BY <2>3, <3>2
      <4>2. R(p)[m + 1] = R(p + m)[1]
        BY <4>1, <2>1
      <4> QED
        BY <4>1, <4>2, <2>3, <3>2
    <3> QED
      BY <3>1, <3>2
  <2>6. ASSUME NEW k \in 1 .. Len(R(p + (m + 1)))
        PROVE  R(p)[(m + 1) + k] = R(p + (m + 1))[k]
    <3>1. 1 + k \in 1 .. Len(R(p + m)) /\ m + (1 + k) = (m + 1) + k
      BY <2>3
    <3>2. R(p)[m + (1 + k)] = R(p + m)[1 + k]
      BY <3>1, <2>1
    <3> QED
      BY <3>1, <3>2, <2>3
  <2> QED
    BY <2>3, <2>4, <2>5, <2>6
<1>5. n \in S
  <2> HIDE DEF S
  <2> QED
    BY <1>3, <1>4, NatSet
<1> QED
  BY <1>5 DEF R

(* The thread that obeys goes on as the reference does.                     *)
LEMMA RewroteStart ==
  ASSUME NEW t \in Texts
  PROVE  Rewrote(t, t, 1, 1)
<1>1. t \in [1 .. Len(t) -> Symbol(t)] /\ Len(t) \in Nat
  BY TextIsSequence DEF Symbol
<1>2. Len(RewrittenFrom(t)[1]) \in Nat
  <2>1. RewrittenFrom(t)[1] \in Seq(Symbol(t))
    BY <1>1, RewrittenText
  <2> QED
    BY <2>1
<1> QED
  BY <1>1, <1>2 DEF Rewrote

LEMMA RewroteEnd ==
  ASSUME NEW t \in Texts, NEW d, NEW o \in Nat \ {0}, Rewrote(t, d, o, Len(t) + 1)
  PROVE  Len(RewrittenFrom(t)[1]) = o - 1
<1>1. RewrittenFrom(t)[Len(t) + 1] = <<>>
  <2>1. Len(t) + 1 \in 1 .. Len(t) + 1 /\ Len(t) + 1 > Len(t)
    BY TextIsSequence
  <2> QED
    BY <2>1, RewrittenText DEF Rest
<1>2. Len(RewrittenFrom(t)[1]) = o - 1 + Len(<<>>)
  BY <1>1 DEF Rewrote
<1> QED
  BY <1>2

LEMMA RewroteCopy ==
  ASSUME NEW t \in Texts, NEW d, NEW o \in Nat \ {0}, NEW p \in Nat, o <= p,
         NEW n \in Nat, p + n <= Len(t) + 1, NoRule(t, p, p + n), Rewrote(t, d, o, p),
         NEW e, e = [k \in 1 .. Len(t) |-> IF k \in o .. o + n - 1 THEN d[k - o + p] ELSE d[k]]
  PROVE  Rewrote(t, e, o + n, p + n)
<1> DEFINE whole == RewrittenFrom(t)[1]
           here == RewrittenFrom(t)[p]
           after == RewrittenFrom(t)[p + n]
<1>1. /\ d \in [1 .. Len(t) -> Symbol(t)] /\ Len(whole) = o - 1 + Len(here)
      /\ \A k \in 1 .. o - 1 : d[k] = whole[k]
      /\ \A k \in 1 .. Len(here) : whole[o - 1 + k] = here[k]
      /\ \A k \in o .. Len(t) : d[k] = t[k]
  BY DEF Rewrote
<1>2. /\ Len(after) \in Nat /\ Len(here) = n + Len(after)
      /\ \A k \in 1 .. n : here[k] = t[p + k - 1]
      /\ \A k \in 1 .. Len(after) : here[n + k] = after[k]
  <2>1. p \in 1 .. Len(t) + 1
    BY TextIsSequence
  <2> QED
    BY <2>1, RestAtCopy
<1>3. Len(t) \in Nat
  BY TextIsSequence
<1> HIDE DEF whole, here, after
<1>4. Len(whole) = (o + n) - 1 + Len(after)
  BY <1>1, <1>2
<1>5. e \in [1 .. Len(t) -> Symbol(t)]
  BY <1>1, <1>3
<1>6. ASSUME NEW k \in 1 .. (o + n) - 1 PROVE e[k] = whole[k]
  <2>1. CASE k < o
    BY <2>1, <1>1, <1>3
  <2>2. CASE k >= o
    <3>1. k - o + p \in o .. Len(t) /\ k \in 1 .. Len(t) /\ k \in o .. o + n - 1
      BY <2>2, <1>3
    <3>2. e[k] = d[k - o + p] /\ d[k - o + p] = t[k - o + p]
      BY <3>1, <1>1
    <3>3. /\ k - o + 1 \in 1 .. n /\ k - o + 1 \in 1 .. Len(here)
          /\ p + (k - o + 1) - 1 = k - o + p /\ o - 1 + (k - o + 1) = k
      BY <2>2, <1>2
    <3>4. here[k - o + 1] = t[p + (k - o + 1) - 1]
      BY <3>3, <1>2
    <3>5. whole[o - 1 + (k - o + 1)] = here[k - o + 1]
      BY <3>3, <1>1
    <3> QED
      BY <3>2, <3>3, <3>4, <3>5
  <2> QED
    BY <2>1, <2>2
<1>7. ASSUME NEW k \in 1 .. Len(after) PROVE whole[(o + n) - 1 + k] = after[k]
  <2>1. n + k \in 1 .. Len(here) /\ o - 1 + (n + k) = (o + n) - 1 + k
    BY <1>2
  <2>2. whole[o - 1 + (n + k)] = here[n + k]
    BY <2>1, <1>1
  <2> QED
    BY <2>1, <2>2, <1>2
<1>8. ASSUME NEW k \in o + n .. Len(t) PROVE e[k] = t[k]
  <2>1. k \in 1 .. Len(t) /\ k \notin o .. o + n - 1 /\ k \in o .. Len(t)
    BY <1>3
  <2> QED
    BY <2>1, <1>1
<1> QED
  BY <1>4, <1>5, <1>6, <1>7, <1>8 DEF Rewrote, whole, after

LEMMA RewrotePut ==
  ASSUME NEW t \in Texts, NEW d, NEW o \in Nat \ {0}, NEW p \in Nat, o <= p,
         NEW s \in RuleAt(t, p), Rewrote(t, d, o, p)
  PROVE  Rewrote(t, [d EXCEPT ![o] = s], o + 1, p + Len(Rules[s]))
<1> DEFINE whole == RewrittenFrom(t)[1]
           here == RewrittenFrom(t)[p]
           after == RewrittenFrom(t)[p + Len(Rules[s])]
           e == [d EXCEPT ![o] = s]
<1>1. /\ d \in [1 .. Len(t) -> Symbol(t)] /\ Len(whole) = o - 1 + Len(here)
      /\ \A k \in 1 .. o - 1 : d[k] = whole[k]
      /\ \A k \in 1 .. Len(here) : whole[o - 1 + k] = here[k]
      /\ \A k \in o .. Len(t) : d[k] = t[k]
  BY DEF Rewrote
<1>2. Len(t) \in Nat /\ p \in 1 .. Len(t) /\ s \in Symbol(t)
  BY RuleLength DEF Symbol
<1>3. /\ Len(after) \in Nat /\ Len(here) = 1 + Len(after) /\ here[1] = s
      /\ \A k \in 1 .. Len(after) : here[1 + k] = after[k]
  BY <1>2, RestAtRule
<1> HIDE DEF whole, here, after
<1>4. Len(whole) = (o + 1) - 1 + Len(after)
  BY <1>1, <1>3
<1>5. /\ e \in [1 .. Len(t) -> Symbol(t)] /\ e[o] = s
      /\ \A k \in 1 .. Len(t) : k # o => e[k] = d[k]
  BY <1>1, <1>2
<1> HIDE DEF e
<1>6. whole[o] = s
  <2>1. 1 \in 1 .. Len(here) /\ o - 1 + 1 = o
    BY <1>3
  <2> QED
    BY <2>1, <1>1, <1>3
<1>7. ASSUME NEW k \in 1 .. (o + 1) - 1 PROVE e[k] = whole[k]
  <2>1. k = o \/ (k # o /\ k \in 1 .. o - 1 /\ k \in 1 .. Len(t))
    BY <1>2
  <2> QED
    BY <2>1, <1>1, <1>5, <1>6
<1>8. ASSUME NEW k \in 1 .. Len(after) PROVE whole[(o + 1) - 1 + k] = after[k]
  <2>1. 1 + k \in 1 .. Len(here) /\ o - 1 + (1 + k) = (o + 1) - 1 + k
    BY <1>3
  <2>2. whole[o - 1 + (1 + k)] = here[1 + k]
    BY <2>1, <1>1
  <2> QED
    BY <2>1, <2>2, <1>3
<1>9. ASSUME NEW k \in o + 1 .. Len(t) PROVE e[k] = t[k]
  BY <1>1, <1>2, <1>5
<1> QED
  BY <1>4, <1>5, <1>7, <1>8, <1>9 DEF Rewrote, whole, after, e

-------------------------------------------------------------------------------
(* Runs: put together, cut in two, renamed, widened.                        *)
LEMMA RunEmpty ==
  ASSUME NEW t, NEW cs, NEW f, NEW a \in Place, NEW b
  PROVE  Run(t, cs, 0, a, b, f) <=> a = b
<1>1. ASSUME a = b PROVE Run(t, cs, 0, a, b, f)
  <2> DEFINE at == [k \in 0 .. 0 |-> a]
  <2>1. at \in [0 .. 0 -> Place] /\ at[0] = a
    OBVIOUS
  <2> HIDE DEF at
  <2>2. Path(t, cs, 0, a, b, f, at)
    BY <2>1, <1>1 DEF Path
  <2> QED
    BY <2>1, <2>2 DEF Run
<1> QED
  BY <1>1 DEF Run, Path

LEMMA RunSame ==
  ASSUME NEW t, NEW cs, NEW ds, NEW n \in Nat, NEW a, NEW b, NEW f,
         Run(t, cs, n, a, b, f), \A k \in 0 .. n - 1 : ds[k] = cs[k]
  PROVE  Run(t, ds, n, a, b, f)
BY DEF Run, Path

LEMMA RunConcat ==
  ASSUME NEW t, NEW f, NEW cs, NEW n \in Nat, NEW ds, NEW m \in Nat, NEW es,
         NEW a, NEW b, NEW c,
         Run(t, cs, n, a, b, f), Run(t, ds, m, b, c, f),
         \A k \in 0 .. n - 1 : es[k] = cs[k],
         \A k \in 0 .. m - 1 : es[n + k] = ds[k]
  PROVE  Run(t, es, n + m, a, c, f)
<1>1. PICK at \in [0 .. n -> Place] : Path(t, cs, n, a, b, f, at)
  BY DEF Run
<1>2. PICK bt \in [0 .. m -> Place] : Path(t, ds, m, b, c, f, bt)
  BY DEF Run
<1> DEFINE ct == [k \in 0 .. n + m |-> IF k <= n THEN at[k] ELSE bt[k - n]]
<1>3. ct \in [0 .. n + m -> Place]
  BY <1>1, <1>2
<1>4. /\ \A k \in 0 .. n : ct[k] = at[k]
      /\ \A k \in 0 .. m : ct[n + k] = bt[k]
  <2>1. ASSUME NEW k \in 0 .. n PROVE ct[k] = at[k]
    OBVIOUS
  <2>2. ASSUME NEW k \in 0 .. m PROVE ct[n + k] = bt[k]
    <3>1. CASE k = 0
      BY <3>1, <1>1, <1>2 DEF Path
    <3>2. CASE k # 0
      BY <3>2
    <3> QED
      BY <3>1, <3>2
  <2> QED
    BY <2>1, <2>2
<1> HIDE DEF ct
<1>5. ASSUME NEW k \in 0 .. n + m - 1
      PROVE  Follows(t, es[k], ct[k], ct[k + 1], f)
  <2>1. CASE k < n
    <3>1. k \in 0 .. n - 1 /\ k \in 0 .. n /\ k + 1 \in 0 .. n
      BY <2>1
    <3>2. ct[k] = at[k] /\ ct[k + 1] = at[k + 1] /\ es[k] = cs[k]
      BY <3>1, <1>4
    <3> QED
      BY <3>1, <3>2, <1>1 DEF Path
  <2>2. CASE k >= n
    <3>1. PICK q \in 0 .. m - 1 : k = n + q
      <4>1. k - n \in 0 .. m - 1 /\ k = n + (k - n)
        BY <2>2
      <4> QED
        BY <4>1
    <3>2. q \in 0 .. m /\ q + 1 \in 0 .. m /\ k + 1 = n + (q + 1)
      BY <3>1
    <3>3. es[k] = ds[q] /\ ct[k] = bt[q] /\ ct[k + 1] = bt[q + 1]
      BY <3>1, <3>2, <1>4
    <3> QED
      BY <3>1, <3>3, <1>2 DEF Path
  <2> QED
    BY <2>1, <2>2
<1>6. Path(t, es, n + m, a, c, f, ct)
  <2>1. ct[0] = a /\ ct[n + m] = c
    BY <1>1, <1>2, <1>4 DEF Path
  <2> QED
    BY <2>1, <1>5 DEF Path
<1> QED
  BY <1>3, <1>6 DEF Run

LEMMA RunSplit ==
  ASSUME NEW t, NEW f, NEW cs, NEW n \in Nat, NEW m \in 0 .. n, NEW ds,
         NEW a, NEW b,
         Run(t, cs, n, a, b, f),
         \A k \in 0 .. n - m - 1 : ds[k] = cs[m + k]
  PROVE  \E c \in Place : Run(t, cs, m, a, c, f) /\ Run(t, ds, n - m, c, b, f)
<1>1. PICK at \in [0 .. n -> Place] : Path(t, cs, n, a, b, f, at)
  BY DEF Run
<1>2. Run(t, cs, m, a, at[m], f)
  <2> DEFINE bt == [k \in 0 .. m |-> at[k]]
  <2>1. bt \in [0 .. m -> Place] /\ \A k \in 0 .. m : bt[k] = at[k]
    BY <1>1
  <2> HIDE DEF bt
  <2>2. Path(t, cs, m, a, at[m], f, bt)
    BY <2>1, <1>1 DEF Path
  <2> QED
    BY <2>1, <2>2 DEF Run
<1>3. Run(t, ds, n - m, at[m], b, f)
  <2> DEFINE bt == [k \in 0 .. n - m |-> at[m + k]]
  <2>1. bt \in [0 .. n - m -> Place] /\ \A k \in 0 .. n - m : bt[k] = at[m + k]
    BY <1>1
  <2> HIDE DEF bt
  <2>2. ASSUME NEW k \in 0 .. n - m - 1
        PROVE  Follows(t, ds[k], bt[k], bt[k + 1], f)
    <3>1. m + k \in 0 .. n - 1 /\ m + (k + 1) = (m + k) + 1
      OBVIOUS
    <3>2. bt[k] = at[m + k] /\ bt[k + 1] = at[(m + k) + 1] /\ ds[k] = cs[m + k]
      BY <2>1
    <3> QED
      BY <3>1, <3>2, <1>1 DEF Path
  <2>3. bt[0] = at[m] /\ bt[n - m] = b
    BY <2>1, <1>1 DEF Path
  <2>4. Path(t, ds, n - m, at[m], b, f, bt)
    BY <2>2, <2>3 DEF Path
  <2> QED
    BY <2>1, <2>4 DEF Run
<1> QED
  BY <1>1, <1>2, <1>3

(* Runs go forward, and stay runs when the frontier moves on.               *)
LEMMA RunEnds ==
  ASSUME NEW t, NEW cs, NEW n \in Nat, NEW a, NEW b, NEW f, Run(t, cs, n, a, b, f)
  PROVE  a \in Place /\ b \in Place
<1>1. PICK at \in [0 .. n -> Place] : Path(t, cs, n, a, b, f, at)
  BY DEF Run
<1> QED
  BY <1>1 DEF Path

LEMMA FollowsForward ==
  ASSUME NEW t \in Texts, NEW c, NEW a \in Place, NEW b \in Place, NEW f,
         Follows(t, c, a, b, f)
  PROVE  a[1] \in Nat /\ b[1] \in Nat /\ a[1] <= b[1]
<1>1. a[1] \in Nat /\ a[2] \in Nat /\ b[1] \in Nat
  BY DEF Place
<1> QED
  BY <1>1, TextIsSequence DEF Follows

LEMMA RunForward ==
  ASSUME NEW t \in Texts, NEW cs, NEW n \in Nat, NEW a, NEW b, NEW f,
         Run(t, cs, n, a, b, f)
  PROVE  a[1] \in Nat /\ b[1] \in Nat /\ a[1] <= b[1]
<1>1. PICK at \in [0 .. n -> Place] : Path(t, cs, n, a, b, f, at)
  BY DEF Run
<1> DEFINE S == {k \in Nat : k <= n => at[0][1] \in Nat /\ at[k][1] \in Nat
                                         /\ at[0][1] <= at[k][1]}
<1>2. 0 \in S
  BY <1>1 DEF Place
<1>3. ASSUME NEW k \in Nat, k \in S PROVE k + 1 \in S
  <2> SUFFICES ASSUME k + 1 <= n
               PROVE  /\ at[0][1] \in Nat /\ at[k + 1][1] \in Nat
                      /\ at[0][1] <= at[k + 1][1]
    OBVIOUS
  <2>1. Follows(t, cs[k], at[k], at[k + 1], f) /\ at[k] \in Place /\ at[k + 1] \in Place
    BY <1>1 DEF Path
  <2>2. at[k][1] \in Nat /\ at[k + 1][1] \in Nat /\ at[k][1] <= at[k + 1][1]
    BY <2>1, FollowsForward
  <2> QED
    BY <2>2, <1>3
<1>4. n \in S
  <2> HIDE DEF S
  <2> QED
    BY <1>2, <1>3, NatSet
<1> QED
  BY <1>1, <1>4 DEF Path

LEMMA RunWider ==
  ASSUME NEW t \in Texts, NEW cs, NEW n \in Nat, NEW a, NEW b, NEW f \in Nat,
         NEW g \in Nat, f <= g, Run(t, cs, n, a, b, f)
  PROVE  Run(t, cs, n, a, b, g)
<1>1. PICK at \in [0 .. n -> Place] : Path(t, cs, n, a, b, f, at)
  BY DEF Run
<1>2. ASSUME NEW k \in 0 .. n - 1 PROVE Follows(t, cs[k], at[k], at[k + 1], g)
  <2>1. Follows(t, cs[k], at[k], at[k + 1], f) /\ at[k] \in Place /\ at[k + 1] \in Place
    BY <1>1 DEF Path
  <2>2. at[k][1] \in Nat /\ at[k + 1][1] \in Nat
    BY <2>1 DEF Place
  <2> QED
    BY <2>1, <2>2 DEF Follows
<1> QED
  BY <1>1, <1>2 DEF Run, Path

(* One command more at the end, and the first one.                          *)
LEMMA RunAppend ==
  ASSUME NEW t, NEW cs, NEW n \in Nat, NEW m, NEW es, NEW a, NEW b, NEW c \in Place,
         NEW f, m = n + 1,
         Run(t, cs, n, a, b, f), \A k \in 0 .. n - 1 : es[k] = cs[k],
         Follows(t, es[n], b, c, f)
  PROVE  Run(t, es, m, a, c, f)
<1>1. PICK at \in [0 .. n -> Place] : Path(t, cs, n, a, b, f, at)
  BY DEF Run
<1> DEFINE ct == [k \in 0 .. n + 1 |-> IF k <= n THEN at[k] ELSE c]
<1>2. /\ ct \in [0 .. n + 1 -> Place] /\ ct[n + 1] = c
      /\ \A k \in 0 .. n : ct[k] = at[k]
  BY <1>1
<1> HIDE DEF ct
<1>3. ASSUME NEW k \in 0 .. n PROVE Follows(t, es[k], ct[k], ct[k + 1], f)
  <2>1. CASE k = n
    BY <2>1, <1>1, <1>2 DEF Path
  <2>2. CASE k # n
    <3>1. k \in 0 .. n - 1 /\ k + 1 \in 0 .. n
      BY <2>2
    <3> QED
      BY <3>1, <1>1, <1>2 DEF Path
  <2> QED
    BY <2>1, <2>2
<1>4. Path(t, es, n + 1, a, c, f, ct)
  BY <1>1, <1>2, <1>3 DEF Path
<1> QED
  BY <1>2, <1>4 DEF Run

LEMMA RunFirst ==
  ASSUME NEW t, NEW cs, NEW n \in Nat \ {0}, NEW ds, NEW a, NEW b, NEW f,
         Run(t, cs, n, a, b, f), \A k \in 0 .. n - 2 : ds[k] = cs[1 + k]
  PROVE  \E c \in Place : Follows(t, cs[0], a, c, f) /\ Run(t, ds, n - 1, c, b, f)
<1>1. PICK c \in Place : Run(t, cs, 1, a, c, f) /\ Run(t, ds, n - 1, c, b, f)
  <2>1. 1 \in 0 .. n /\ n \in Nat /\ \A k \in 0 .. n - 1 - 1 : ds[k] = cs[1 + k]
    OBVIOUS
  <2> QED
    BY <2>1, RunSplit
<1>2. Follows(t, cs[0], a, c, f)
  BY <1>1 DEF Run, Path
<1> QED
  BY <1>1, <1>2

-------------------------------------------------------------------------------
(* A turn of a scan at p, with c symbols to copy, as text t determines it.  *)
Turned(t, p, c, turn) ==
  \/ \E s \in RuleAt(t, p) :
       turn.pos = p + Len(Rules[s]) /\ turn.copied = 0 /\ turn.queue = Commands(c, s)
  \/ /\ RuleAt(t, p) = {} /\ turn.pos = p + 1
     /\ \/ turn.copied = c + 1 /\ turn.queue = <<>>
        \/ turn.copied = 0 /\ turn.queue = <<Copy(c + 1)>>

LEMMA TurnsOfText ==
  ASSUME text \in Texts, NEW o \in Nat \ {0}, NEW a \in Place, Rewrote(text, buf, o, a[1]),
         NEW p \in Nat, o <= p, NEW c, NEW turn \in Turns(p, c)
  PROVE  Turned(text, p, c, turn)
<1>1. RuleAt(buf, p) = RuleAt(text, p)
  <2>1. /\ buf \in [1 .. Len(text) -> Symbol(text)]
        /\ \A k \in o .. Len(text) : buf[k] = text[k]
    BY DEF Rewrote
  <2> QED
    BY <2>1, RuleInBuffer
<1>2. CASE RuleAt(text, p) # {}
  <2>1. turn \in {[pos |-> p + Len(Rules[s]), copied |-> 0, queue |-> Commands(c, s)] :
                     s \in RuleAt(text, p)}
    <3> DEFINE Turn(s) == [pos |-> p + Len(Rules[s]), copied |-> 0, queue |-> Commands(c, s)]
               matches == {Turn(s) : s \in RuleAt(buf, p)}
    <3>1. PICK s \in RuleAt(buf, p) : TRUE
      BY <1>1, <1>2
    <3>2. Turn(s) \in matches
      BY <3>1
    <3>3. matches # {} => Turns(p, c) = matches
      BY DEF Turns
    <3> QED
      BY <3>2, <3>3, <1>1
  <2> QED
    BY <2>1 DEF Turned
<1>3. CASE RuleAt(text, p) = {}
  <2>1. \/ turn = [pos |-> p + 1, copied |-> c + 1, queue |-> <<>>]
        \/ turn = [pos |-> p + 1, copied |-> 0, queue |-> <<Copy(c + 1)>>]
    BY <1>1, <1>3 DEF Turns
  <2> QED
    BY <2>1, <1>3 DEF Turned
<1> QED
  BY <1>2, <1>3

(* Commands for what has been found there.                                  *)
LEMMA FollowsCopy ==
  ASSUME NEW t \in Texts, NEW p \in Nat, NEW n \in Nat \ {0}, NEW f \in Nat,
         n <= p, p <= f, p <= Len(t) + 1, NoRule(t, p - n, p)
  PROVE  Follows(t, Copy(n), <<p - n, 0>>, <<p, 0>>, f)
<1>1. Copy(n).do = "copy" /\ Copy(n).n = n
  BY DEF Copy
<1> QED
  BY <1>1 DEF Follows

LEMMA FollowsMatch ==
  ASSUME NEW t \in Texts, NEW p \in Nat, NEW s \in RuleAt(t, p), NEW f \in Nat, p < f
  PROVE  /\ Follows(t, Skip(Len(Rules[s])), <<p, 0>>, <<p, Len(Rules[s])>>, f)
         /\ Follows(t, Put(s), <<p, Len(Rules[s])>>, <<p + Len(Rules[s]), 0>>, f)
<1>1. /\ Skip(Len(Rules[s])).do = "skip" /\ Skip(Len(Rules[s])).n = Len(Rules[s])
      /\ Put(s).do = "put" /\ Put(s).symbol = s
  BY DEF Skip, Put
<1>2. Len(Rules[s]) # 0
  BY RuleLength
<1> QED
  BY <1>1, <1>2 DEF Follows

LEMMA ScannedNothing ==
  ASSUME NEW t, NEW p \in Nat, NEW c \in Nat, NEW a, NEW f, c <= p
  PROVE  Scanned(t, <<>>, p, c, a, f) <=> a = <<p - c, 0>> /\ NoRule(t, p - c, p)
<1>1. <<p - c, 0>> \in Place
  BY DEF Place
<1>2. Len(<<>>) = 0
  OBVIOUS
<1>3. ASSUME Run(t, Listed(<<>>), 0, a, <<p - c, 0>>, f) PROVE a = <<p - c, 0>>
  BY <1>3, RunEnds, RunEmpty
<1>4. Run(t, Listed(<<>>), 0, <<p - c, 0>>, <<p - c, 0>>, f)
  BY <1>1, RunEmpty
<1> QED
  BY <1>2, <1>3, <1>4 DEF Scanned

LEMMA ScannedOne ==
  ASSUME NEW t \in Texts, NEW q \in Command, NEW p \in Nat, NEW c \in Nat, NEW a \in Place,
         NEW f, c <= p, Follows(t, q, a, <<p - c, 0>>, f), NoRule(t, p - c, p)
  PROVE  Scanned(t, <<q>>, p, c, a, f)
<1> DEFINE b == <<p - c, 0>>
<1>1. b \in Place
  BY DEF Place
<1>2. Len(<<q>>) = 0 + 1 /\ Listed(<<q>>)[0] = q
  BY DEF Listed
<1>3. Run(t, Listed(<<q>>), 0, a, a, f)
  BY RunEmpty
<1> HIDE DEF b
<1>4. Run(t, Listed(<<q>>), 1, a, b, f)
  BY <1>1, <1>2, <1>3, RunAppend DEF b
<1> QED
  BY <1>2, <1>4 DEF Scanned, b

LEMMA ScannedMatch ==
  ASSUME NEW t \in Texts, NEW p \in Nat, NEW c \in Nat, NEW a, NEW f \in Nat,
         c <= p, p < f, Scanned(t, <<>>, p, c, a, f), NEW s \in RuleAt(t, p)
  PROVE  Scanned(t, Commands(c, s), p + Len(Rules[s]), 0, a, f)
<1> DEFINE n == Len(Rules[s])
           q == Commands(c, s)
           start == <<p - c, 0>>
           match == <<p, 0>>
           word == <<p, n>>
           end == <<p + n, 0>>
<1>1. a = start /\ NoRule(t, p - c, p)
  BY ScannedNothing
<1>2. n \in Nat /\ n > 1 /\ p + n <= Len(t) + 1 /\ Len(t) \in Nat
  BY RuleLength
<1>3. start \in Place /\ match \in Place /\ word \in Place /\ end \in Place
  BY <1>2 DEF Place
<1>4. Follows(t, Skip(n), match, word, f) /\ Follows(t, Put(s), word, end, f)
  BY FollowsMatch
<1>5. ASSUME c = 0 PROVE Run(t, Listed(q), Len(q), a, end, f)
  <2>1. Len(q) = 2 /\ Listed(q)[0] = Skip(n) /\ Listed(q)[1] = Put(s) /\ start = match
    BY <1>5 DEF Commands, Listed
  <2> HIDE DEF n, q, start, match, word, end
  <2>2. Run(t, Listed(q), 0, start, match, f)
    BY <2>1, <1>3, RunEmpty
  <2>3. Run(t, Listed(q), 1, start, word, f)
    BY <2>1, <2>2, <1>3, <1>4, RunAppend
  <2>4. Run(t, Listed(q), 2, start, end, f)
    BY <2>1, <2>3, <1>3, <1>4, RunAppend
  <2> QED
    BY <2>1, <2>4, <1>1
<1>6. ASSUME c # 0 PROVE Run(t, Listed(q), Len(q), a, end, f)
  <2>1. /\ Len(q) = 3 /\ Listed(q)[0] = Copy(c) /\ Listed(q)[1] = Skip(n)
        /\ Listed(q)[2] = Put(s)
    BY <1>6 DEF Commands, Listed
  <2>2. Follows(t, Copy(c), start, match, f)
    BY <1>1, <1>2, <1>6, FollowsCopy
  <2> HIDE DEF n, q, start, match, word, end
  <2>3. Run(t, Listed(q), 0, start, start, f)
    BY <1>3, RunEmpty
  <2>4. Run(t, Listed(q), 1, start, match, f)
    BY <2>1, <2>2, <2>3, <1>3, RunAppend
  <2>5. Run(t, Listed(q), 2, start, word, f)
    BY <2>1, <2>4, <1>3, <1>4, RunAppend
  <2>6. Run(t, Listed(q), 3, start, end, f)
    BY <2>1, <2>5, <1>3, <1>4, RunAppend
  <2> QED
    BY <2>1, <2>6, <1>1
<1>7. Run(t, Listed(q), Len(q), a, end, f)
  BY <1>5, <1>6
<1>8. end = <<(p + n) - 0, 0>> /\ NoRule(t, (p + n) - 0, p + n) /\ 0 <= p + n
  BY <1>2 DEF NoRule
<1> QED
  BY <1>7, <1>8 DEF Scanned

LEMMA TurnScanned ==
  ASSUME NEW t \in Texts, NEW p \in 1 .. Len(t), NEW c \in Nat, NEW a, NEW f \in Nat,
         c <= p, p < f, f <= Len(t) + 1, Scanned(t, <<>>, p, c, a, f),
         NEW turn, Turned(t, p, c, turn)
  PROVE  Scanned(t, turn.queue, turn.pos, turn.copied, a, f)
<1>1. CASE \E s \in RuleAt(t, p) : turn.pos = p + Len(Rules[s]) /\ turn.copied = 0
                                     /\ turn.queue = Commands(c, s)
  <2>1. PICK s \in RuleAt(t, p) : turn.pos = p + Len(Rules[s]) /\ turn.copied = 0
                                     /\ turn.queue = Commands(c, s)
    BY <1>1
  <2>2. p \in Nat
    BY TextIsSequence
  <2>3. Scanned(t, Commands(c, s), p + Len(Rules[s]), 0, a, f)
    BY <2>2, ScannedMatch
  <2> QED
    BY <2>1, <2>3
<1>2. CASE RuleAt(t, p) = {} /\ turn.pos = p + 1
  <2>1. a = <<p - c, 0>> /\ NoRule(t, p - c, p)
    BY ScannedNothing, TextIsSequence
  <2>2. NoRule(t, p - c, p + 1) /\ p - c \in Nat
    BY <1>2, <2>1, TextIsSequence DEF NoRule
  <2>3. CASE turn.copied = c + 1 /\ turn.queue = <<>>
    <3>1. (p + 1) - (c + 1) = p - c /\ p + 1 \in Nat /\ c + 1 \in Nat /\ c + 1 <= p + 1
      BY TextIsSequence
    <3> QED
      BY <3>1, <1>2, <2>1, <2>2, <2>3, ScannedNothing
  <2>4. CASE turn.copied = 0 /\ turn.queue = <<Copy(c + 1)>>
    <3>1. /\ (p + 1) - (c + 1) = p - c /\ p + 1 \in Nat /\ c + 1 \in Nat \ {0}
          /\ c + 1 <= p + 1 /\ p + 1 <= f /\ p + 1 <= Len(t) + 1
      BY TextIsSequence
    <3>2. Follows(t, Copy(c + 1), <<(p + 1) - (c + 1), 0>>, <<p + 1, 0>>, f)
      BY <3>1, <2>2, FollowsCopy
    <3>3. /\ p + 1 - 0 = p + 1 /\ NoRule(t, p + 1 - 0, p + 1) /\ <<p - c, 0>> \in Place
          /\ Follows(t, Copy(c + 1), <<p - c, 0>>, <<p + 1 - 0, 0>>, f)
          /\ Copy(c + 1) \in Command /\ 0 <= p + 1 /\ 0 \in Nat
      BY <2>2, <3>1, <3>2 DEF NoRule, Place, Copy, Command
    <3>4. Scanned(t, <<Copy(c + 1)>>, p + 1, 0, <<p - c, 0>>, f)
      BY <3>1, <3>3, ScannedOne
    <3> QED
      BY <3>4, <1>2, <2>1, <2>4
  <2> QED
    BY <1>2, <2>3, <2>4, <1>1 DEF Turned
<1> QED
  BY <1>1, <1>2 DEF Turned

(* What is posted is the next step.                                         *)
LEMMA ScannedPost ==
  ASSUME NEW t \in Texts, NEW V, NEW q \in Seq(V), q # <<>>, NEW p, NEW c, NEW a,
         NEW f, Scanned(t, q, p, c, a, f)
  PROVE  \E b \in Place : Follows(t, Head(q), a, b, f) /\ Scanned(t, Tail(q), p, c, b, f)
<1>1. /\ Len(q) \in Nat \ {0} /\ Len(Tail(q)) = Len(q) - 1 /\ q[1] = Head(q)
      /\ \A i \in 1 .. Len(Tail(q)) : Tail(q)[i] = q[i + 1]
  BY HeadTailProperties
<1>2. Listed(q)[0] = Head(q)
  BY <1>1 DEF Listed
<1>3. \A k \in 0 .. Len(q) - 2 : Listed(Tail(q))[k] = Listed(q)[1 + k]
  BY <1>1 DEF Listed
<1>4. Run(t, Listed(q), Len(q), a, <<p - c, 0>>, f) /\ c <= p /\ NoRule(t, p - c, p)
  BY DEF Scanned
<1>5. PICK b \in Place : /\ Follows(t, Listed(q)[0], a, b, f)
                         /\ Run(t, Listed(Tail(q)), Len(q) - 1, b, <<p - c, 0>>, f)
  BY <1>1, <1>3, <1>4, RunFirst
<1> QED
  BY <1>1, <1>2, <1>4, <1>5 DEF Scanned

-------------------------------------------------------------------------------
(* The rings.                                                               *)
LEMMA Sizes ==
  /\ Half \in Nat \ {0} /\ Ring \in Nat \ {0} /\ Ring = 2 * Half
  /\ FinderRing \in Nat \ {0} /\ FinderRing > 1
  /\ Batch \in Nat \ {0} /\ Batch < Half /\ CopyMax \in Nat \ {0}
  /\ Threads \in Nat \ {0}
BY SubstituteAssumption DEF Ring

LEMMA AheadRange ==
  ASSUME Types
  PROVE  Ahead \in 0 .. Ring - 1 /\ Ahead \in Nat /\ (Ahead = 0 <=> next = posted)
<1>1. next \in 0 .. Ring - 1 /\ posted \in 0 .. Ring - 1 /\ Ring \in Nat \ {0}
  BY Sizes DEF Types
<1> QED
  BY <1>1, RingRange DEF Ahead

(* What is posted goes behind what is pending.                              *)
LEMMA PostedIndex ==
  ASSUME Types, NEW cs \in Seq(Command), Ahead + Len(cs) < Ring, Post(cs), next' = next
  PROVE  Ahead' = Ahead + Len(cs) /\ posted' \in 0 .. Ring - 1
         /\ posted' = Onward(Ring, posted, Len(cs))
<1>1. posted' = Onward(Ring, posted, Len(cs))
  BY DEF Post, Onward
<1>2. /\ Ring \in Nat \ {0} /\ next \in 0 .. Ring - 1 /\ posted \in 0 .. Ring - 1
      /\ Len(cs) \in Nat /\ Distance(Ring, next, posted) + Len(cs) < Ring
  BY Sizes DEF Types, Ahead
<1>3. /\ Onward(Ring, posted, Len(cs)) \in 0 .. Ring - 1
      /\ Distance(Ring, next, Onward(Ring, posted, Len(cs)))
           = Distance(Ring, next, posted) + Len(cs)
  BY <1>2, RingLonger
<1>4. Ahead' = Distance(Ring, next', posted')
  BY DEF Ahead, Ring
<1> QED
  BY <1>1, <1>3, <1>4 DEF Ahead

LEMMA Posted ==
  ASSUME Types, NEW cs \in Seq(Command), Ahead + Len(cs) < Ring, Post(cs), next' = next,
         NEW a, NEW b, NEW c, NEW f,
         Run(text, Pending, Ahead, a, b, f), Run(text, Listed(cs), Len(cs), b, c, f)
  PROVE  Run(text, Pending', Ahead', a, c, f)
<1>1. /\ Ring \in Nat \ {0} /\ next \in 0 .. Ring - 1 /\ posted \in 0 .. Ring - 1
      /\ Len(cs) \in Nat /\ Ahead \in 0 .. Ring - 1 /\ Ahead \in Nat
  BY Sizes, AheadRange DEF Types
<1>2. Ahead' = Ahead + Len(cs)
  BY PostedIndex
<1>3. ASSUME NEW k \in 0 .. Ahead + Len(cs) - 1
      PROVE  Pending'[k] = IF k < Ahead THEN Pending[k] ELSE Listed(cs)[k - Ahead]
  <2> DEFINE slot == Onward(Ring, next, k)
             d == Distance(Ring, posted, slot)
  <2>1. k \in 0 .. Ring - 1
    BY <1>1
  <2>2. slot \in 0 .. Ring - 1 /\ d = IF k < Ahead THEN Ring - Ahead + k ELSE k - Ahead
    BY <1>1, <2>1, RingSlot DEF Ahead
  <2>3. Pending'[k] = ring'[slot]
    <3>1. Pending' = [j \in 0 .. Ahead' - 1 |-> ring'[Onward(Ring, next', j)]]
      BY DEF Pending, Onward, Ring
    <3>2. k \in 0 .. Ahead' - 1
      BY <1>1, <1>2
    <3> QED
      BY <3>1, <3>2
  <2>4. ring'[slot] = IF d < Len(cs) THEN cs[d + 1] ELSE ring[slot]
    BY <2>2 DEF Post, Distance
  <2> HIDE DEF d, slot
  <2>5. CASE k < Ahead
    <3>1. ~(d < Len(cs)) /\ k \in 0 .. Ahead - 1
      BY <1>1, <2>2, <2>5
    <3>2. Pending[k] = ring[slot]
      BY <3>1 DEF Pending, slot
    <3> QED
      BY <2>3, <2>4, <2>5, <3>1, <3>2
  <2>6. CASE ~(k < Ahead)
    <3>1. d < Len(cs) /\ d = k - Ahead /\ k - Ahead \in 0 .. Len(cs) - 1
      BY <1>1, <2>2, <2>6
    <3>2. Listed(cs)[k - Ahead] = cs[k - Ahead + 1]
      BY <3>1 DEF Listed
    <3> QED
      BY <1>1, <2>3, <2>4, <2>6, <3>1, <3>2
  <2> QED
    BY <1>1, <2>5, <2>6
<1>4. /\ \A k \in 0 .. Ahead - 1 : Pending'[k] = Pending[k]
      /\ \A k \in 0 .. Len(cs) - 1 : Pending'[Ahead + k] = Listed(cs)[k]
  <2>1. ASSUME NEW k \in 0 .. Ahead - 1 PROVE Pending'[k] = Pending[k]
    BY <1>1, <1>3
  <2>2. ASSUME NEW k \in 0 .. Len(cs) - 1 PROVE Pending'[Ahead + k] = Listed(cs)[k]
    <3>1. /\ Ahead + k \in 0 .. Ahead + Len(cs) - 1 /\ ~(Ahead + k < Ahead)
          /\ (Ahead + k) - Ahead = k
      BY <1>1
    <3> QED
      BY <3>1, <1>3
  <2> QED
    BY <2>1, <2>2
<1> QED
  BY <1>1, <1>2, <1>4, RunConcat

(* What is obeyed is the first of the pending.                              *)
LEMMA Obeyed ==
  ASSUME Types, next # posted, next' = Onward(Ring, next, 1), ring' = ring,
         posted' = posted, NEW a, NEW b, NEW f, Run(text, Pending, Ahead, a, b, f)
  PROVE  \E c \in Place :
           Follows(text, ring[next], a, c, f) /\ Run(text, Pending', Ahead', c, b, f)
<1>1. /\ Ring \in Nat \ {0} /\ next \in 0 .. Ring - 1 /\ posted \in 0 .. Ring - 1
      /\ Ahead \in 0 .. Ring - 1 /\ Ahead \in Nat \ {0}
  BY Sizes, AheadRange DEF Types
<1>2. /\ Ahead' = Ahead - 1
      /\ \A k \in 0 .. Ahead - 1 : Onward(Ring, next', k) = Onward(Ring, next, 1 + k)
  <2>1. 1 \in 0 .. Distance(Ring, next, posted)
    BY <1>1 DEF Ahead
  <2>2. /\ Distance(Ring, Onward(Ring, next, 1), posted) = Distance(Ring, next, posted) - 1
        /\ \A k \in 0 .. Distance(Ring, next, posted) - 1 :
             Onward(Ring, Onward(Ring, next, 1), k) = Onward(Ring, next, 1 + k)
    BY <1>1, <2>1, RingShorter
  <2>3. Ahead' = Distance(Ring, next', posted')
    BY DEF Ahead, Ring
  <2> QED
    BY <2>2, <2>3 DEF Ahead
<1>3. \A k \in 0 .. Ahead - 2 : Pending'[k] = Pending[1 + k]
  <2> SUFFICES ASSUME NEW k \in 0 .. Ahead - 2 PROVE Pending'[k] = Pending[1 + k]
    OBVIOUS
  <2>1. k \in 0 .. Ahead' - 1 /\ 1 + k \in 0 .. Ahead - 1 /\ k \in 0 .. Ahead - 1
    BY <1>1, <1>2
  <2>2. Pending' = [j \in 0 .. Ahead' - 1 |-> ring'[Onward(Ring, next', j)]]
    BY DEF Pending, Onward, Ring
  <2>3. Pending'[k] = ring'[Onward(Ring, next', k)]
        /\ Pending[1 + k] = ring[Onward(Ring, next, 1 + k)]
    BY <2>1, <2>2 DEF Pending
  <2> QED
    BY <2>1, <2>3, <1>2
<1>4. Pending[0] = ring[next]
  <2>1. 0 \in 0 .. Ahead - 1 /\ Onward(Ring, next, 0) = next
    BY <1>1, RingReach
  <2> QED
    BY <2>1 DEF Pending
<1>5. PICK c \in Place : /\ Follows(text, Pending[0], a, c, f)
                         /\ Run(text, Pending', Ahead - 1, c, b, f)
  BY <1>1, <1>3, RunFirst
<1> QED
  BY <1>2, <1>4, <1>5

LEMMA InRingRange ==
  ASSUME NEW f \in FinderType, NEW slot \in 0 .. FinderRing - 1
  PROVE  InRing(f, slot) \in 0 .. FinderRing - 1 /\ InRing(f, slot) \in Nat
<1>1. f.write \in 0 .. FinderRing - 1
  BY DEF FinderType
<1> QED
  BY <1>1, Sizes, RingRange DEF InRing

(* A finder's scan goes on: what is in its ring stays.                      *)
LEMMA FoundMore ==
  ASSUME NEW t, NEW f, NEW g, NEW slot, NEW a, NEW stop, g.data = f.data, g.write = f.write,
         Found(t, f, slot, a, stop),
         \A z \in Place : Scanned(t, f.queue, f.pos, f.copied, z, stop) =>
                          Scanned(t, g.queue, g.pos, g.copied, z, stop)
  PROVE  Found(t, g, slot, a, stop)
<1>1. InRing(g, slot) = InRing(f, slot) /\ Slots(g, slot) = Slots(f, slot)
  BY DEF InRing, Slots
<1> QED
  BY <1>1 DEF Found

LEMMA FoundPut ==
  ASSUME NEW t \in Texts, NEW f \in FinderType, NEW g, NEW slot \in 0 .. FinderRing - 1,
         NEW a, NEW stop, InRing(f, slot) + 1 < FinderRing, f.queue # <<>>,
         g.data = [f.data EXCEPT ![f.write] = Head(f.queue)],
         g.queue = Tail(f.queue), g.write = Onward(FinderRing, f.write, 1),
         g.pos = f.pos, g.copied = f.copied, Found(t, f, slot, a, stop)
  PROVE  Found(t, g, slot, a, stop) /\ InRing(g, slot) = InRing(f, slot) + 1
<1> DEFINE m == InRing(f, slot)
           cs == Slots(f, slot)
           es == Slots(g, slot)
           at(k) == Onward(FinderRing, slot, k)
<1>1. /\ FinderRing \in Nat \ {0} /\ f.write \in 0 .. FinderRing - 1
      /\ m \in 0 .. FinderRing - 1 /\ m \in Nat
      /\ f.data \in [0 .. FinderRing - 1 -> Command] /\ f.queue \in Seq(Command)
  BY Sizes, InRingRange DEF FinderType
<1>2. InRing(g, slot) = m + 1 /\ at(m) = f.write
  <2>1. Distance(FinderRing, slot, f.write) + 1 < FinderRing /\ 1 \in Nat
    BY DEF InRing
  <2>2. Distance(FinderRing, slot, Onward(FinderRing, f.write, 1))
          = Distance(FinderRing, slot, f.write) + 1
    BY <1>1, <2>1, RingLonger
  <2>3. Onward(FinderRing, slot, Distance(FinderRing, slot, f.write)) = f.write
    BY <1>1, RingReach
  <2> QED
    BY <2>2, <2>3 DEF InRing
<1>3. ASSUME NEW k \in 0 .. m - 1
      PROVE  at(k) \in 0 .. FinderRing - 1 /\ at(k) # f.write
  <2>1. k \in 0 .. FinderRing - 1 /\ k < Distance(FinderRing, slot, f.write)
    BY <1>1 DEF InRing
  <2>2. /\ at(k) \in 0 .. FinderRing - 1
        /\ Distance(FinderRing, f.write, at(k))
             = FinderRing - Distance(FinderRing, slot, f.write) + k
    BY <1>1, <2>1, RingSlot
  <2>3. FinderRing - Distance(FinderRing, slot, f.write) + k # 0
    BY <1>1 DEF InRing
  <2>4. Distance(FinderRing, f.write, f.write) = 0
    BY <1>1, RingSelf
  <2> QED
    BY <2>2, <2>3, <2>4
<1> HIDE DEF m, at
<1>4. \A k \in 0 .. m - 1 : es[k] = cs[k]
  <2> SUFFICES ASSUME NEW k \in 0 .. m - 1 PROVE es[k] = cs[k]
    OBVIOUS
  <2>1. k \in 0 .. InRing(g, slot) - 1
    BY <1>1, <1>2
  <2>2. es[k] = g.data[at(k)] /\ cs[k] = f.data[at(k)]
    BY <2>1 DEF Slots, m, at
  <2> QED
    BY <1>1, <1>3, <2>2
<1>5. es[m] = Head(f.queue)
  <2>1. m \in 0 .. InRing(g, slot) - 1
    BY <1>1, <1>2
  <2>2. es[m] = g.data[at(m)]
    BY <2>1 DEF Slots, at
  <2> QED
    BY <1>1, <1>2, <2>2
<1>6. PICK z \in Place : /\ Run(t, cs, m, a, z, stop)
                         /\ Scanned(t, f.queue, f.pos, f.copied, z, stop)
  BY DEF Found, m
<1>7. PICK y \in Place : /\ Follows(t, Head(f.queue), z, y, stop)
                         /\ Scanned(t, Tail(f.queue), f.pos, f.copied, y, stop)
  BY <1>1, <1>6, ScannedPost
<1> HIDE DEF cs, es
<1>8. Run(t, es, m + 1, a, y, stop)
  BY <1>1, <1>4, <1>5, <1>6, <1>7, RunAppend
<1> QED
  BY <1>2, <1>7, <1>8 DEF Found, es, m

LEMMA FoundTake ==
  ASSUME NEW t, NEW f \in FinderType, NEW slot \in 0 .. FinderRing - 1,
         NEW n \in 0 .. InRing(f, slot), NEW a, NEW stop, Found(t, f, slot, a, stop)
  PROVE  \E cs \in Seq(Command), c \in Place :
           /\ Len(cs) = n /\ \A k \in 1 .. n : cs[k] = f.data[Onward(FinderRing, slot, k - 1)]
           /\ Run(t, Listed(cs), n, a, c, stop)
           /\ Found(t, f, Onward(FinderRing, slot, n), c, stop)
<1> DEFINE m == InRing(f, slot)
           after == Onward(FinderRing, slot, n)
           at(k) == Onward(FinderRing, slot, k)
<1>0. PICK cs : cs = [k \in 1 .. n |-> f.data[at(k - 1)]]
  OBVIOUS
<1>1. /\ FinderRing \in Nat \ {0} /\ f.write \in 0 .. FinderRing - 1
      /\ m \in 0 .. FinderRing - 1 /\ m \in Nat
      /\ f.data \in [0 .. FinderRing - 1 -> Command]
  BY Sizes, InRingRange DEF FinderType
<1>2. n \in 0 .. m /\ n \in Nat /\ \A k \in 0 .. m - 1 : at(k) \in 0 .. FinderRing - 1
  <2>1. n \in 0 .. m /\ n \in Nat
    BY <1>1
  <2>2. \A k \in 0 .. m - 1 : k \in 0 .. FinderRing - 1
    BY <1>1
  <2> QED
    BY <1>1, <2>1, <2>2, RingSlot
<1>3. cs \in Seq(Command) /\ Len(cs) = n
  <2>1. ASSUME NEW k \in 1 .. n PROVE f.data[at(k - 1)] \in Command
    <3>1. k - 1 \in 0 .. m - 1
      BY <1>1
    <3> HIDE DEF at
    <3> QED
      BY <3>1, <1>1, <1>2
  <2>2. cs \in [1 .. n -> Command]
    BY <2>1, <1>0
  <2> QED
    BY <2>2, <1>2
<1>4. /\ after \in 0 .. FinderRing - 1 /\ InRing(f, after) = m - n
      /\ \A k \in 0 .. m - n : Onward(FinderRing, after, k) = at(n + k)
  <2>1. n \in 0 .. Distance(FinderRing, slot, f.write)
    BY DEF InRing
  <2> QED
    BY <1>1, <2>1, RingShorter DEF InRing
<1> HIDE DEF m, at
<1>5. \A k \in 0 .. m - n - 1 : Slots(f, after)[k] = Slots(f, slot)[n + k]
  <2> SUFFICES ASSUME NEW k \in 0 .. m - n - 1
               PROVE  Slots(f, after)[k] = Slots(f, slot)[n + k]
    OBVIOUS
  <2>1. n + k \in 0 .. m - 1 /\ k \in 0 .. InRing(f, after) - 1 /\ k \in 0 .. m - n
    BY <1>1, <1>2, <1>4
  <2>2. /\ Slots(f, after)[k] = f.data[Onward(FinderRing, after, k)]
        /\ Slots(f, slot)[n + k] = f.data[at(n + k)]
    BY <2>1 DEF Slots, m, at
  <2> QED
    BY <2>1, <2>2, <1>4
<1>6. \A k \in 0 .. n - 1 : Listed(cs)[k] = Slots(f, slot)[k]
  <2> SUFFICES ASSUME NEW k \in 0 .. n - 1 PROVE Listed(cs)[k] = Slots(f, slot)[k]
    OBVIOUS
  <2>1. k \in 0 .. m - 1 /\ k + 1 \in 1 .. n /\ (k + 1) - 1 = k
    BY <1>1, <1>2
  <2>2. Listed(cs)[k] = cs[k + 1] /\ cs[k + 1] = f.data[at((k + 1) - 1)]
    BY <1>0, <1>3, <2>1 DEF Listed
  <2>3. Slots(f, slot)[k] = f.data[at(k)]
    BY <2>1 DEF Slots, m, at
  <2> QED
    BY <2>1, <2>2, <2>3
<1>7. PICK z \in Place : /\ Run(t, Slots(f, slot), m, a, z, stop)
                         /\ Scanned(t, f.queue, f.pos, f.copied, z, stop)
  BY DEF Found, m
<1> HIDE DEF after
<1>8. PICK c \in Place : /\ Run(t, Slots(f, slot), n, a, c, stop)
                         /\ Run(t, Slots(f, after), m - n, c, z, stop)
  BY <1>1, <1>2, <1>5, <1>7, RunSplit
<1>9. Run(t, Listed(cs), n, a, c, stop)
  BY <1>2, <1>6, <1>8, RunSame
<1>10. Found(t, f, after, c, stop)
  BY <1>4, <1>7, <1>8 DEF Found
<1>11. \A k \in 1 .. n : cs[k] = f.data[Onward(FinderRing, slot, k - 1)]
  BY <1>0 DEF at
<1> QED
  BY <1>3, <1>9, <1>10, <1>11 DEF after

-------------------------------------------------------------------------------
(* Types.                                                                   *)
LEMMA SameText ==
  ASSUME text' = text
  PROVE  /\ L' = L /\ Split' = Split /\ Stop0' = Stop0 /\ Block' = Block
         /\ \A t : StartOf(t)' = StartOf(t) /\ StopOf(t)' = StopOf(t)
BY DEF L, Split, Stop0, Block, StartOf, StopOf

LEMMA CommandsType ==
  ASSUME NEW s \in DOMAIN Rules, NEW c \in Nat
  PROVE  /\ Skip(Len(Rules[s])) \in Command /\ Put(s) \in Command
         /\ Commands(c, s) \in Seq(Command) /\ Len(Rules[s]) \in Nat
<1>1. Len(Rules[s]) \in Nat
  <2>1. Rules[s] \in Seq(Values(Rules[s]))
    BY SubstituteAssumption
  <2> QED
    BY <2>1
<1>2. Skip(Len(Rules[s])) \in Command /\ Put(s) \in Command
  BY <1>1 DEF Skip, Put, Command
<1>3. c > 0 => Copy(c) \in Command
  BY DEF Copy, Command
<1> HIDE DEF Command
<1>4. Commands(c, s) \in Seq(Command)
  <2>1. CASE c > 0
    <3>1. Commands(c, s) = <<Copy(c)>> \o <<Skip(Len(Rules[s])), Put(s)>>
      BY <2>1 DEF Commands
    <3>2. <<Copy(c)>> \in Seq(Command) /\ <<Skip(Len(Rules[s])), Put(s)>> \in Seq(Command)
      BY <2>1, <1>2, <1>3
    <3> QED
      BY <3>1, <3>2, ConcatProperties
  <2>2. CASE ~(c > 0)
    <3>1. Commands(c, s) = <<Skip(Len(Rules[s])), Put(s)>>
      BY <2>2 DEF Commands
    <3> QED
      BY <3>1, <1>2
  <2> QED
    BY <2>1, <2>2
<1> QED
  BY <1>1, <1>2, <1>4

LEMMA TurnsType ==
  ASSUME NEW p \in Nat, NEW c \in Nat, NEW turn \in Turns(p, c)
  PROVE  turn.pos \in Nat /\ turn.copied \in Nat /\ turn.queue \in Seq(Command)
<1>1. CASE \E s \in RuleAt(buf, p) :
             turn = [pos |-> p + Len(Rules[s]), copied |-> 0, queue |-> Commands(c, s)]
  <2>1. PICK s \in DOMAIN Rules :
          turn = [pos |-> p + Len(Rules[s]), copied |-> 0, queue |-> Commands(c, s)]
    BY <1>1 DEF RuleAt
  <2>2. c \in Nat /\ 0 \in Nat
    BY Sizes
  <2> QED
    BY <2>1, <2>2, CommandsType
<1>2. CASE \/ turn = [pos |-> p + 1, copied |-> c + 1, queue |-> <<>>]
           \/ turn = [pos |-> p + 1, copied |-> 0, queue |-> <<Copy(c + 1)>>]
  <2>1. Copy(c + 1) \in Command
    BY Sizes DEF Copy, Command
  <2>2. /\ <<>> \in Seq(Command) /\ <<Copy(c + 1)>> \in Seq(Command) /\ p + 1 \in Nat
        /\ c + 1 \in Nat
        /\ 0 \in Nat
    BY <2>1, Sizes
  <2>3. CASE turn = [pos |-> p + 1, copied |-> c + 1, queue |-> <<>>]
    BY <2>2, <2>3
  <2>4. CASE turn = [pos |-> p + 1, copied |-> 0, queue |-> <<Copy(c + 1)>>]
    <3> DEFINE q == <<Copy(c + 1)>>
    <3> HIDE DEF q
    <3>1. turn = [pos |-> p + 1, copied |-> 0, queue |-> q] /\ q \in Seq(Command)
      BY <2>2, <2>4 DEF q
    <3> QED
      BY <2>2, <3>1
  <2> QED
    BY <1>2, <2>3, <2>4
<1>3. \/ \E s \in RuleAt(buf, p) :
           turn = [pos |-> p + Len(Rules[s]), copied |-> 0, queue |-> Commands(c, s)]
      \/ turn = [pos |-> p + 1, copied |-> c + 1, queue |-> <<>>]
      \/ turn = [pos |-> p + 1, copied |-> 0, queue |-> <<Copy(c + 1)>>]
  BY DEF Turns
<1> QED
  BY <1>1, <1>2, <1>3

LEMMA PostType ==
  ASSUME Types, NEW cs \in Seq(Command), Post(cs)
  PROVE  ring' \in [0 .. Ring - 1 -> Command] /\ posted' \in 0 .. Ring - 1
<1>1. Ring \in Nat \ {0} /\ posted \in 0 .. Ring - 1 /\ ring \in [0 .. Ring - 1 -> Command]
      /\ Len(cs) \in Nat
  BY Sizes DEF Types
<1>2. ASSUME NEW k \in 0 .. Ring - 1, (k - posted) % Ring < Len(cs)
      PROVE  cs[((k - posted) % Ring) + 1] \in Command
  <2>1. (k - posted) % Ring \in 0 .. Ring - 1
    BY <1>1
  <2>2. ((k - posted) % Ring) + 1 \in 1 .. Len(cs)
    BY <1>1, <1>2, <2>1
  <2> QED
    BY <2>2
<1>3. ring' \in [0 .. Ring - 1 -> Command]
  BY <1>1, <1>2 DEF Post
<1>4. (posted + Len(cs)) % Ring \in 0 .. Ring - 1
  BY <1>1
<1> QED
  BY <1>3, <1>4 DEF Post

LEMMA FinderTypes ==
  ASSUME Types, Finders, NEW t \in Finder, FinderStep(t)
  PROVE  finder' \in [Finder -> FinderType]
<1> DEFINE f == finder[t]
<1>1. /\ f \in FinderType /\ finder \in [Finder -> FinderType] /\ text \in Texts
      /\ FinderRing \in Nat \ {0} /\ CopyMax \in Nat \ {0}
  BY Sizes DEF Types
<1>2. \A g \in FinderType : Become(t, g) => finder' \in [Finder -> FinderType]
  BY <1>1 DEF Become
<1>3. CASE StartFinder(t)
  <2>0. f.start \in Nat /\ <<>> \in Seq(Command) /\ 0 \in Nat
        /\ 0 \in 0 .. FinderRing - 1 /\ 0 \in Nat
    BY <1>1 DEF FinderType
  <2>1. [f EXCEPT !.pc = "ready", !.extra = 0, !.write = 0, !.pos = f.start, !.copied = 0,
                  !.queue = <<>>] \in FinderType
    BY <1>1, <2>0 DEF FinderType
  <2> QED
    BY <1>2, <1>3, <2>1 DEF StartFinder
<1>4. CASE BeginScan(t)
  <2>1. [f EXCEPT !.pc = "scan"] \in FinderType
    BY <1>1 DEF FinderType
  <2> QED
    BY <1>2, <1>4, <2>1 DEF BeginScan
<1>5. CASE FindNext(t)
  <2>1. PICK turn \in Turns(f.pos, f.copied) :
          Become(t, [f EXCEPT !.pos = turn.pos, !.copied = turn.copied, !.queue = turn.queue])
    BY <1>5 DEF FindNext
  <2>2. turn.pos \in Nat /\ turn.copied \in Nat /\ turn.queue \in Seq(Command)
    <3>1. f.pos \in Nat /\ f.copied \in Nat
      BY <1>1 DEF FinderType
    <3> QED
      BY <3>1, TurnsType
  <2>3. [f EXCEPT !.pos = turn.pos, !.copied = turn.copied, !.queue = turn.queue] \in FinderType
    BY <1>1, <2>2 DEF FinderType
  <2> QED
    BY <1>2, <2>1, <2>3
<1>6. CASE PutCommand(t)
  <2>1. f.queue # <<>> /\ f.queue \in Seq(Command) /\ f.write \in 0 .. FinderRing - 1
        /\ f.data \in [0 .. FinderRing - 1 -> Command]
    BY <1>1, <1>6 DEF PutCommand, FinderType
  <2>2. Head(f.queue) \in Command /\ Tail(f.queue) \in Seq(Command)
    BY <2>1, HeadTailProperties
  <2>3. /\ (f.write + 1) % FinderRing \in 0 .. FinderRing - 1
        /\ [f.data EXCEPT ![f.write] = Head(f.queue)] \in [0 .. FinderRing - 1 -> Command]
    BY <1>1, <2>1, <2>2
  <2>4. [f EXCEPT !.data = [f.data EXCEPT ![f.write] = Head(f.queue)],
                  !.queue = Tail(f.queue), !.write = (f.write + 1) % FinderRing] \in FinderType
    BY <1>1, <2>2, <2>3 DEF FinderType
  <2>5. Become(t, [f EXCEPT !.data = [f.data EXCEPT ![f.write] = Head(f.queue)],
                            !.queue = Tail(f.queue), !.write = (f.write + 1) % FinderRing])
    BY <1>6 DEF PutCommand
  <2> QED
    BY <1>2, <2>4, <2>5
<1>7. CASE LastCopy(t)
  <2>1. Copy(f.copied) \in Command
    BY <1>1, <1>7 DEF LastCopy, Copy, Command, FinderType
  <2>2. [f EXCEPT !.queue = <<Copy(f.copied)>>, !.copied = 0] \in FinderType
    <3>1. <<Copy(f.copied)>> \in Seq(Command) /\ 0 \in Nat
      BY <2>1, <1>1
    <3> QED
      BY <1>1, <3>1 DEF FinderType
  <2> QED
    BY <1>2, <1>7, <2>2 DEF LastCopy
<1>8. CASE EndFinder(t)
  <2>1. f.pc = "scan" /\ f.pos >= StopOf(t) /\ f.pos \in Nat
    BY <1>1, <1>8 DEF EndFinder, FinderType
  <2>2. StopOf(t) \in Nat
    <3>1. Split
      BY <2>1 DEF Finders, Shared
    <3> QED
      BY <3>1, <1>1, Regions
  <2>3. f.pos - StopOf(t) \in Nat
    BY <2>1, <2>2
  <2>4. [f EXCEPT !.pc = "ended", !.done = TRUE, !.extra = f.pos - StopOf(t)] \in FinderType
    BY <1>1, <2>3 DEF FinderType
  <2> QED
    BY <1>2, <1>8, <2>4 DEF EndFinder
<1> QED
  BY <1>3, <1>4, <1>5, <1>6, <1>7, <1>8 DEF FinderStep

LEMMA NextSlot ==
  ASSUME NEW n \in Nat \ {0}, NEW x \in Nat
  PROVE  x % n \in 0 .. n - 1
OBVIOUS

LEMMA SubstituteTypesKept ==
  ASSUME Types, SubstituteStep
  PROVE  Types'
<1>1. /\ Ring \in Nat \ {0} /\ next \in 0 .. Ring - 1 /\ 0 \in 0 .. Ring - 1
      /\ (next + 1) % Ring \in 0 .. Ring - 1 /\ old \in Nat /\ out \in Nat
      /\ ring[next] \in Command
  <2>1. Ring \in Nat \ {0} /\ next \in 0 .. Ring - 1 /\ 0 \in 0 .. Ring - 1
        /\ next + 1 \in Nat /\ old \in Nat /\ out \in Nat /\ ring \in [0 .. Ring - 1 -> Command]
    BY Sizes DEF Types
  <2> QED
    BY <2>1, NextSlot
<1>2. ring[next].do \in {"copy", "skip"} => ring[next].n \in Nat
  BY <1>1 DEF Command, EndOfText
<1>3. SUFFICES ASSUME UNCHANGED <<text, finder, ring, mainVars>>
               PROVE  /\ spc' \in {"none", "created", "look", "obey", "put", "half", "ended"}
                      /\ read' \in 0 .. Ring - 1 /\ next' \in 0 .. Ring - 1
                      /\ seen' \in 0 .. Ring - 1 /\ old' \in Nat /\ out' \in Nat
  BY DEF SubstituteStep, Types, mainVars, Ring
<1>4. /\ spc \in {"none", "created", "look", "obey", "put", "half", "ended"}
      /\ read \in 0 .. Ring - 1 /\ seen \in 0 .. Ring - 1 /\ wrote \in 0 .. Ring - 1
  BY DEF Types
<1>5. CASE StartSubstitute
  BY <1>1, <1>5 DEF StartSubstitute
<1>6. CASE Look
  BY <1>1, <1>4, <1>6 DEF Look
<1>7. CASE CopySymbols
  <2>1. /\ ring[next].do = "copy" /\ out' = out + ring[next].n
        /\ old' = old + ring[next].n /\ next' = (next + 1) % Ring
        /\ UNCHANGED <<read, spc, seen>>
    BY <1>7 DEF CopySymbols
  <2> QED
    BY <1>1, <1>2, <1>4, <2>1
<1>8. CASE SkipSymbols
  <2>1. old' \in Nat /\ out' = out /\ seen' = seen /\ next' = (next + 1) % Ring
        /\ spc' \in {"half", "put"} /\ read' \in {next', read}
    BY <1>1, <1>2, <1>8 DEF SkipSymbols
  <2> QED
    BY <1>1, <1>4, <2>1
<1>9. CASE AwaitSymbol
  BY <1>1, <1>4, <1>9 DEF AwaitSymbol
<1>10. CASE PutSymbol
  BY <1>1, <1>4, <1>10 DEF PutSymbol
<1>11. CASE ReleaseBatch
  BY <1>1, <1>4, <1>11 DEF ReleaseBatch
<1>12. CASE EndSubstitute
  BY <1>1, <1>4, <1>12 DEF EndSubstitute
<1> QED
  BY <1>5, <1>6, <1>7, <1>8, <1>9, <1>10, <1>11, <1>12 DEF SubstituteStep

LEMMA MainTypesKept ==
  ASSUME Types, Indices, Main, Finders, MainStep
  PROVE  Types'
<1> DEFINE substitute == <<read, spc, next, seen, old, out, buf>>
<1>1. /\ text \in Texts /\ finder \in [Finder -> FinderType]
      /\ mpc \in {"create", "await", "scan", "head", "drain", "merge", "take", "finish",
                  "join", "end"}
      /\ spc \in {"none", "created", "look", "obey", "put", "half", "ended"}
      /\ pos \in Nat /\ copied \in Nat /\ queue \in Seq(Command)
      /\ extra \in Nat /\ cur \in Finder /\ finder[cur] \in FinderType
      /\ taken \in 0 .. FinderRing - 1 /\ upTo \in 0 .. FinderRing - 1
      /\ ring \in [0 .. Ring - 1 -> Command]
      /\ posted \in 0 .. Ring - 1 /\ wrote \in 0 .. Ring - 1 /\ read \in 0 .. Ring - 1
      /\ next \in 0 .. Ring - 1 /\ seen \in 0 .. Ring - 1 /\ old \in Nat /\ out \in Nat
  BY DEF Types
<1>2. FinderRing \in Nat \ {0} /\ FinderRing > 1 /\ 0 \in 0 .. FinderRing - 1
      /\ CopyMax \in Nat \ {0} /\ Ring \in Nat \ {0} /\ L \in Nat /\ Stop0 \in Nat
      /\ Threads \in Nat \ {0}
  BY <1>1, Sizes, TextLength
<1>3. \A g \in FinderType : Become(cur, g) => finder' \in [Finder -> FinderType]
  BY <1>1 DEF Become
<1>4. \A cs \in Seq(Command) : Post(cs) =>
        ring' \in [0 .. Ring - 1 -> Command] /\ posted' \in 0 .. Ring - 1
  BY PostType
<1>5. SUFFICES
        ASSUME text' = text
        PROVE  /\ finder' \in [Finder -> FinderType]
               /\ mpc' \in {"create", "await", "scan", "head", "drain", "merge", "take",
                            "finish", "join", "end"}
               /\ spc' \in {"none", "created", "look", "obey", "put", "half", "ended"}
               /\ pos' \in Nat /\ copied' \in Nat /\ queue' \in Seq(Command)
               /\ extra' \in Nat /\ cur' \in Finder
               /\ taken' \in 0 .. FinderRing - 1 /\ upTo' \in 0 .. FinderRing - 1
               /\ ring' \in [0 .. Ring - 1 -> Command]
               /\ posted' \in 0 .. Ring - 1 /\ wrote' \in 0 .. Ring - 1
               /\ read' \in 0 .. Ring - 1 /\ next' \in 0 .. Ring - 1
               /\ seen' \in 0 .. Ring - 1 /\ old' \in Nat /\ out' \in Nat
  BY <1>1 DEF MainStep, Types, Ring
<1>6. CASE CreateThreads
  <2>1. \A t \in Finder : [finder[t] EXCEPT !.pc = "created"] \in FinderType
    BY <1>1 DEF FinderType
  <2>2. finder' \in [Finder -> FinderType]
    BY <1>1, <1>6, <2>1 DEF CreateThreads
  <2> QED
    BY <1>1, <1>6, <2>2 DEF CreateThreads
<1>7. CASE AwaitSubstitute
  BY <1>1, <1>7 DEF AwaitSubstitute, substVars
<1>8. CASE ScanOwn
  <2>1. PICK turn \in Turns(pos, copied) :
          pos' = turn.pos /\ copied' = turn.copied /\ queue' = turn.queue
    BY <1>8 DEF ScanOwn
  <2>2. turn.pos \in Nat /\ turn.copied \in Nat /\ turn.queue \in Seq(Command)
    BY <1>1, TurnsType
  <2> QED
    BY <1>1, <1>8, <2>1, <2>2 DEF ScanOwn, substVars
<1>9. CASE PostCopy
  <2>1. Head(queue) \in Command /\ Tail(queue) \in Seq(Command)
    BY <1>1, <1>9, HeadTailProperties DEF PostCopy
  <2>2. <<Head(queue)>> \in Seq(Command) /\ Post(<<Head(queue)>>)
    BY <1>9, <2>1 DEF PostCopy
  <2>3. ring' \in [0 .. Ring - 1 -> Command] /\ posted' \in 0 .. Ring - 1
    BY <2>2, <1>4
  <2> QED
    BY <1>1, <1>9, <2>1, <2>3 DEF PostCopy, substVars
<1>10. CASE PostPair
  <2>1. ring' \in [0 .. Ring - 1 -> Command] /\ posted' \in 0 .. Ring - 1
    BY <1>1, <1>4, <1>10 DEF PostPair
  <2> QED
    BY <1>1, <1>10, <2>1 DEF PostPair, substVars
<1>11. CASE EndScan
  <2>1. ring' \in [0 .. Ring - 1 -> Command] /\ posted' \in 0 .. Ring - 1
    <3>1. CASE copied > 0
      <4>1. Copy(copied) \in Command
        BY <1>1, <3>1 DEF Copy, Command
      <4>2. <<Copy(copied)>> \in Seq(Command) /\ Post(<<Copy(copied)>>)
        BY <1>11, <3>1, <4>1 DEF EndScan
      <4> QED
        BY <4>2, <1>4
    <3>2. CASE ~(copied > 0)
      BY <1>1, <1>11, <3>2 DEF EndScan
    <3> QED
      BY <3>1, <3>2
  <2>2. extra' \in Nat
    BY <1>1, <1>2, <1>11 DEF EndScan
  <2> QED
    BY <1>1, <1>11, <2>1, <2>2 DEF EndScan, substVars
<1>12. CASE HeadAligned
  BY <1>1, <1>12 DEF HeadAligned, substVars
<1>13. CASE TrimFirst
  <2> DEFINE c == f0.data[0]
             d == [c EXCEPT !.n = c.n - extra]
  <2>1. c \in Command /\ c.do = "copy" /\ f0.data \in [0 .. FinderRing - 1 -> Command]
    BY <1>1, <1>2, <1>13 DEF TrimFirst, HeadCopies, f0, FinderType
  <2>2. c.n > extra => d \in Command
    <3>1. c \in [do : {"copy"}, n : Nat \ {0}]
      BY <2>1 DEF Command, EndOfText
    <3>2. c.n > extra => c.n - extra \in Nat \ {0}
      <4>1. c.n \in Nat /\ extra \in Nat
        BY <3>1, <1>1
      <4> HIDE DEF c
      <4>2. PICK k : k = c.n
        OBVIOUS
      <4>3. k \in Nat
        BY <4>1, <4>2
      <4>4. k > extra => k - extra \in Nat \ {0}
        BY <4>1, <4>3, Excess
      <4> QED
        BY <4>2, <4>4
    <3> HIDE DEF c
    <3>3. c.n > extra => d \in [do : {"copy"}, n : Nat \ {0}]
      BY <3>1, <3>2
    <3> QED
      BY <3>3 DEF Command
  <2>3. c.n > extra => finder' \in [Finder -> FinderType]
    <3> SUFFICES ASSUME c.n > extra PROVE finder' \in [Finder -> FinderType]
      OBVIOUS
    <3>1. Become(cur, [f0 EXCEPT !.data = [f0.data EXCEPT ![0] = d]])
      BY <1>13 DEF TrimFirst
    <3> HIDE DEF d, c
    <3>2. [f0.data EXCEPT ![0] = d] \in [0 .. FinderRing - 1 -> Command]
      BY <2>1, <2>2, <1>2
    <3>3. [f0 EXCEPT !.data = [f0.data EXCEPT ![0] = d]] \in FinderType
      BY <1>1, <3>2 DEF f0, FinderType
    <3> QED
      BY <1>3, <3>1, <3>3
  <2>4. finder' \in [Finder -> FinderType] /\ taken' \in 0 .. FinderRing - 1
    <3>1. CASE c.n > extra
      BY <1>1, <1>13, <2>3, <3>1 DEF TrimFirst
    <3>2. CASE ~(c.n > extra)
      <4>1. taken' = 1 /\ finder' = finder
        BY <1>13, <3>2 DEF TrimFirst
      <4> QED
        BY <4>1, <1>1, <1>2
    <3> QED
      BY <3>1, <3>2
  <2> QED
    BY <1>1, <1>13, <2>4 DEF TrimFirst, substVars
<1>14. CASE Discard
  BY <1>1, <1>14 DEF Discard, substVars
<1>15. CASE Drain
  <2>1. [f0 EXCEPT !.read = f0.write] \in FinderType
    BY <1>1 DEF f0, FinderType
  <2> QED
    BY <1>1, <1>3, <1>15, <2>1 DEF Drain, mainVars, substVars
<1>16. CASE Rerun
  <2>1. f0.start + extra \in Nat
    <3>1. PICK h \in FinderType : h = f0
      BY <1>1 DEF f0
    <3>2. h.start \in Nat
      BY DEF FinderType
    <3>3. extra \in Nat
      BY <1>1
    <3> QED
      BY <3>1, <3>2, <3>3
  <2>2. [f0 EXCEPT !.pc = "created", !.start = f0.start + extra, !.done = FALSE,
                   !.write = 0] \in FinderType
    BY <1>1, <1>2, <2>1 DEF f0, FinderType
  <2>3. finder' \in [Finder -> FinderType]
    BY <1>3, <1>16, <2>2 DEF Rerun
  <2> QED
    BY <1>1, <1>2, <1>16, <2>3 DEF Rerun, substVars
<1>17. CASE LookAtFinder
  <2>1. f0.write \in 0 .. FinderRing - 1
    BY <1>1 DEF f0, FinderType
  <2> QED
    BY <1>1, <1>17, <2>1 DEF LookAtFinder, substVars
<1>18. ASSUME NEW n \in Nat, Take(n)
       PROVE  /\ ring' \in [0 .. Ring - 1 -> Command] /\ posted' \in 0 .. Ring - 1
              /\ taken' \in 0 .. FinderRing - 1
  <2> DEFINE cs == [k \in 1 .. n |-> f0.data[(taken + k - 1) % FinderRing]]
  <2>1. f0.data \in [0 .. FinderRing - 1 -> Command]
    BY <1>1 DEF f0, FinderType
  <2>2. ASSUME NEW k \in 1 .. n PROVE f0.data[(taken + k - 1) % FinderRing] \in Command
    <3>1. taken + k - 1 \in Nat
      BY <1>1
    <3> QED
      BY <3>1, <2>1, <1>2, NextSlot
  <2>3. cs \in Seq(Command)
    BY <2>2
  <2>4. Post(cs) /\ taken' = (taken + n) % FinderRing
    BY <1>18 DEF Take
  <2>5. taken + n \in Nat
    BY <1>1
  <2> QED
    BY <1>2, <1>4, <2>3, <2>4, <2>5, NextSlot
<1>19. CASE TakeBatch \/ TakeOne
  <2>1. PICK n \in Nat : Take(n)
    BY <1>19, Sizes DEF TakeBatch, TakeOne
  <2>2. /\ ring' \in [0 .. Ring - 1 -> Command] /\ posted' \in 0 .. Ring - 1
        /\ taken' \in 0 .. FinderRing - 1
    BY <2>1, <1>18
  <2> QED
    BY <1>1, <2>1, <2>2 DEF Take, substVars
<1>20. CASE ReleaseFinder
  <2>1. [f0 EXCEPT !.read = taken] \in FinderType
    BY <1>1 DEF f0, FinderType
  <2> QED
    BY <1>1, <1>3, <1>20, <2>1 DEF ReleaseFinder, substVars
<1>21. CASE JoinFinder
  <2>1. f0.extra \in Nat
    BY <1>1 DEF f0, FinderType
  <2>2. cur' \in Finder
    BY <1>1, <1>2, <1>21 DEF JoinFinder, Finder
  <2> QED
    BY <1>1, <1>2, <1>21, <2>1, <2>2 DEF JoinFinder, substVars
<1>22. CASE PostEnd
  <2>1. <<EndOfText>> \in Seq(Command)
    BY DEF Command
  <2>2. ring' \in [0 .. Ring - 1 -> Command] /\ posted' \in 0 .. Ring - 1
    BY <1>4, <1>22, <2>1 DEF PostEnd
  <2> QED
    BY <1>1, <1>22, <2>2 DEF PostEnd, substVars
<1>23. CASE JoinSubstitute
  BY <1>1, <1>23 DEF JoinSubstitute, substVars
<1> QED
  BY <1>6, <1>7, <1>8, <1>9, <1>10, <1>11, <1>12, <1>13, <1>14, <1>15, <1>16, <1>17,
     <1>19, <1>20, <1>21, <1>22, <1>23 DEF MainStep

-------------------------------------------------------------------------------
(* Indices.                                                                 *)
LEMMA Triple ==
  ASSUME NEW S, NEW x \in S, NEW y \in S, NEW z \in S
  PROVE  <<x>> \o <<y, z>> = <<x, y, z>>
<1>1. <<x>> \in Seq(S) /\ <<y, z>> \in Seq(S) /\ <<x, y, z>> \in Seq(S)
      /\ Len(<<x>>) = 1 /\ Len(<<y, z>>) = 2 /\ Len(<<x, y, z>>) = 3
  OBVIOUS
<1> DEFINE w == <<x>> \o <<y, z>>
<1>2. /\ w \in Seq(S) /\ Len(w) = Len(<<x>>) + Len(<<y, z>>)
      /\ \A i \in 1 .. Len(<<x>>) + Len(<<y, z>>) :
           w[i] = IF i <= Len(<<x>>) THEN <<x>>[i] ELSE <<y, z>>[i - Len(<<x>>)]
  BY <1>1, ConcatProperties
<1> HIDE DEF w
<1>3. Len(w) = 3 /\ w[1] = x /\ w[2] = y /\ w[3] = z
  BY <1>1, <1>2
<1>4. \A i \in 1 .. Len(w) : w[i] = <<x, y, z>>[i]
  BY <1>3
<1>5. w = <<x, y, z>>
  BY <1>1, <1>2, <1>3, <1>4, SeqEqual
<1> QED
  BY <1>5 DEF w

LEMMA CommandsShape ==
  ASSUME NEW c \in Nat, NEW s \in DOMAIN Rules
  PROVE  /\ Commands(c, s) # <<>>
         /\ c > 0 => Head(Commands(c, s)) = Copy(c) /\ Tail(Commands(c, s)) = Commands(0, s)
         /\ c = 0 => /\ Commands(c, s) = <<Skip(Len(Rules[s])), Put(s)>>
                     /\ Head(Commands(c, s)).do = "skip" /\ Len(Commands(c, s)) = 2
<1> DEFINE x == Skip(Len(Rules[s]))
           y == Put(s)
<1>1. x \in Command /\ y \in Command /\ x.do = "skip"
  BY CommandsType DEF Skip
<1>2. Commands(0, s) = <<x, y>>
  BY DEF Commands
<1>3. CASE c > 0
  <2>1. Copy(c) \in Command
    BY <1>3 DEF Copy, Command
  <2>2. Commands(c, s) = <<Copy(c)>> \o <<x, y>>
    BY <1>3 DEF Commands
  <2> HIDE DEF x, y
  <2>3. <<Copy(c)>> \o <<x, y>> = <<Copy(c), x, y>>
    BY <1>1, <2>1, Triple
  <2>4. Tail(<<Copy(c), x, y>>) = <<x, y>> /\ Head(<<Copy(c), x, y>>) = Copy(c)
        /\ <<Copy(c), x, y>> # <<>>
    OBVIOUS
  <2> QED
    BY <1>2, <1>3, <2>2, <2>3, <2>4
<1>4. CASE c = 0
  <2> HIDE DEF x, y
  <2>1. Head(<<x, y>>) = x /\ Len(<<x, y>>) = 2 /\ <<x, y>> # <<>>
    OBVIOUS
  <2> QED
    BY <1>1, <1>2, <1>4, <2>1 DEF x, y
<1> QED
  BY <1>3, <1>4

LEMMA QueueShape ==
  ASSUME Main, queue # <<>>
  PROVE  \/ Head(queue).do = "skip" /\ Len(queue) = 2
         \/ /\ Head(queue).do = "copy"
            /\ Tail(queue) = <<>> \/ \E s \in DOMAIN Rules : Tail(queue) = Commands(0, s)
<1>1. \A c : Copy(c).do = "copy"
  BY DEF Copy
<1>2. CASE \E c \in Nat \ {0} : queue = <<Copy(c)>>
  <2>1. PICK c \in Nat \ {0} : queue = <<Copy(c)>>
    BY <1>2
  <2>2. Head(queue) = Copy(c) /\ Tail(queue) = <<>>
    BY <2>1
  <2> QED
    BY <1>1, <2>2
<1>3. CASE \E c \in Nat, s \in DOMAIN Rules : queue = Commands(c, s)
  <2>1. PICK c \in Nat, s \in DOMAIN Rules : queue = Commands(c, s)
    BY <1>3
  <2>2. CASE c = 0
    BY <2>1, <2>2, CommandsShape
  <2>3. CASE c > 0
    BY <1>1, <2>1, <2>3, CommandsShape
  <2> QED
    BY <2>2, <2>3
<1> QED
  BY <1>2, <1>3 DEF Main

(* There is room for n commands where they begin or end a half of the ring. *)
Room(n) == n \in 1 .. Half /\ ((posted + n - 1) % Half < n => Since(posted) <= Half - n)

(* What each post waits for.                                                *)
LEMMA RoomGuards ==
  ASSUME Types
  PROVE  /\ RoomForOne => Room(1)
         /\ RoomForPair => Room(2)
         /\ RoomForBatch => Room(Batch)
         /\ PostEnd => Room(1)
<1>1. /\ Half \in Nat \ {0} /\ Half > 1 /\ Batch \in 1 .. Half /\ posted \in 0 .. Ring - 1
      /\ posted \in Nat /\ Unread = Since(posted) /\ Since(posted) \in 0 .. Ring - 1
  <2>1. posted \in 0 .. Ring - 1 /\ read \in 0 .. Ring - 1
    BY DEF Types
  <2>2. Half \in Nat \ {0} /\ Half > 1 /\ Batch \in 1 .. Half /\ Ring \in Nat \ {0}
    BY Sizes
  <2>3. Unread = Since(posted)
    BY DEF Unread, Since, Distance
  <2> QED
    BY <2>1, <2>2, <2>3, RingRange DEF Since
<1>2. posted + 1 - 1 = posted /\ 1 \in 1 .. Half /\ posted % Half \in 0 .. Half - 1
  <2>1. posted \in Nat /\ Half \in Nat \ {0}
    BY <1>1
  <2> QED
    BY ONLY <2>1
<1>3. RoomForOne => Room(1)
  BY <1>1, <1>2 DEF RoomForOne, Room
<1>4. RoomForPair => Room(2)
  <2>1. posted + 2 - 1 = posted + 1 /\ 2 \in 1 .. Half
    BY <1>1
  <2> QED
    BY <1>1, <2>1 DEF RoomForPair, Room
<1>5. RoomForBatch => Room(Batch)
  BY <1>1 DEF RoomForBatch, Room
<1>6. ASSUME PostEnd PROVE RoomForOne
  <2>1. posted = read => Since(posted) = 0
    BY Sizes, RingSelf DEF Since, Types
  <2> QED
    BY <1>1, <1>6, <2>1 DEF PostEnd, RoomForOne
<1> QED
  BY <1>3, <1>4, <1>5, <1>6

(* What posts, posts where there is room.                                   *)
LEMMA PostActions ==
  ASSUME Types, Main,
         PostCopy \/ PostPair \/ (EndScan /\ copied > 0) \/ TakeBatch \/ TakeOne \/ PostEnd
  PROVE  /\ mpc \notin {"create", "await", "end"} /\ mpc' \notin {"create", "await", "end"}
         /\ UNCHANGED substVars
         /\ \E cs \in Seq(Command) : Room(Len(cs)) /\ Post(cs)
         /\ wrote' \in {wrote, posted'}
<1>1. /\ Batch \in 1 .. Half /\ FinderRing \in Nat \ {0} /\ queue \in Seq(Command)
      /\ copied \in Nat
  <2>1. queue \in Seq(Command) /\ copied \in Nat
    BY DEF Types
  <2> QED
    BY <2>1, Sizes
<1>2. (RoomForOne => Room(1)) /\ (PostEnd => Room(1))
  BY RoomGuards
<1>3. RoomForPair => Room(2)
  BY RoomGuards
<1>4. RoomForBatch => Room(Batch)
  BY RoomGuards
<1>5. CASE PostCopy
  <2>1. <<Head(queue)>> \in Seq(Command) /\ Len(<<Head(queue)>>) = 1
    BY <1>1, <1>5, HeadTailProperties DEF PostCopy
  <2>2. wrote' \in {wrote, posted'}
    BY <1>5 DEF PostCopy
  <2> QED
    BY <1>2, <1>5, <2>1, <2>2 DEF PostCopy
<1>6. CASE PostPair
  <2>1. Len(queue) = 2
    BY <1>6, QueueShape DEF PostPair
  <2> QED
    BY <1>1, <1>3, <1>6, <2>1 DEF PostPair
<1>7. CASE EndScan /\ copied > 0
  <2>1. <<Copy(copied)>> \in Seq(Command) /\ Len(<<Copy(copied)>>) = 1
    <3>1. Copy(copied) \in Command
      BY <1>1, <1>7 DEF Copy, Command
    <3> QED
      BY <3>1
  <2> QED
    BY <1>2, <1>7, <2>1 DEF EndScan
<1>8. ASSUME NEW n \in Nat, Take(n)
      PROVE  \E cs \in Seq(Command) : Len(cs) = n /\ Post(cs)
  <2> DEFINE cs == [k \in 1 .. n |-> f0.data[(taken + k - 1) % FinderRing]]
  <2>1. f0.data \in [0 .. FinderRing - 1 -> Command] /\ taken \in 0 .. FinderRing - 1
    BY DEF Types, f0, FinderType
  <2>2. ASSUME NEW k \in 1 .. n PROVE f0.data[(taken + k - 1) % FinderRing] \in Command
    <3>1. taken + k - 1 \in Nat
      BY <1>1, <2>1
    <3> QED
      BY <3>1, <2>1, <1>1, NextSlot
  <2>3. cs \in [1 .. n -> Command]
    BY <2>2
  <2>4. cs \in Seq(Command) /\ Len(cs) = n
    BY <2>3
  <2>5. Post(cs)
    BY <1>8 DEF Take
  <2> QED
    BY <2>4, <2>5
<1>9. CASE TakeBatch
  <2>1. Take(Batch) /\ Batch \in Nat
    BY <1>1, <1>9 DEF TakeBatch
  <2>2. PICK cs \in Seq(Command) : Len(cs) = Batch /\ Post(cs)
    BY <1>8, <2>1
  <2> QED
    BY <1>4, <1>9, <2>2 DEF TakeBatch, Take
<1>10. CASE TakeOne
  <2>1. Take(1)
    BY <1>10 DEF TakeOne
  <2>2. PICK cs \in Seq(Command) : Len(cs) = 1 /\ Post(cs)
    BY <1>8, <2>1
  <2> QED
    BY <1>2, <1>10, <2>2 DEF TakeOne, Take
<1>11. CASE PostEnd
  <2>1. <<EndOfText>> \in Seq(Command) /\ Len(<<EndOfText>>) = 1
    BY DEF Command
  <2> QED
    BY <1>2, <1>11, <2>1 DEF PostEnd
<1> QED
  BY <1>5, <1>6, <1>7, <1>9, <1>10, <1>11

LEMMA SinceRange ==
  ASSUME Types
  PROVE  /\ Ring \in Nat \ {0} /\ posted \in 0 .. Ring - 1 /\ wrote \in 0 .. Ring - 1
         /\ read \in 0 .. Ring - 1 /\ next \in 0 .. Ring - 1 /\ seen \in 0 .. Ring - 1
         /\ \A x \in 0 .. Ring - 1 : Since(x) \in 0 .. Ring - 1
         /\ \A x, y \in 0 .. Ring - 1 : Since(x) = Since(y) <=> x = y
<1>1. /\ Ring \in Nat \ {0} /\ posted \in 0 .. Ring - 1 /\ wrote \in 0 .. Ring - 1
      /\ read \in 0 .. Ring - 1 /\ next \in 0 .. Ring - 1 /\ seen \in 0 .. Ring - 1
  BY Sizes DEF Types
<1>2. \A x \in 0 .. Ring - 1 : Since(x) \in 0 .. Ring - 1
  BY <1>1, RingRange DEF Since
<1>3. \A x, y \in 0 .. Ring - 1 : Since(x) = Since(y) => x = y
  BY <1>1, RingReach DEF Since
<1> QED
  BY <1>1, <1>2, <1>3

(* What is ahead of the thread that obeys is not more than what it has not  *)
(* released.                                                                *)
LEMMA AheadSince ==
  ASSUME Types, Indices
  PROVE  Ahead = Since(posted) - Since(next) /\ Since(next) <= Since(posted)
<1>1. /\ Ring \in Nat \ {0} /\ posted \in 0 .. Ring - 1 /\ wrote \in 0 .. Ring - 1
      /\ read \in 0 .. Ring - 1 /\ next \in 0 .. Ring - 1 /\ seen \in 0 .. Ring - 1
      /\ \A x \in 0 .. Ring - 1 : Since(x) \in 0 .. Ring - 1
  BY SinceRange
<1>2. Since(next) <= Since(posted)
  <2>1. CASE mpc \in {"create", "await"}
    BY <1>1, <2>1 DEF Indices
  <2>2. CASE mpc \notin {"create", "await"}
    BY <1>1, <2>2 DEF Indices
  <2> QED
    BY <2>1, <2>2
<1>3. Distance(Ring, next, posted) = Distance(Ring, read, posted) - Distance(Ring, read, next)
  BY <1>1, <1>2, RingBetween DEF Since
<1> QED
  BY <1>2, <1>3 DEF Ahead, Since

(* A post takes no more room than there is.                                 *)
LEMMA PostRoom ==
  ASSUME Types, Indices, mpc \notin {"create", "await"}, UNCHANGED substVars,
         NEW cs \in Seq(Command), Room(Len(cs)), Post(cs)
  PROVE  /\ Ahead + Len(cs) < Ring /\ Len(cs) \in Nat \ {0}
         /\ posted' # posted
         /\ Since(posted)' = Since(posted) + Len(cs) /\ Since(posted)' < Ring
         /\ posted' % Half # 0 => Since(posted)' < Half + (posted' % Half)
<1> DEFINE n == Len(cs)
<1>1. /\ Ring \in Nat \ {0} /\ Ring = 2 * Half /\ Half \in Nat \ {0}
      /\ posted \in 0 .. Ring - 1 /\ read \in 0 .. Ring - 1 /\ next \in 0 .. Ring - 1
      /\ Since(posted) \in 0 .. Ring - 1 /\ Since(next) \in 0 .. Ring - 1
  BY Sizes, SinceRange
<1>2. n \in 1 .. Half /\ ((posted + n - 1) % Half < n => Since(posted) <= Half - n)
  BY DEF Room
<1>3. posted % Half # 0 => Since(posted) < Half + (posted % Half)
  BY DEF Indices
<1>4. posted' = Onward(Ring, posted, n) /\ read' = read /\ next' = next
  BY DEF Post, Onward, substVars
<1> HIDE DEF n
<1>5. LET q == Onward(2 * Half, posted, n)
      IN /\ Distance(2 * Half, read, posted) + n < 2 * Half /\ q # posted
         /\ q % Half # 0 => Distance(2 * Half, read, posted) + n < Half + (q % Half)
  BY <1>1, <1>2, <1>3, RoomAfter DEF Since
<1>6. /\ Since(posted) + n < Ring /\ posted' # posted
      /\ posted' % Half # 0 => Since(posted) + n < Half + (posted' % Half)
  BY <1>1, <1>4, <1>5 DEF Since
<1>7. Since(posted)' = Since(posted) + n
  <2>1. Distance(Ring, read, posted) + n < Ring /\ n \in Nat
    BY <1>2, <1>6 DEF Since
  <2>2. Distance(Ring, read, Onward(Ring, posted, n)) = Distance(Ring, read, posted) + n
    BY <1>1, <2>1, RingLonger
  <2>3. Since(posted)' = Distance(Ring, read', posted')
    BY DEF Since, Ring
  <2> QED
    BY <1>4, <2>2, <2>3 DEF Since
<1>8. Ahead + n < Ring
  BY <1>1, <1>2, <1>6, AheadSince
<1> QED
  BY <1>2, <1>6, <1>7, <1>8 DEF n

(* What the indices have to fulfil once the threads run.                    *)
LEMMA IndicesAfter ==
  ASSUME mpc' \notin {"create", "await"},
         Since(next)' <= Since(seen)', Since(seen)' <= Since(wrote)',
         Since(wrote)' <= Since(posted)',
         posted' % Half # 0 => Since(posted)' < Half + (posted' % Half),
         spc' # "none", spc' = "created" => next' = 0 /\ seen' = 0 /\ read' = 0,
         spc' \in {"look", "half"} => next' = seen' /\ read' = next',
         spc' = "put" => next' # seen', mpc' = "end" => spc' = "ended"
  PROVE  Indices'
<1>1. (mpc \notin {"create", "await"} =>
       /\ spc # "none"
       /\ Since(next) <= Since(seen) /\ Since(seen) <= Since(wrote)
       /\ Since(wrote) <= Since(posted)
       /\ posted % Half # 0 => Since(posted) < Half + (posted % Half)
       /\ spc = "created" => next = 0 /\ seen = 0 /\ read = 0)'
  OBVIOUS
<1>2. (mpc \in {"create", "await"} =>
       /\ posted = 0 /\ wrote = 0 /\ next = 0 /\ seen = 0
       /\ mpc = "create" => spc = "none"
       /\ mpc = "await" => spc = "created" \/ (spc = "look" /\ read = 0))'
  OBVIOUS
<1>3. /\ (spc \in {"look", "half"} => next = seen /\ read = next)'
      /\ (spc = "put" => next # seen)'
      /\ (mpc = "end" => spc = "ended")'
  OBVIOUS
<1> QED
  BY <1>1, <1>2, <1>3 DEF Indices

LEMMA IndicesStill ==
  ASSUME Indices, UNCHANGED <<posted, wrote, next, seen, read, spc>>,
         mpc' \in {"create", "await"} <=> mpc \in {"create", "await"},
         mpc' = "create" => mpc = "create", mpc' = "await" => mpc = "await",
         mpc' = "end" => spc = "ended"
  PROVE  Indices'
<1>1. \A x : Since(x)' = Since(x)
  BY DEF Since, Ring
<1> QED
  BY <1>1 DEF Indices, Ring

LEMMA MainIndicesKept ==
  ASSUME Types, Indices, Main, Finders, MainStep
  PROVE  Indices'
<1>1. CASE PostCopy \/ PostPair \/ (EndScan /\ copied > 0) \/ TakeBatch \/ TakeOne \/ PostEnd
  <2>1. /\ mpc \notin {"create", "await", "end"} /\ mpc' \notin {"create", "await", "end"}
        /\ UNCHANGED substVars
        /\ wrote' \in {wrote, posted'}
    BY <1>1, PostActions
  <2>2. PICK cs \in Seq(Command) : Room(Len(cs)) /\ Post(cs)
    BY <1>1, PostActions
  <2>3. /\ Len(cs) \in Nat
        /\ Since(posted)' = Since(posted) + Len(cs)
        /\ posted' % Half # 0 => Since(posted)' < Half + (posted' % Half)
    BY <2>1, <2>2, PostRoom
  <2>4. /\ Since(next)' = Since(next) /\ Since(seen)' = Since(seen)
        /\ wrote' = wrote => Since(wrote)' = Since(wrote)
        /\ wrote' = posted' => Since(wrote)' = Since(posted)'
        /\ UNCHANGED <<next, seen, read, spc>>
    BY <2>1 DEF Since, Ring, substVars
  <2>5. /\ Since(next) <= Since(seen) /\ Since(seen) <= Since(wrote)
        /\ Since(wrote) <= Since(posted)
        /\ Since(wrote) \in Nat /\ Since(posted) \in Nat /\ Since(seen) \in Nat
        /\ spc # "none"
        /\ spc = "created" => next = 0 /\ seen = 0 /\ read = 0
        /\ spc \in {"look", "half"} => next = seen /\ read = next
        /\ spc = "put" => next # seen
    BY <2>1, SinceRange DEF Indices
  <2>6. Since(seen)' <= Since(wrote)' /\ Since(wrote)' <= Since(posted)'
    BY <2>1, <2>3, <2>4, <2>5
  <2> QED
    <3>1. /\ Since(next)' <= Since(seen)' /\ Since(seen)' <= Since(wrote)'
          /\ Since(wrote)' <= Since(posted)'
      BY <2>4, <2>5, <2>6
    <3>2. /\ spc' # "none"
          /\ spc' = "created" => next' = 0 /\ seen' = 0 /\ read' = 0
          /\ spc' \in {"look", "half"} => next' = seen' /\ read' = next'
          /\ spc' = "put" => next' # seen'
      BY <2>4, <2>5
    <3>4. posted' % Half # 0 => Since(posted)' < Half + (posted' % Half)
      BY <2>3
    <3> QED
      BY <2>1, <3>1, <3>2, <3>4, IndicesAfter
<1>2. CASE CreateThreads
  <2>1. /\ posted = 0 /\ wrote = 0 /\ next = 0 /\ seen = 0
        /\ UNCHANGED <<posted, wrote, next, seen, read>> /\ spc' = "created" /\ mpc' = "await"
    BY <1>2 DEF CreateThreads, Indices
  <2> QED
    BY <2>1 DEF Indices
<1>3. CASE AwaitSubstitute
  <2>1. /\ posted = 0 /\ wrote = 0 /\ next = 0 /\ seen = 0 /\ read = 0
        /\ spc \in {"created", "look"}
        /\ UNCHANGED <<posted, wrote, next, seen, read, spc>> /\ mpc' = "scan"
    BY <1>3 DEF AwaitSubstitute, Indices, substVars
  <2>2. 0 \in 0 .. Ring - 1 /\ Half \in Nat \ {0} /\ 0 % Half = 0
    BY Sizes
  <2>3. Since(posted)' = 0 /\ Since(wrote)' = 0 /\ Since(next)' = 0 /\ Since(seen)' = 0
    BY <2>1, <2>2, Sizes, RingSelf DEF Since, Ring
  <2> QED
    BY <2>1, <2>2, <2>3 DEF Indices, Ring
<1>4. CASE JoinSubstitute
  BY <1>4, IndicesStill DEF JoinSubstitute, substVars
<1>5. CASE ScanOwn \/ (EndScan /\ ~(copied > 0)) \/ HeadAligned \/ TrimFirst \/ Discard
           \/ Drain \/ Rerun \/ LookAtFinder \/ ReleaseFinder \/ JoinFinder
  <2>1. /\ UNCHANGED <<posted, next, seen, read, spc>>
        /\ mpc \notin {"create", "await", "end"} /\ mpc' \notin {"create", "await", "end"}
    BY <1>5 DEF ScanOwn, EndScan, HeadAligned, TrimFirst, Discard, Drain, Rerun, LookAtFinder,
                ReleaseFinder, JoinFinder, substVars, mainVars
  <2>2. CASE EndScan /\ ~(copied > 0)
    <3>1. wrote' = posted
      BY <2>2 DEF EndScan
    <3>2. \A x : Since(x)' = Since(x)
      BY <2>1 DEF Since, Ring
    <3>3. /\ Since(wrote)' = Since(posted) /\ Since(wrote) <= Since(posted)
          /\ Since(seen) <= Since(wrote) /\ Since(wrote) \in Nat /\ Since(posted) \in Nat
          /\ Since(seen) \in Nat
      BY <2>1, <3>1, SinceRange DEF Indices, Since, Ring
    <3>4. Since(seen) <= Since(posted)
      BY <3>3
    <3>5. /\ Since(next)' = Since(next) /\ Since(seen)' = Since(seen)
          /\ Since(posted)' = Since(posted)
      BY <2>1 DEF Since, Ring
    <3>6. Since(next) <= Since(seen) /\ spc # "none"
          /\ (posted % Half # 0 => Since(posted) < Half + (posted % Half))
          /\ (spc = "created" => next = 0 /\ seen = 0 /\ read = 0)
          /\ (spc \in {"look", "half"} => next = seen /\ read = next)
          /\ (spc = "put" => next # seen)
      BY <2>1 DEF Indices
    <3>7. /\ Since(next)' <= Since(seen)' /\ Since(seen)' <= Since(wrote)'
          /\ Since(wrote)' <= Since(posted)'
      BY <3>3, <3>4, <3>5, <3>6
    <3>8. /\ spc' # "none"
          /\ (posted' % Half # 0 => Since(posted)' < Half + (posted' % Half))
          /\ (spc' = "created" => next' = 0 /\ seen' = 0 /\ read' = 0)
          /\ (spc' \in {"look", "half"} => next' = seen' /\ read' = next')
          /\ (spc' = "put" => next' # seen')
      BY <2>1, <3>5, <3>6
    <3> QED
      BY <2>1, <3>7, <3>8, IndicesAfter
  <2>3. CASE ~(EndScan /\ ~(copied > 0))
    <3>1. wrote' = wrote
      BY <1>5, <2>3 DEF ScanOwn, HeadAligned, TrimFirst, Discard, Drain, Rerun,
                        LookAtFinder, ReleaseFinder, JoinFinder, mainVars
    <3>2. UNCHANGED <<posted, wrote, next, seen, read, spc>>
      BY <2>1, <3>1
    <3>3. /\ mpc' \in {"create", "await"} <=> mpc \in {"create", "await"}
          /\ mpc' # "create" /\ mpc' # "await" /\ mpc' # "end"
      BY <2>1
    <3> QED
      BY <3>2, <3>3, IndicesStill
  <2> QED
    BY <1>5, <2>2, <2>3
<1> QED
  BY <1>1, <1>2, <1>3, <1>4, <1>5 DEF MainStep

(* The thread's own index goes on, up to what it knows to be posted.        *)
LEMMA NextCommand ==
  ASSUME Types, Indices, mpc \notin {"create", "await"}, next # seen
  PROVE  /\ Onward(Ring, next, 1) \in 0 .. Ring - 1
         /\ Since(Onward(Ring, next, 1)) = Since(next) + 1
         /\ Since(next) + 1 <= Since(seen)
<1>1. /\ Ring \in Nat \ {0} /\ next \in 0 .. Ring - 1 /\ seen \in 0 .. Ring - 1
      /\ read \in 0 .. Ring - 1
      /\ Since(next) \in 0 .. Ring - 1 /\ Since(seen) \in 0 .. Ring - 1
      /\ Since(next) # Since(seen)
  BY SinceRange
<1>2. Since(next) <= Since(seen)
  BY DEF Indices
<1>3. Since(next) + 1 <= Since(seen) /\ Distance(Ring, read, next) + 1 < Ring /\ 1 \in Nat
  BY <1>1, <1>2 DEF Since
<1>4. /\ Onward(Ring, next, 1) \in 0 .. Ring - 1
      /\ Distance(Ring, read, Onward(Ring, next, 1)) = Distance(Ring, read, next) + 1
  BY <1>1, <1>3, RingLonger
<1> QED
  BY <1>3, <1>4 DEF Since

(* What it has released is free.                                            *)
LEMMA Released ==
  ASSUME Types, Indices, mpc' \notin {"create", "await"}, mpc \notin {"create", "await"},
         NEW x \in 0 .. Ring - 1, read' = x, next' = x,
         UNCHANGED <<posted, wrote, seen, mpc>>, Since(x) <= Since(seen),
         spc' # "none", spc' # "created", spc' \in {"look", "half"} => x = seen,
         spc' # "put", mpc = "end" => spc' = "ended"
  PROVE  Indices'
<1>1. /\ Ring \in Nat \ {0} /\ posted \in 0 .. Ring - 1 /\ wrote \in 0 .. Ring - 1
      /\ seen \in 0 .. Ring - 1 /\ read \in 0 .. Ring - 1
      /\ Since(x) \in 0 .. Ring - 1 /\ Since(posted) \in 0 .. Ring - 1
      /\ Since(seen) \in 0 .. Ring - 1 /\ Since(wrote) \in 0 .. Ring - 1
      /\ Half \in Nat \ {0} /\ posted \in Nat
  BY Sizes, SinceRange
<1>2. /\ Since(x) <= Since(seen) /\ Since(seen) <= Since(wrote)
      /\ Since(wrote) <= Since(posted)
      /\ posted % Half # 0 => Since(posted) < Half + (posted % Half)
  BY DEF Indices
<1>3. \A y \in 0 .. Ring - 1 : Since(x) <= Since(y) => Distance(Ring, x, y) = Since(y) - Since(x)
  BY <1>1, RingBetween DEF Since
<1>4. /\ Since(next)' = Distance(Ring, x, x) /\ Since(seen)' = Distance(Ring, x, seen)
      /\ Since(wrote)' = Distance(Ring, x, wrote) /\ Since(posted)' = Distance(Ring, x, posted)
  BY DEF Since, Ring
<1>5. Distance(Ring, x, x) = 0
  BY <1>1, RingSelf
<1>6. /\ Since(next)' = 0 /\ Since(seen)' = Since(seen) - Since(x)
      /\ Since(wrote)' = Since(wrote) - Since(x) /\ Since(posted)' = Since(posted) - Since(x)
  BY <1>1, <1>2, <1>3, <1>4, <1>5
<1>7. /\ Since(next)' <= Since(seen)' /\ Since(seen)' <= Since(wrote)'
      /\ Since(wrote)' <= Since(posted)'
  BY <1>1, <1>2, <1>6
<1>8. posted' % Half # 0 => Since(posted)' < Half + (posted' % Half)
  <2>1. posted % Half \in Nat
    BY <1>1
  <2>2. posted' % Half = posted % Half
    OBVIOUS
  <2> QED
    BY <1>1, <1>2, <1>6, <2>1, <2>2
<1> QED
  BY <1>7, <1>8, IndicesAfter

LEMMA SubstituteIndicesKept ==
  ASSUME Types, Indices, SubstituteStep
  PROVE  Indices'
<1>1. UNCHANGED <<mpc, posted, wrote>>
  BY DEF SubstituteStep, mainVars
<1>2. CASE mpc \in {"create", "await"}
  <2>1. posted = 0 /\ wrote = 0 /\ next = 0 /\ seen = 0
        /\ (mpc = "create" => spc = "none")
        /\ (mpc = "await" => spc = "created" \/ (spc = "look" /\ read = 0))
    BY <1>2 DEF Indices
  <2>2. StartSubstitute /\ mpc = "await"
    BY <1>2, <2>1 DEF SubstituteStep, StartSubstitute, Look, CopySymbols, SkipSymbols,
                     AwaitSymbol, PutSymbol, ReleaseBatch, EndSubstitute
  <2>3. read' = 0 /\ next' = 0 /\ seen' = 0 /\ spc' = "look"
    BY <2>2 DEF StartSubstitute
  <2> QED
    BY <1>1, <2>1, <2>2, <2>3 DEF Indices
<1>3. CASE mpc \notin {"create", "await"}
  <2>1. /\ Ring \in Nat \ {0} /\ posted \in 0 .. Ring - 1 /\ wrote \in 0 .. Ring - 1
        /\ seen \in 0 .. Ring - 1 /\ read \in 0 .. Ring - 1 /\ next \in 0 .. Ring - 1
        /\ Since(posted) \in Nat /\ Since(next) \in Nat
        /\ Since(seen) \in Nat /\ Since(wrote) \in Nat
        /\ (Since(next) = Since(seen) <=> next = seen)
        /\ (Since(next) = Since(wrote) <=> next = wrote)
    BY SinceRange
  <2>2. /\ spc # "none"
        /\ Since(next) <= Since(seen) /\ Since(seen) <= Since(wrote)
        /\ Since(wrote) <= Since(posted)
        /\ posted % Half # 0 => Since(posted) < Half + (posted % Half)
        /\ spc = "created" => next = 0 /\ seen = 0 /\ read = 0
        /\ spc \in {"look", "half"} => next = seen /\ read = next
        /\ spc = "put" => next # seen
        /\ mpc = "end" => spc = "ended"
    BY <1>3 DEF Indices
  <2>3. mpc' \notin {"create", "await"} /\ posted' % Half = posted % Half
    BY <1>1, <1>3
  <2>4. ASSUME UNCHANGED read
        PROVE  \A x : Since(x') = Since(x)'
    BY <2>4 DEF Since, Ring
  <2>5. CASE StartSubstitute \/ Look \/ AwaitSymbol
    <3>1. /\ UNCHANGED <<read, next>> /\ seen' \in {seen, wrote}
          /\ spc' # "created" /\ spc' # "none" /\ mpc' # "end"
          /\ spc' \in {"look", "half"} => next' = seen' /\ read' = next'
          /\ spc' = "put" => next' # seen'
      BY <1>1, <2>2, <2>5 DEF StartSubstitute, Look, AwaitSymbol
    <3>2. /\ Since(next)' = Since(next) /\ Since(wrote)' = Since(wrote)
          /\ Since(posted)' = Since(posted)
          /\ Since(seen)' = Since(seen) \/ Since(seen)' = Since(wrote)
      BY <1>1, <3>1 DEF Since, Ring
    <3>3. /\ Since(next)' <= Since(seen)' /\ Since(seen)' <= Since(wrote)'
          /\ Since(wrote)' <= Since(posted)'
      BY <2>1, <2>2, <3>2
    <3>4. posted' % Half # 0 => Since(posted)' < Half + (posted' % Half)
      BY <2>2, <2>3, <3>2
    <3> QED
      BY <2>3, <3>1, <3>3, <3>4, IndicesAfter
  <2>6. ASSUME next # seen, next' = Onward(Ring, next, 1), UNCHANGED <<read, seen>>,
               spc' \in {"obey", "put"}, spc' = "put" => next' # seen, mpc # "end"
        PROVE  Indices'
    <3>1. Since(Onward(Ring, next, 1)) = Since(next) + 1 /\ Since(next) + 1 <= Since(seen)
      BY <1>3, <2>6, NextCommand
    <3>2. /\ Since(next)' = Since(Onward(Ring, next, 1)) /\ Since(wrote)' = Since(wrote)
          /\ Since(posted)' = Since(posted) /\ Since(seen)' = Since(seen)
      BY <1>1, <2>6 DEF Since, Ring
    <3>3. /\ Since(next)' <= Since(seen)' /\ Since(seen)' <= Since(wrote)'
          /\ Since(wrote)' <= Since(posted)'
      BY <2>1, <2>2, <3>1, <3>2
    <3>4. posted' % Half # 0 => Since(posted)' < Half + (posted' % Half)
      BY <2>2, <2>3, <3>2
    <3>5. mpc' # "end"
      BY <1>1, <2>6
    <3> QED
      BY <2>3, <2>6, <3>3, <3>4, <3>5, IndicesAfter
  <2>7. CASE CopySymbols \/ PutSymbol
    <3>1. /\ next # seen /\ next' = Onward(Ring, next, 1) /\ UNCHANGED <<read, seen>>
          /\ spc' = "obey" /\ mpc # "end"
      BY <2>2, <2>7 DEF CopySymbols, PutSymbol, Onward
    <3> QED
      BY <3>1, <2>6
  <2>8. CASE SkipSymbols
    <3>1. /\ next # seen /\ next' = Onward(Ring, next, 1) /\ UNCHANGED seen /\ mpc # "end"
      BY <2>2, <2>8 DEF SkipSymbols, Onward
    <3>2. CASE next' = seen
      <4>1. read' = next' /\ spc' = "half"
        BY <2>8, <3>2 DEF SkipSymbols
      <4>2. next' \in 0 .. Ring - 1 /\ Since(next') <= Since(seen)
        BY <2>1, <3>2
      <4> QED
        BY <1>1, <1>3, <2>3, <3>1, <3>2, <4>1, <4>2, Released
    <3>3. CASE next' # seen
      <4>1. UNCHANGED read /\ spc' = "put"
        BY <2>8, <3>3 DEF SkipSymbols
      <4> QED
        BY <2>6, <3>1, <3>3, <4>1
    <3> QED
      BY <3>2, <3>3
  <2>9. CASE ReleaseBatch
    <3>1. next' = next /\ read' = next /\ spc' = "look" /\ seen' = seen /\ next = seen
          /\ mpc # "end"
      BY <2>2, <2>9 DEF ReleaseBatch
    <3>2. Since(next) <= Since(seen)
      BY <2>2
    <3> QED
      BY <1>1, <1>3, <2>1, <2>3, <3>1, <3>2, Released
  <2>10. CASE EndSubstitute
    <3>1. /\ next # seen /\ next' = Onward(Ring, next, 1) /\ UNCHANGED seen
          /\ read' = next' /\ spc' = "ended"
      BY <2>10 DEF EndSubstitute, Onward
    <3>2. /\ next' \in 0 .. Ring - 1 /\ Since(next') = Since(next) + 1
          /\ Since(next) + 1 <= Since(seen)
      BY <1>3, <3>1, NextCommand
    <3> QED
      BY <1>1, <1>3, <2>1, <2>3, <3>1, <3>2, Released
  <2> QED
    BY <2>5, <2>7, <2>8, <2>9, <2>10 DEF SubstituteStep
<1> QED
  BY <1>2, <1>3

LEMMA FinderIndicesKept ==
  ASSUME Indices, NEW t \in Finder, FinderStep(t)
  PROVE  Indices'
<1>1. UNCHANGED <<posted, wrote, next, seen, read, spc>> /\ mpc' = mpc
  BY DEF FinderStep, mainVars, substVars
<1>2. mpc' = "end" => spc = "ended"
  BY <1>1 DEF Indices
<1> QED
  BY <1>1, <1>2, IndicesStill

-------------------------------------------------------------------------------
(* The readers of the text, and the writer behind them.                     *)
LEMMA RegionOrder ==
  ASSUME text \in Texts, Split, NEW u \in Finder, NEW t \in Finder, u < t
  PROVE  StopOf(u) <= StartOf(t) /\ StartOf(u) <= StartOf(t)
<1>1. /\ Block \in Nat /\ Stop0 \in Nat /\ u \in 1 .. Threads /\ t \in 1 .. Threads
      /\ Threads \in Nat
  BY TextLength, Sizes DEF Finder
<1>2. StopOf(u) = StartOf(u) + Block /\ StartOf(u) = Stop0 + (u - 1) * Block
      /\ StartOf(t) = Stop0 + (t - 1) * Block
  BY <1>1 DEF StopOf, StartOf
<1>3. /\ (u - 1) * Block \in Nat /\ (t - 1) * Block \in Nat
      /\ (u - 1) * Block + Block = u * Block /\ u * Block <= (t - 1) * Block
  BY <1>1
<1> QED
  BY <1>1, <1>2, <1>3

LEMMA FrontierStart ==
  ASSUME Types, Main, Split, NEW t \in Finder, Waits(t)
  PROVE  Frontier <= StartOf(t) /\ Frontier \in Nat
<1>1. text \in Texts /\ cur \in Finder /\ cur \in Nat /\ t \in Nat
  BY DEF Types, Finder
<1>2. Stop0 <= StartOf(t) /\ StartOf(t) \in Nat /\ Stop0 \in Nat
      /\ StartOf(cur) \in Nat /\ StopOf(cur) \in Nat
  BY <1>1, Regions, TextLength
<1>3. CASE Scanning
  BY <1>2, <1>3 DEF Frontier, Scanning
<1>4. CASE Heading /\ t >= cur
  <2>1. Frontier = StartOf(cur)
    BY <1>4 DEF Frontier, Heading
  <2>2. CASE t = cur
    BY <1>2, <2>1, <2>2
  <2>3. CASE t # cur
    BY <1>1, <1>2, <1>4, <2>1, <2>3, RegionOrder
  <2> QED
    BY <2>2, <2>3
<1>5. CASE Taking /\ t > cur
  <2>1. Frontier = StopOf(cur)
    BY <1>5 DEF Frontier, Taking
  <2> QED
    BY <1>1, <1>2, <1>5, <2>1, RegionOrder
<1> QED
  BY <1>3, <1>4, <1>5 DEF Waits

LEMMA ScannedForward ==
  ASSUME NEW t \in Texts, NEW V, NEW q \in Seq(V), NEW p \in Nat, NEW c \in Nat, NEW a, NEW f,
         Scanned(t, q, p, c, a, f)
  PROVE  a[1] \in Nat /\ a[1] <= p - c /\ a \in Place
<1>1. Run(t, Listed(q), Len(q), a, <<p - c, 0>>, f) /\ Len(q) \in Nat
  BY DEF Scanned
<1>2. a[1] \in Nat /\ <<p - c, 0>>[1] \in Nat /\ a[1] <= <<p - c, 0>>[1]
  BY <1>1, RunForward
<1> QED
  BY <1>1, <1>2, RunEnds

LEMMA FoundForward ==
  ASSUME NEW t \in Texts, NEW f \in FinderType, NEW slot \in 0 .. FinderRing - 1, NEW a,
         NEW stop, Found(t, f, slot, a, stop)
  PROVE  a[1] \in Nat /\ a[1] <= f.pos - f.copied /\ a[1] <= f.pos
<1>1. PICK z \in Place : /\ Run(t, Slots(f, slot), InRing(f, slot), a, z, stop)
                         /\ Scanned(t, f.queue, f.pos, f.copied, z, stop)
  BY DEF Found
<1>2. f.queue \in Seq(Command) /\ f.pos \in Nat /\ f.copied \in Nat /\ InRing(f, slot) \in Nat
  BY InRingRange, Sizes DEF FinderType
<1>3. z[1] \in Nat /\ z[1] <= f.pos - f.copied
  BY <1>1, <1>2, ScannedForward
<1>4. a[1] \in Nat /\ a[1] <= z[1]
  BY <1>1, <1>2, RunForward
<1> QED
  BY <1>2, <1>3, <1>4

(* No thread that scans, or will, finds the text written where it is.       *)
LEMMA Readers ==
  ASSUME Types, Main, Finders, NEW a \in Place, NEW b \in Place, Positions(a, b)
  PROVE  /\ Scanning => out <= pos /\ b[1] <= pos - copied
         /\ \A t \in Finder :
              /\ finder[t].pc \in {"created", "ready"} => out <= finder[t].start
              /\ finder[t].pc = "scan" => out <= finder[t].pos
<1>1. /\ text \in Texts /\ out \in Nat /\ out <= a[1] /\ out <= Frontier /\ Ahead \in Nat
      /\ pos \in Nat /\ copied \in Nat /\ queue \in Seq(Command) /\ a[1] \in Nat
      /\ taken \in 0 .. FinderRing - 1
      /\ Run(text, Pending, Ahead, a, b, Frontier)
  BY AheadRange, Sizes DEF Types, Positions, Place
<1>2. a[1] <= b[1] /\ b[1] \in Nat
  BY <1>1, RunForward
<1>3. ASSUME Scanning PROVE out <= pos /\ b[1] <= pos - copied
  <2>1. Scanned(text, queue, pos, copied, b, Stop0)
    BY <1>3 DEF Positions, MainAt
  <2>2. b[1] <= pos - copied
    BY <1>1, <2>1, ScannedForward
  <2> QED
    BY <1>1, <1>2, <2>2
<1>4. ASSUME NEW t \in Finder, finder[t].pc \in {"created", "ready", "scan"}
      PROVE  /\ finder[t].pc \in {"created", "ready"} => out <= finder[t].start
             /\ finder[t].pc = "scan" => out <= finder[t].pos
  <2> DEFINE f == finder[t]
  <2>1. f \in FinderType /\ f.start \in Nat /\ f.pos \in Nat
    BY DEF Types, FinderType
  <2>2. Alone(t, f) /\ Shared(t, f) /\ FinderAt(t, f, b)
    BY DEF Finders, Positions
  <2> HIDE DEF f
  <2>3. Split /\ (Waits(t) \/ (Taking /\ t = cur))
    BY <1>4, <2>2 DEF Shared, Over, f
  <2>4. CASE Waits(t)
    <3>1. f.start = StartOf(t) /\ Frontier <= StartOf(t) /\ Frontier \in Nat
      BY <2>2, <2>3, <2>4, FrontierStart DEF Shared
    <3>2. f.pc = "scan" => f.start <= f.pos
      BY <2>2 DEF Alone
    <3> QED
      BY <1>1, <2>1, <3>1, <3>2 DEF f
  <2>5. CASE Taking /\ t = cur
    <3>1. CASE f.pc \in {"created", "ready"}
      <4>1. b = <<f.start, 0>>
        BY <2>2, <2>5, <3>1 DEF FinderAt
      <4> QED
        BY <1>1, <1>2, <2>1, <3>1, <4>1 DEF f
    <3>2. CASE f.pc = "scan"
      <4>1. Found(text, f, taken, b, StopOf(t))
        BY <2>2, <2>5, <3>2 DEF FinderAt
      <4>2. b[1] <= f.pos
        BY <1>1, <2>1, <4>1, FoundForward
      <4> QED
        BY <1>1, <1>2, <2>1, <3>2, <4>2 DEF f
    <3> QED
      BY <1>4, <3>1, <3>2 DEF f
  <2> QED
    BY <2>3, <2>4, <2>5
<1> QED
  BY <1>3, <1>4

(* A turn stays within its region, but for a match.                         *)
LEMMA TurnWithin ==
  ASSUME text \in Texts, NEW p, NEW c \in Nat, NEW stop \in Nat, stop <= L + 1,
         Split \/ stop = L + 1, p < stop, WithinRegion(p, c, stop),
         NEW turn, Turned(text, p, c, turn)
  PROVE  WithinRegion(turn.pos, turn.copied, stop) /\ p < turn.pos
<1>1. L \in Nat /\ Block \in Nat /\ p \in 1 .. L + 1 /\ c < p /\ L = Len(text)
  BY TextLength DEF WithinRegion, L
<1>2. CASE \E s \in RuleAt(text, p) : turn.pos = p + Len(Rules[s]) /\ turn.copied = 0
  <2>1. PICK s \in RuleAt(text, p) : turn.pos = p + Len(Rules[s]) /\ turn.copied = 0
    BY <1>2
  <2>2. /\ Len(Rules[s]) \in Nat /\ Len(Rules[s]) > 1 /\ p + Len(Rules[s]) <= Len(text) + 1
        /\ Len(text) >= Long => Len(Rules[s]) <= Len(text) \div (Threads + 1)
    BY <1>1, RuleLength
  <2>3. turn.pos <= stop + Block
    <3>1. CASE Split
      <4>1. Len(Rules[s]) <= Block
        BY <1>1, <2>2, <3>1 DEF Split, Block
      <4> QED
        BY <1>1, <2>1, <2>2, <4>1
    <3>2. CASE stop = L + 1
      BY <1>1, <2>1, <2>2, <3>2
    <3> QED
      BY <3>1, <3>2
  <2> QED
    BY <1>1, <2>1, <2>2, <2>3 DEF WithinRegion
<1>3. CASE turn.pos = p + 1 /\ (turn.copied = c + 1 \/ turn.copied = 0)
  BY <1>1, <1>3 DEF WithinRegion
<1> QED
  BY <1>2, <1>3 DEF Turned

(* What a step that leaves them alone keeps.                                *)
LEMMA MainStill ==
  ASSUME Main, UNCHANGED <<text, pos, copied, queue, mpc, cur, extra, taken>>
  PROVE  Main'
<1>1. /\ L' = L /\ Split' = Split /\ Stop0' = Stop0 /\ Block' = Block
      /\ \A t : StartOf(t)' = StartOf(t) /\ StopOf(t)' = StopOf(t)
  BY SameText
<1> QED
  BY <1>1 DEF Main, WithinRegion, Scanning, Heading, Taking

LEMMA AloneStill ==
  ASSUME text' = text
  PROVE  \A t, f : Alone(t, f)' <=> Alone(t, f)
<1>1. /\ L' = L /\ Split' = Split /\ Stop0' = Stop0 /\ Block' = Block
      /\ \A t : StartOf(t)' = StartOf(t) /\ StopOf(t)' = StopOf(t)
  BY SameText
<1> QED
  BY <1>1 DEF Alone, WithinRegion

LEMMA SharedStill ==
  ASSUME UNCHANGED <<text, mpc, cur, taken, upTo>>
  PROVE  \A t, f : Shared(t, f)' <=> Shared(t, f)
<1>1. /\ Split' = Split /\ \A t : StartOf(t)' = StartOf(t)
      /\ \A t : (Waits(t)' <=> Waits(t)) /\ (Over(t)' <=> Over(t))
      /\ Taking' = Taking
  BY SameText DEF Waits, Over, Scanning, Heading, Taking
<1> QED
  BY <1>1 DEF Shared, Taking, InRing

LEMMA FindersStill ==
  ASSUME Finders, UNCHANGED <<text, finder, mpc, cur, taken, upTo>>
  PROVE  Finders'
BY AloneStill, SharedStill DEF Finders, Finder

LEMMA OneFinder ==
  ASSUME Types, NEW t \in Finder, NEW g, Become(t, g)
  PROVE  finder'[t] = g /\ \A u \in Finder : u # t => finder'[u] = finder[u]
BY DEF Become, Types

(* What a finder is after each of its steps.                                *)
LEMMA StartFields ==
  ASSUME Types, NEW t \in Finder, StartFinder(t)
  PROVE  LET f == finder[t]
             g == finder'[t]
         IN /\ f.pc = "created" /\ g.pc = "ready" /\ g.start = f.start /\ g.pos = f.start
            /\ g.copied = 0 /\ g.queue = <<>> /\ g.extra = 0 /\ g.write = 0
            /\ g.read = f.read /\ g.done = f.done /\ g.data = f.data
<1> DEFINE f == finder[t]
           g == finder'[t]
<1>0. f = finder[t] /\ g = finder'[t]
  OBVIOUS
<1> HIDE DEF f, g
<1>1. f \in FinderType
  BY <1>0 DEF Types
<1>2. g = [f EXCEPT !.pc = "ready", !.extra = 0, !.write = 0, !.pos = f.start,
                    !.copied = 0, !.queue = <<>>]
  BY <1>0 DEF StartFinder, Become, Types
<1> QED
  BY <1>0, <1>1, <1>2 DEF FinderType, StartFinder, f, g

LEMMA BeginFields ==
  ASSUME Types, NEW t \in Finder, BeginScan(t)
  PROVE  LET f == finder[t]
             g == finder'[t]
         IN /\ f.pc = "ready" /\ f.read = 0 /\ g.pc = "scan"
            /\ g.start = f.start /\ g.pos = f.pos /\ g.copied = f.copied /\ g.queue = f.queue
            /\ g.extra = f.extra /\ g.write = f.write /\ g.read = f.read /\ g.done = f.done
            /\ g.data = f.data
<1> DEFINE f == finder[t]
           g == finder'[t]
<1>0. f = finder[t] /\ g = finder'[t]
  OBVIOUS
<1> HIDE DEF f, g
<1>1. f \in FinderType
  BY <1>0 DEF Types
<1>2. g = [f EXCEPT !.pc = "scan"]
  BY <1>0 DEF BeginScan, Become, Types
<1> QED
  BY <1>0, <1>1, <1>2 DEF FinderType, BeginScan, f, g

LEMMA TurnFields ==
  ASSUME Types, NEW t \in Finder, FindNext(t)
  PROVE  LET f == finder[t]
             g == finder'[t]
         IN /\ f.pc = "scan" /\ f.queue = <<>> /\ f.pos < StopOf(t)
            /\ \E turn \in Turns(f.pos, f.copied) :
                 g.pos = turn.pos /\ g.copied = turn.copied /\ g.queue = turn.queue
            /\ g.pc = f.pc /\ g.start = f.start /\ g.extra = f.extra /\ g.write = f.write
            /\ g.read = f.read /\ g.done = f.done /\ g.data = f.data
<1> DEFINE f == finder[t]
           g == finder'[t]
<1>0. f = finder[t] /\ g = finder'[t]
  OBVIOUS
<1> HIDE DEF f, g
<1>1. f \in FinderType
  BY <1>0 DEF Types
<1>2. PICK turn \in Turns(f.pos, f.copied) :
        g = [f EXCEPT !.pos = turn.pos, !.copied = turn.copied, !.queue = turn.queue]
  BY <1>0 DEF FindNext, Become, Types
<1>3. /\ g.pos = turn.pos /\ g.copied = turn.copied /\ g.queue = turn.queue
      /\ g.pc = f.pc /\ g.start = f.start /\ g.extra = f.extra /\ g.write = f.write
      /\ g.read = f.read /\ g.done = f.done /\ g.data = f.data
  BY <1>1, <1>2 DEF FinderType
<1> QED
  BY <1>0, <1>3 DEF FindNext, f, g

LEMMA PutFields ==
  ASSUME Types, NEW t \in Finder, PutCommand(t)
  PROVE  LET f == finder[t]
             g == finder'[t]
         IN /\ f.pc = "scan" /\ f.queue # <<>> /\ ~Full(f)
            /\ g.data = [f.data EXCEPT ![f.write] = Head(f.queue)] /\ g.queue = Tail(f.queue)
            /\ g.write = Onward(FinderRing, f.write, 1)
            /\ g.pc = f.pc /\ g.start = f.start /\ g.pos = f.pos /\ g.copied = f.copied
            /\ g.extra = f.extra /\ g.read = f.read /\ g.done = f.done
<1> DEFINE f == finder[t]
           g == finder'[t]
<1>0. f = finder[t] /\ g = finder'[t]
  OBVIOUS
<1> HIDE DEF f, g
<1>1. f \in FinderType
  BY <1>0 DEF Types
<1>2. PICK d, q, w : /\ g = [f EXCEPT !.data = d, !.queue = q, !.write = w]
                     /\ d = [f.data EXCEPT ![f.write] = Head(f.queue)]
                     /\ q = Tail(f.queue) /\ w = Onward(FinderRing, f.write, 1)
  BY <1>0 DEF PutCommand, Become, Types, Onward
<1>3. /\ g.data = d /\ g.queue = q /\ g.write = w
      /\ g.pc = f.pc /\ g.start = f.start /\ g.pos = f.pos /\ g.copied = f.copied
      /\ g.extra = f.extra /\ g.read = f.read /\ g.done = f.done
  BY <1>1, <1>2 DEF FinderType
<1> QED
  BY <1>0, <1>2, <1>3 DEF PutCommand, f, g

LEMMA CopyFields ==
  ASSUME Types, NEW t \in Finder, LastCopy(t)
  PROVE  LET f == finder[t]
             g == finder'[t]
         IN /\ f.pc = "scan" /\ f.queue = <<>> /\ f.pos >= StopOf(t) /\ f.copied > 0
            /\ g.queue = <<Copy(f.copied)>> /\ g.copied = 0 /\ g.write = f.write
            /\ g.pc = f.pc /\ g.start = f.start /\ g.pos = f.pos
            /\ g.extra = f.extra /\ g.read = f.read /\ g.done = f.done /\ g.data = f.data
<1> DEFINE f == finder[t]
           g == finder'[t]
<1>0. f = finder[t] /\ g = finder'[t]
  OBVIOUS
<1> HIDE DEF f, g
<1>1. f \in FinderType
  BY <1>0 DEF Types
<1>2. PICK q : q = <<Copy(f.copied)>> /\ g = [f EXCEPT !.queue = q, !.copied = 0]
  BY <1>0 DEF LastCopy, Become, Types
<1>3. /\ g.queue = q /\ g.copied = 0 /\ g.write = f.write
      /\ g.pc = f.pc /\ g.start = f.start /\ g.pos = f.pos
      /\ g.extra = f.extra /\ g.read = f.read /\ g.done = f.done /\ g.data = f.data
  BY <1>1, <1>2 DEF FinderType
<1> QED
  BY <1>0, <1>2, <1>3 DEF LastCopy, f, g

LEMMA EndFields ==
  ASSUME Types, NEW t \in Finder, EndFinder(t)
  PROVE  LET f == finder[t]
             g == finder'[t]
         IN /\ f.pc = "scan" /\ f.queue = <<>> /\ f.pos >= StopOf(t) /\ f.copied = 0
            /\ g.pc = "ended" /\ g.done = TRUE /\ g.extra = f.pos - StopOf(t)
            /\ g.queue = f.queue /\ g.copied = f.copied /\ g.write = f.write
            /\ g.start = f.start /\ g.pos = f.pos /\ g.read = f.read /\ g.data = f.data
<1> DEFINE f == finder[t]
           g == finder'[t]
<1>0. f = finder[t] /\ g = finder'[t]
  OBVIOUS
<1> HIDE DEF f, g
<1>1. f \in FinderType
  BY <1>0 DEF Types
<1>2. PICK e : /\ e = f.pos - StopOf(t)
               /\ g = [f EXCEPT !.pc = "ended", !.done = TRUE, !.extra = e]
  BY <1>0 DEF EndFinder, Become, Types
<1>3. /\ g.pc = "ended" /\ g.done = TRUE /\ g.extra = e
      /\ g.queue = f.queue /\ g.copied = f.copied /\ g.write = f.write
      /\ g.start = f.start /\ g.pos = f.pos /\ g.read = f.read /\ g.data = f.data
  BY <1>1, <1>2 DEF FinderType
<1> QED
  BY <1>0, <1>2, <1>3 DEF EndFinder, f, g
(* What main has not taken is not more than what the finder sees as taken.  *)
LEMMA NotTaken ==
  ASSUME Types, NEW t \in Finder, NEW f \in FinderType, NEW x \in 0 .. FinderRing - 1,
         Distance(FinderRing, f.read, x) <= InRing(f, f.read)
  PROVE  InRing(f, x) = InRing(f, f.read) - Distance(FinderRing, f.read, x)
<1>1. f.write \in 0 .. FinderRing - 1 /\ f.read \in 0 .. FinderRing - 1 /\ FinderRing \in Nat \ {0}
  BY Sizes DEF FinderType
<1> QED
  BY <1>1, RingBetween DEF InRing

LEMMA WriteMore ==
  ASSUME NEW f \in FinderType, NEW g, NEW x \in 0 .. FinderRing - 1,
         InRing(f, x) + 1 < FinderRing, g.write = Onward(FinderRing, f.write, 1)
  PROVE  InRing(g, x) = InRing(f, x) + 1
<1>1. f.write \in 0 .. FinderRing - 1 /\ FinderRing \in Nat \ {0} /\ 1 \in Nat
      /\ Distance(FinderRing, x, f.write) + 1 < FinderRing
  BY Sizes DEF FinderType, InRing
<1> QED
  BY <1>1, RingLonger DEF InRing

LEMMA FinderFinders ==
  ASSUME Types, Main, Finders, NEW a \in Place, NEW b \in Place, Positions(a, b),
         NEW t \in Finder, FinderStep(t)
  PROVE  Finders'
<1> DEFINE f == finder[t]
           g == finder'[t]
<1>1. /\ UNCHANGED <<text, mpc, cur, taken, upTo>>
      /\ \A u \in Finder : u # t => finder'[u] = finder[u]
  BY OneFinder DEF FinderStep, mainVars, StartFinder, BeginScan, FindNext, PutCommand,
                   LastCopy, EndFinder
<1>2. SUFFICES Alone(t, g) /\ Shared(t, g)
  <2>1. ASSUME NEW u \in Finder PROVE Alone(u, finder'[u]) /\ Shared(u, finder'[u])
    BY <1>1, <1>2 DEF Finders
  <2>2. Finder' = Finder
    BY DEF Finder
  <2> QED
    BY <1>1, <2>1, <2>2, AloneStill, SharedStill DEF Finders
<1>3. /\ f \in FinderType /\ text \in Texts /\ cur \in Finder
      /\ taken \in 0 .. FinderRing - 1 /\ upTo \in 0 .. FinderRing - 1
      /\ FinderRing \in Nat \ {0}
  BY Sizes DEF Types
<1>4. /\ f.start \in Nat /\ f.pos \in Nat /\ f.copied \in Nat /\ f.copied \in Nat
      /\ f.read \in 0 .. FinderRing - 1 /\ f.write \in 0 .. FinderRing - 1
      /\ DOMAIN f = {"pc", "start", "pos", "copied", "queue", "extra", "write", "read",
                     "done", "data"}
  BY <1>3, Sizes DEF FinderType
<1>5. Alone(t, f) /\ Shared(t, f)
  BY DEF Finders
<1>6. f.pc # "none" => Split
  BY <1>5 DEF Shared
<1>7. ASSUME Split
      PROVE  /\ StopOf(t) \in Nat /\ StopOf(t) <= L + 1 /\ StartOf(t) \in Nat
             /\ StartOf(t) <= StopOf(t) /\ 1 <= StartOf(t) /\ L \in Nat /\ Block \in Nat
  BY <1>3, <1>7, Regions, TextLength
<1>0. f = finder[t] /\ g = finder'[t]
  OBVIOUS
<1> HIDE DEF f, g
<1>8. CASE StartFinder(t)
  <2>1. /\ f.pc = "created" /\ g.pc = "ready" /\ g.extra = 0 /\ g.write = 0
        /\ g.pos = f.start /\ g.copied = 0 /\ g.queue = <<>>
        /\ g.start = f.start /\ g.read = f.read /\ g.done = f.done
    BY <1>0, <1>8, StartFields
  <2>2. Alone(t, g)
    BY <1>5, <2>1 DEF Alone
  <2> QED
    BY <1>5, <2>1, <2>2 DEF Shared
<1>9. CASE BeginScan(t)
  <2>1. /\ f.pc = "ready" /\ f.read = 0 /\ g.pc = "scan"
        /\ g.pos = f.pos /\ g.copied = f.copied /\ g.queue = f.queue /\ g.extra = f.extra
        /\ g.start = f.start /\ g.read = f.read /\ g.done = f.done /\ g.write = f.write
    BY <1>0, <1>9, BeginFields
  <2>2. Alone(t, g)
    <3>1. WithinRegion(f.pos, f.copied, StopOf(t))
      BY <1>4, <1>5, <1>6, <1>7, <2>1 DEF Alone, WithinRegion
    <3> QED
      BY <1>4, <1>5, <2>1, <3>1 DEF Alone
  <2>3. f.write = 0 /\ InRing(g, 0) = 0 /\ Distance(FinderRing, 0, 0) = 0
    <3>1. f.write = 0 /\ 0 \in 0 .. FinderRing - 1
      BY <1>4, <1>5, <2>1 DEF Alone
    <3> QED
      BY <1>3, <2>1, <3>1, RingSelf DEF InRing
  <2> QED
    BY <1>5, <2>1, <2>2, <2>3 DEF Shared
<1>10. CASE FindNext(t)
  <2>1. PICK turn \in Turns(f.pos, f.copied) :
          /\ g.pos = turn.pos /\ g.copied = turn.copied /\ g.queue = turn.queue
          /\ f.pc = "scan" /\ g.pc = "scan" /\ g.extra = f.extra /\ g.start = f.start
          /\ g.read = f.read /\ g.done = f.done /\ g.write = f.write
    BY <1>0, <1>10, TurnFields
  <2>2. f.pc = "scan" /\ f.pos < StopOf(t)
    BY <1>0, <1>10, TurnFields
  <2>3. out <= f.pos /\ out \in Nat \ {0} /\ Rewrote(text, buf, out, a[1])
    BY <1>0, <2>2, Readers DEF Types, Positions
  <2>4. Turned(text, f.pos, f.copied, turn)
    BY <1>3, <1>4, <2>1, <2>3, TurnsOfText
  <2>5. WithinRegion(g.pos, g.copied, StopOf(t)) /\ f.pos < g.pos /\ g.pos \in Nat
    <3>1. WithinRegion(turn.pos, turn.copied, StopOf(t)) /\ f.pos < turn.pos
      BY <1>3, <1>4, <1>5, <1>6, <1>7, <2>2, <2>4, TurnWithin DEF Alone
    <3> QED
      BY <2>1, <3>1 DEF WithinRegion
  <2>6. Alone(t, g)
    BY <1>4, <1>5, <2>1, <2>2, <2>5 DEF Alone
  <2>7. \A x : InRing(g, x) = InRing(f, x)
    BY <2>1 DEF InRing
  <2> QED
    BY <1>5, <2>1, <2>2, <2>6, <2>7 DEF Shared
<1>11. CASE PutCommand(t)
  <2>1. /\ f.pc = "scan" /\ g.pc = "scan" /\ ~Full(f)
        /\ g.write = Onward(FinderRing, f.write, 1)
        /\ g.pos = f.pos /\ g.copied = f.copied /\ g.extra = f.extra
        /\ g.start = f.start /\ g.read = f.read /\ g.done = f.done
    BY <1>0, <1>11, PutFields
  <2>2. Alone(t, g)
    BY <1>5, <2>1 DEF Alone
  <2>3. InRing(f, f.read) \in Nat /\ InRing(f, f.read) + 1 < FinderRing
    <3>1. InRing(f, f.read) \in 0 .. FinderRing - 1 /\ InRing(f, f.read) # FinderRing - 1
      BY <1>3, <1>4, <2>1, InRingRange DEF Full, InRing, Distance
    <3> QED
      BY <1>3, <3>1
  <2>4. InRing(g, f.read) = InRing(f, f.read) + 1
    BY <1>3, <1>4, <2>1, <2>3, WriteMore
  <2>5. ASSUME Taking, t = cur
        PROVE  /\ Distance(FinderRing, g.read, taken) <= InRing(g, g.read)
               /\ mpc = "take" => Distance(FinderRing, taken, upTo) <= InRing(g, taken)
    <3>1. /\ Distance(FinderRing, f.read, taken) <= InRing(f, f.read)
          /\ mpc = "take" => Distance(FinderRing, taken, upTo) <= InRing(f, taken)
      BY <1>5, <2>1, <2>5 DEF Shared
    <3>2. /\ InRing(f, taken) = InRing(f, f.read) - Distance(FinderRing, f.read, taken)
          /\ Distance(FinderRing, f.read, taken) \in Nat /\ InRing(f, taken) \in Nat
          /\ Distance(FinderRing, taken, upTo) \in Nat
      <4>1. InRing(f, taken) = InRing(f, f.read) - Distance(FinderRing, f.read, taken)
        BY <1>3, <3>1, NotTaken
      <4>2. InRing(f, taken) \in Nat
        BY <1>3, InRingRange
      <4>3. Distance(FinderRing, f.read, taken) \in 0 .. FinderRing - 1
            /\ Distance(FinderRing, taken, upTo) \in 0 .. FinderRing - 1
        BY <1>3, <1>4, RingRange
      <4> QED
        BY <1>3, <4>1, <4>2, <4>3
    <3>3. InRing(f, taken) + 1 < FinderRing
      BY <1>3, <2>3, <3>2
    <3>4. InRing(g, taken) = InRing(f, taken) + 1
      BY <1>3, <2>1, <3>3, WriteMore
    <3> QED
      BY <2>1, <2>3, <2>4, <3>1, <3>2, <3>4
  <2> QED
    BY <1>5, <2>1, <2>2, <2>5 DEF Shared
<1>12. CASE LastCopy(t)
  <2>1. /\ f.pc = "scan" /\ g.pc = "scan" /\ g.copied = 0
        /\ g.write = f.write /\ g.pos = f.pos /\ g.extra = f.extra
        /\ g.start = f.start /\ g.read = f.read /\ g.done = f.done
    BY <1>0, <1>12, CopyFields
  <2>2. Alone(t, g)
    BY <1>5, <2>1 DEF Alone, WithinRegion
  <2>3. \A x : InRing(g, x) = InRing(f, x)
    BY <2>1 DEF InRing
  <2> QED
    BY <1>5, <2>1, <2>2, <2>3 DEF Shared
<1>13. CASE EndFinder(t)
  <2>1. /\ f.pc = "scan" /\ g.pc = "ended" /\ f.queue = <<>> /\ f.pos >= StopOf(t)
        /\ f.copied = 0 /\ g.done = TRUE /\ g.extra = f.pos - StopOf(t)
        /\ g.write = f.write /\ g.pos = f.pos /\ g.copied = f.copied /\ g.queue = f.queue
        /\ g.start = f.start /\ g.read = f.read
    BY <1>0, <1>13, EndFields
  <2>2. Alone(t, g)
    BY <1>5, <2>1 DEF Alone
  <2>3. \A x : InRing(g, x) = InRing(f, x)
    BY <2>1 DEF InRing
  <2> QED
    BY <1>5, <2>1, <2>2, <2>3 DEF Shared
<1> QED
  BY <1>8, <1>9, <1>10, <1>11, <1>12, <1>13 DEF FinderStep

-------------------------------------------------------------------------------
(* What main changes of a finder.                                           *)
LEMMA TrimFields ==
  ASSUME NEW f \in FinderType, NEW n, NEW g, g = [f EXCEPT !.data[0].n = @ - n]
  PROVE  /\ g.pc = f.pc /\ g.start = f.start /\ g.pos = f.pos /\ g.copied = f.copied
         /\ g.queue = f.queue /\ g.extra = f.extra /\ g.write = f.write /\ g.read = f.read
         /\ g.done = f.done
         /\ g.data = [f.data EXCEPT ![0] = [f.data[0] EXCEPT !.n = f.data[0].n - n]]
BY DEF FinderType

LEMMA ReadFields ==
  ASSUME NEW f \in FinderType, NEW n, NEW g, g = [f EXCEPT !.read = n]
  PROVE  /\ g.pc = f.pc /\ g.start = f.start /\ g.pos = f.pos /\ g.copied = f.copied
         /\ g.queue = f.queue /\ g.extra = f.extra /\ g.write = f.write /\ g.read = n
         /\ g.done = f.done /\ g.data = f.data
BY DEF FinderType

LEMMA RerunFields ==
  ASSUME NEW f \in FinderType, NEW n, NEW g,
         g = [f EXCEPT !.pc = "created", !.start = @ + n, !.done = FALSE, !.write = 0]
  PROVE  /\ g.pc = "created" /\ g.start = f.start + n /\ g.pos = f.pos /\ g.copied = f.copied
         /\ g.queue = f.queue /\ g.extra = f.extra /\ g.write = 0 /\ g.read = f.read
         /\ g.done = FALSE /\ g.data = f.data
BY DEF FinderType

LEMMA CreatedFields ==
  ASSUME NEW f \in FinderType, NEW g, g = [f EXCEPT !.pc = "created"]
  PROVE  /\ g.pc = "created" /\ g.start = f.start /\ g.pos = f.pos /\ g.copied = f.copied
         /\ g.queue = f.queue /\ g.extra = f.extra /\ g.write = f.write /\ g.read = f.read
         /\ g.done = f.done /\ g.data = f.data
BY DEF FinderType

(* The finders by what main does next.                                      *)
LEMMA SharedScanning ==
  ASSUME NEW t, NEW g, Scanning',
         g.pc = "none" <=> ~Split' \/ mpc' = "create",
         g.start = StartOf(t)', g.read = 0
  PROVE  Shared(t, g)'
BY DEF Shared, Scanning, Waits, Over, Taking

LEMMA SharedHeading ==
  ASSUME NEW t \in Nat, NEW g, Heading', cur' \in Nat, Split', g.pc # "none",
         t >= cur' => g.start = StartOf(t)',
         t >= cur' /\ ~(mpc' = "drain" /\ t = cur') => g.read = 0,
         t < cur' => g.pc = "ended",
         mpc' = "drain" /\ t = cur' => g.pc \in {"scan", "ended"}
  PROVE  Shared(t, g)'
BY DEF Shared, Scanning, Waits, Over, Taking, Heading

LEMMA SharedTaking ==
  ASSUME NEW t \in Nat, NEW g, Taking', cur' \in Nat, Split', g.pc # "none",
         t > cur' => g.start = StartOf(t)' /\ g.read = 0,
         t < cur' => g.pc = "ended",
         t = cur' /\ g.pc \in {"created", "ready"} =>
           taken' = 0 /\ (mpc' = "take" => upTo' = 0),
         t = cur' /\ g.pc \in {"scan", "ended"} =>
           /\ Distance(FinderRing, g.read, taken') <= InRing(g, g.read)
           /\ mpc' = "take" => Distance(FinderRing, taken', upTo') <= InRing(g, taken')
  PROVE  Shared(t, g)'
BY DEF Shared, Scanning, Waits, Over, Taking, Heading, InRing

LEMMA SharedOver ==
  ASSUME NEW t, NEW g, mpc' \in {"finish", "join", "end"},
         g.pc = "none" <=> ~Split', Split' => g.pc = "ended"
  PROVE  Shared(t, g)'
BY DEF Shared, Scanning, Waits, Over, Taking, Heading

LEMMA FromZero ==
  ASSUME NEW n \in Nat \ {0}, NEW x \in 0 .. n - 1
  PROVE  Distance(n, 0, x) = x /\ Distance(n, 0, 0) = 0
<1>1. 0 \in 0 .. n - 1
  OBVIOUS
<1>2. (x - 0) % n = IF x >= 0 THEN x - 0 ELSE x - 0 + n
  BY <1>1, ModDifference
<1> QED
  BY <1>1, <1>2, RingSelf DEF Distance

LEMMA FindersByEach ==
  ASSUME text' = text,
         \A t \in Finder : \E g : g = finder'[t] /\ Alone(t, g) /\ Shared(t, g)'
  PROVE  Finders'
<1>1. ASSUME NEW t \in Finder PROVE Alone(t, finder[t])' /\ Shared(t, finder[t])'
  <2>1. PICK g : g = finder'[t] /\ Alone(t, g) /\ Shared(t, g)'
    OBVIOUS
  <2>2. Alone(t, g)'
    BY <2>1, AloneStill
  <2> QED
    BY <2>1, <2>2
<1> QED
  BY <1>1 DEF Finders, Finder

LEMMA MainFindersScan ==
  ASSUME Types, Main, Finders, CreateThreads \/ AwaitSubstitute \/ ScanOwn \/ PostCopy \/ PostPair,
         text' = text
  PROVE  Finders'
<1>1. CASE ScanOwn \/ PostCopy \/ PostPair
  <2>1. UNCHANGED <<text, finder, mpc, cur, taken, upTo>>
    BY <1>1 DEF ScanOwn, PostCopy, PostPair
  <2> QED
    BY <2>1, FindersStill
<1>2. CASE CreateThreads \/ AwaitSubstitute
  <2> SUFFICES ASSUME NEW t \in Finder
               PROVE  \E g : g = finder'[t] /\ Alone(t, g) /\ Shared(t, g)'
    BY FindersByEach
  <2>1. Split' = Split /\ StartOf(t)' = StartOf(t)
    BY SameText
  <2>2. PICK f : f = finder[t] /\ f \in FinderType /\ Alone(t, f) /\ Shared(t, f)
    BY DEF Types, Finders
  <2>3. Scanning /\ Scanning' /\ Waits(t) /\ mpc # "drain" /\ mpc' \notin {"drain", "create"}
    BY <1>2 DEF CreateThreads, AwaitSubstitute, Scanning, Waits
  <2>4. /\ f.pc = "none" <=> ~Split \/ mpc = "create"
        /\ f.start = StartOf(t) /\ f.read = 0
    BY <2>2, <2>3 DEF Shared
  <2>5. CASE CreateThreads /\ Split
    <3>1. PICK g : g = finder'[t] /\ g = [f EXCEPT !.pc = "created"]
      BY <2>2, <2>5 DEF CreateThreads
    <3>2. /\ g.pc = "created" /\ g.start = f.start /\ g.pos = f.pos /\ g.copied = f.copied
          /\ g.queue = f.queue /\ g.extra = f.extra /\ g.write = f.write /\ g.read = f.read
          /\ g.done = f.done
      BY <2>2, <3>1, CreatedFields
    <3>3. f.pc = "none"
      BY <2>4, <2>5 DEF CreateThreads
    <3>4. Alone(t, g)
      BY <2>2, <3>2, <3>3 DEF Alone
    <3>5. Shared(t, g)'
      BY <2>1, <2>3, <2>4, <2>5, <3>2, SharedScanning
    <3> QED
      BY <3>1, <3>4, <3>5
  <2>6. CASE ~(CreateThreads /\ Split)
    <3>1. finder' = finder
      BY <1>2, <2>6 DEF CreateThreads, AwaitSubstitute
    <3>2. f.pc = "none" <=> ~Split
      BY <1>2, <2>4, <2>6 DEF CreateThreads, AwaitSubstitute
    <3>3. Shared(t, f)'
      BY <2>1, <2>3, <2>4, <3>2, SharedScanning
    <3> QED
      BY <2>2, <3>1, <3>3
  <2> QED
    BY <2>5, <2>6
<1> QED
  BY <1>1, <1>2

LEMMA MainFindersHead ==
  ASSUME Types, Main, Finders, EndScan \/ HeadAligned \/ TrimFirst \/ Discard \/ Drain \/ Rerun,
         text' = text
  PROVE  Finders'
<1> SUFFICES ASSUME NEW t \in Finder
             PROVE  \E g : g = finder'[t] /\ Alone(t, g) /\ Shared(t, g)'
  BY FindersByEach
<1>1. Split' = Split /\ \A u : StartOf(u)' = StartOf(u)
  BY SameText
<1>2. PICK f : f = finder[t] /\ f \in FinderType /\ Alone(t, f) /\ Shared(t, f)
  BY DEF Types, Finders
<1>3. /\ t \in Nat /\ cur \in Nat /\ cur \in Finder /\ text \in Texts /\ t \in 1 .. Threads
      /\ taken \in 0 .. FinderRing - 1 /\ FinderRing \in Nat \ {0} /\ 0 \in 0 .. FinderRing - 1
      /\ f.write \in 0 .. FinderRing - 1 /\ f.read \in 0 .. FinderRing - 1 /\ FinderRing > 1
      /\ InRing(f, 0) = f.write /\ Distance(FinderRing, 0, 0) = 0
      /\ Distance(FinderRing, 0, 1) = 1 /\ f.write \in Nat
  <2>1. /\ t \in Nat /\ cur \in Nat /\ cur \in Finder /\ text \in Texts /\ t \in 1 .. Threads
        /\ taken \in 0 .. FinderRing - 1 /\ FinderRing \in Nat \ {0}
        /\ 0 \in 0 .. FinderRing - 1 /\ 1 \in 0 .. FinderRing - 1
        /\ f.write \in 0 .. FinderRing - 1 /\ f.read \in 0 .. FinderRing - 1 /\ FinderRing > 1
    BY <1>2, Sizes DEF Types, Finder, FinderType
  <2> QED
    BY <2>1, FromZero DEF InRing
<1>4. CASE EndScan
  <2>1. /\ mpc = "scan" /\ finder' = finder /\ cur' = cur /\ cur = 1
        /\ Split => mpc' = "head"
        /\ ~Split => mpc' = "finish"
    BY <1>4 DEF EndScan, Main, Scanning
  <2>2. Waits(t) /\ f.start = StartOf(t) /\ f.read = 0 /\ (f.pc = "none" <=> ~Split)
    BY <1>2, <2>1 DEF Waits, Scanning, Shared
  <2>3. CASE Split
    <3>1. Heading' /\ mpc' # "drain" /\ cur' = 1
      BY <2>1, <2>3 DEF Heading
    <3>2. t >= cur'
      BY <1>3, <3>1
    <3>3. Shared(t, f)'
      BY <1>1, <1>3, <2>2, <2>3, <3>1, <3>2, SharedHeading
    <3> QED
      BY <1>2, <2>1, <3>3
  <2>4. CASE ~Split
    <3>1. Shared(t, f)'
      BY <1>1, <2>1, <2>2, <2>4, SharedOver
    <3> QED
      BY <1>2, <2>1, <3>1
  <2> QED
    BY <2>3, <2>4
<1>5. CASE HeadAligned \/ TrimFirst \/ Discard \/ Drain \/ Rerun
  <2>1. Heading /\ ~Scanning /\ ~Taking /\ taken = 0 /\ Split /\ cur' = cur
        /\ StartOf(cur) + extra <= StopOf(cur)
    <3>1. mpc \in {"head", "drain"} /\ cur' = cur
      BY <1>5 DEF HeadAligned, TrimFirst, Discard, Drain, Rerun, mainVars
    <3> QED
      BY <3>1 DEF Main, Heading, Scanning, Taking
  <2>2. /\ t < cur => f.pc = "ended"
        /\ t >= cur => f.start = StartOf(t)
        /\ t >= cur /\ ~(mpc = "drain" /\ t = cur) => f.read = 0
        /\ mpc = "drain" /\ t = cur => f.pc \in {"scan", "ended"}
        /\ f.pc # "none"
    <3>1. (Waits(t) <=> t >= cur) /\ (Over(t) <=> t < cur)
      BY <1>3, <2>1 DEF Waits, Over
    <3>2. mpc # "create"
      BY <2>1 DEF Scanning
    <3> QED
      BY <1>2, <2>1, <3>1, <3>2 DEF Shared
  <2>3. CASE HeadAligned
    <3>1. Taking' /\ mpc' = "merge" /\ finder' = finder /\ taken' = taken /\ mpc = "head"
      BY <2>3 DEF HeadAligned, Taking
    <3>2. Shared(t, f)'
      <4>1. /\ t > cur' => f.start = StartOf(t)' /\ f.read = 0
            /\ t < cur' => f.pc = "ended"
            /\ t = cur' => f.read = 0
        BY <1>1, <1>3, <2>1, <2>2, <3>1
      <4> QED
        BY <1>1, <1>3, <2>1, <2>2, <3>1, <4>1, SharedTaking
    <3> QED
      BY <1>2, <3>1, <3>2
  <2>4. CASE TrimFirst
    <3>1. /\ Taking' /\ mpc' = "merge" /\ mpc = "head" /\ finder[cur].write # 0
          /\ taken' \in {0, 1}
      BY <2>1, <2>4 DEF TrimFirst, Taking, f0
    <3>5. \/ finder' = finder
          \/ finder' = [finder EXCEPT ![cur] = [finder[cur] EXCEPT !.data[0].n = @ - extra]]
      BY <2>4 DEF TrimFirst, f0, Become
    <3>2. PICK g : /\ g = finder'[t]
                   /\ g.pc = f.pc /\ g.start = f.start /\ g.pos = f.pos /\ g.copied = f.copied
                   /\ g.queue = f.queue /\ g.extra = f.extra /\ g.write = f.write
                   /\ g.read = f.read /\ g.done = f.done
      <4>1. CASE finder' = finder
        BY <1>2, <4>1
      <4>2. CASE finder' = [finder EXCEPT ![cur] = [finder[cur] EXCEPT !.data[0].n = @ - extra]]
        <5>1. PICK h : h = [finder[cur] EXCEPT !.data[0].n = @ - extra] /\ Become(cur, h)
          BY <4>2 DEF Become
        <5>2. finder'[cur] = h /\ \A u \in Finder : u # cur => finder'[u] = finder[u]
          BY <1>3, <5>1, OneFinder
        <5>3. CASE t = cur
          <6>1. /\ h.pc = f.pc /\ h.start = f.start /\ h.pos = f.pos /\ h.copied = f.copied
                /\ h.queue = f.queue /\ h.extra = f.extra /\ h.write = f.write
                /\ h.read = f.read /\ h.done = f.done
            <7>1. h = [f EXCEPT !.data[0].n = @ - extra]
              BY <1>2, <5>1, <5>3
            <7> QED
              BY <1>2, <7>1, TrimFields
          <6> QED
            BY <5>2, <5>3, <6>1
        <5>4. CASE t # cur
          BY <1>2, <5>2, <5>4
        <5> QED
          BY <5>3, <5>4
      <4> QED
        BY <3>5, <4>1, <4>2
    <3>3. Alone(t, g)
      BY <1>2, <3>2 DEF Alone
    <3>4. Shared(t, g)'
      <4>1. /\ t > cur' => g.start = StartOf(t)' /\ g.read = 0
            /\ t < cur' => g.pc = "ended"
            /\ t = cur' => g.read = 0
        BY <1>1, <1>3, <2>1, <2>2, <3>1, <3>2
      <4>2. t = cur' => g.pc \notin {"created", "ready"} /\ g.write # 0
        BY <1>2, <2>1, <3>1, <3>2 DEF Alone
      <4>3. InRing(g, 0) = f.write
        BY <1>3, <3>2 DEF InRing
      <4>4. t = cur' => Distance(FinderRing, g.read, taken') <= InRing(g, g.read)
        <5>1. taken' = 0 \/ taken' = 1
          BY <3>1
        <5> QED
          BY <1>3, <3>2, <4>1, <4>2, <4>3, <5>1
      <4> QED
        BY <1>1, <1>3, <2>1, <2>2, <3>1, <3>2, <4>1, <4>2, <4>4, SharedTaking
    <3> QED
      BY <3>2, <3>3, <3>4
  <2>5. CASE Discard
    <3>1. Heading' /\ mpc' = "drain" /\ finder' = finder /\ mpc = "head" /\ finder[cur].write # 0
      BY <2>5 DEF Discard, Heading, f0
    <3>2. t = cur' => f.pc \in {"scan", "ended"}
      BY <1>2, <2>1, <2>2, <3>1 DEF Alone, FinderType
    <3>3. Shared(t, f)'
      <4>1. /\ t >= cur' => f.start = StartOf(t)'
            /\ t >= cur' /\ ~(mpc' = "drain" /\ t = cur') => f.read = 0
            /\ t < cur' => f.pc = "ended"
        BY <1>1, <2>1, <2>2, <3>1
      <4> QED
        BY <1>1, <1>3, <2>1, <2>2, <3>1, <3>2, <4>1, SharedHeading
    <3> QED
      BY <1>2, <3>1, <3>3
  <2>6. CASE Drain
    <3>1. Heading' /\ mpc' = "drain" /\ mpc = "drain"
      BY <2>6 DEF Drain, Heading, mainVars
    <3>2. PICK h : h = [finder[cur] EXCEPT !.read = finder[cur].write] /\ Become(cur, h)
      BY <2>6 DEF Drain, f0, Become
    <3>3. finder'[cur] = h /\ \A u \in Finder : u # cur => finder'[u] = finder[u]
      BY <1>3, <3>2, OneFinder
    <3>4. CASE t = cur
      <4>1. h = [f EXCEPT !.read = f.write]
        BY <1>2, <3>2, <3>4
      <4>2. /\ h.pc = f.pc /\ h.start = f.start /\ h.pos = f.pos /\ h.copied = f.copied
            /\ h.queue = f.queue /\ h.extra = f.extra /\ h.write = f.write
            /\ h.done = f.done
        BY <1>2, <4>1, ReadFields
      <4>3. Alone(t, h)
        BY <1>2, <4>2 DEF Alone
      <4>4. Shared(t, h)'
        BY <1>1, <1>3, <2>1, <2>2, <3>1, <3>4, <4>2, SharedHeading
      <4> QED
        BY <3>3, <3>4, <4>3, <4>4
    <3>5. CASE t # cur
      <4>1. Shared(t, f)'
        <5>1. /\ t >= cur' => f.start = StartOf(t)' /\ f.read = 0
              /\ t < cur' => f.pc = "ended" /\ t # cur'
          BY <1>1, <2>1, <2>2, <3>1, <3>5
        <5> QED
          BY <1>1, <1>3, <2>1, <2>2, <3>1, <3>5, <5>1, SharedHeading
      <4> QED
        BY <1>2, <3>3, <3>5, <4>1
    <3> QED
      BY <3>4, <3>5
  <2>7. CASE Rerun
    <3>1. Taking' /\ mpc' = "merge" /\ taken' = 0 /\ mpc = "drain"
      BY <2>7 DEF Rerun, Taking
    <3>2. PICK h : /\ h = [finder[cur] EXCEPT !.pc = "created", !.start = @ + extra,
                                              !.done = FALSE, !.write = 0]
                   /\ Become(cur, h)
      BY <2>7 DEF Rerun, f0, Become
    <3>3. finder'[cur] = h /\ \A u \in Finder : u # cur => finder'[u] = finder[u]
      BY <1>3, <3>2, OneFinder
    <3>4. CASE t = cur
      <4>1. h = [f EXCEPT !.pc = "created", !.start = @ + extra, !.done = FALSE, !.write = 0]
        BY <1>2, <3>2, <3>4
      <4>2. h.pc = "created" /\ h.start = f.start + extra /\ h.write = 0 /\ h.done = FALSE
        BY <1>2, <4>1 DEF FinderType
      <4>3. h.start \in StartOf(t) .. StopOf(t)
        <5>1. StartOf(t) \in Nat /\ StopOf(t) \in Nat /\ extra \in Nat
          BY <1>3, <2>1, Regions DEF Types
        <5> QED
          BY <2>1, <2>2, <3>4, <4>2, <5>1, <1>3
      <4>4. Alone(t, h)
        BY <4>2, <4>3 DEF Alone
      <4>5. Shared(t, h)'
        BY <1>1, <1>3, <2>1, <3>1, <3>4, <4>2, SharedTaking
      <4> QED
        BY <3>3, <3>4, <4>4, <4>5
    <3>5. CASE t # cur
      <4>1. Shared(t, f)'
        <5>1. /\ t > cur' => f.start = StartOf(t)' /\ f.read = 0
              /\ t < cur' => f.pc = "ended" /\ t # cur'
          BY <1>1, <1>3, <2>1, <2>2, <3>1, <3>5
        <5> QED
          BY <1>1, <1>3, <2>1, <2>2, <3>1, <3>5, <5>1, SharedTaking
      <4> QED
        BY <1>2, <3>3, <3>5, <4>1
    <3> QED
      BY <3>4, <3>5
  <2> QED
    BY <1>5, <2>3, <2>4, <2>5, <2>6, <2>7
<1> QED
  BY <1>4, <1>5

(* What is taken is what the finder has written.                            *)
LEMMA TakenRange ==
  ASSUME NEW f \in FinderType, NEW x \in 0 .. FinderRing - 1, NEW u \in 0 .. FinderRing - 1,
         Distance(FinderRing, f.read, x) <= InRing(f, f.read),
         Distance(FinderRing, x, u) <= InRing(f, x), NEW n \in 0 .. Distance(FinderRing, x, u)
  PROVE  LET y == Onward(FinderRing, x, n)
         IN /\ y \in 0 .. FinderRing - 1 /\ n \in 0 .. InRing(f, x)
            /\ Distance(FinderRing, f.read, y) <= InRing(f, f.read)
            /\ Distance(FinderRing, y, u) <= InRing(f, y)
<1> DEFINE y == Onward(FinderRing, x, n)
<1>1. /\ FinderRing \in Nat \ {0} /\ f.write \in 0 .. FinderRing - 1
      /\ f.read \in 0 .. FinderRing - 1
      /\ Distance(FinderRing, f.read, x) \in 0 .. FinderRing - 1
      /\ Distance(FinderRing, x, u) \in 0 .. FinderRing - 1
      /\ InRing(f, x) \in 0 .. FinderRing - 1 /\ InRing(f, f.read) \in 0 .. FinderRing - 1
  <2>1. FinderRing \in Nat \ {0} /\ f.write \in 0 .. FinderRing - 1 /\ f.read \in 0 .. FinderRing - 1
    BY Sizes DEF FinderType
  <2> QED
    BY <2>1, RingRange, InRingRange
<1>2. /\ n \in Nat /\ n \in 0 .. InRing(f, x) /\ n \in 0 .. Distance(FinderRing, x, f.write)
  BY <1>1 DEF InRing
<1>3. InRing(f, x) = InRing(f, f.read) - Distance(FinderRing, f.read, x)
  BY <1>1, RingBetween DEF InRing
<1>4. Distance(FinderRing, f.read, x) + n < FinderRing
  BY <1>1, <1>2, <1>3
<1>5. y \in 0 .. FinderRing - 1 /\ Distance(FinderRing, f.read, y) = Distance(FinderRing, f.read, x) + n
  BY <1>1, <1>2, <1>4, RingLonger
<1>6. Distance(FinderRing, y, u) = Distance(FinderRing, x, u) - n
  BY <1>1, RingShorter
<1>7. Distance(FinderRing, y, f.write) = Distance(FinderRing, x, f.write) - n
  BY <1>1, <1>2, RingShorter
<1> HIDE DEF y
<1>8. InRing(f, y) = InRing(f, x) - n
  BY <1>7 DEF InRing
<1> QED
  BY <1>1, <1>2, <1>3, <1>5, <1>6, <1>8 DEF y

LEMMA TakeActions ==
  ASSUME Types, TakeBatch \/ TakeOne
  PROVE  /\ mpc = "take" /\ UNCHANGED <<finder, mpc, pos, copied, queue, extra, cur, upTo>>
         /\ \E n \in 1 .. Distance(FinderRing, taken, upTo) :
              Take(n) /\ taken' = Onward(FinderRing, taken, n)
<1>1. /\ FinderRing \in Nat \ {0} /\ taken \in 0 .. FinderRing - 1 /\ upTo \in 0 .. FinderRing - 1
      /\ Batch \in Nat \ {0}
  BY Sizes DEF Types
<1>2. Distance(FinderRing, taken, upTo) \in 0 .. FinderRing - 1
      /\ Waiting = Distance(FinderRing, taken, upTo)
  BY <1>1, RingRange DEF Waiting, Distance
<1>3. CASE TakeBatch
  <2>1. mpc = "take" /\ Waiting >= Batch /\ Take(Batch)
    BY <1>3 DEF TakeBatch
  <2>2. Batch \in 1 .. Distance(FinderRing, taken, upTo)
    BY <1>1, <1>2, <2>1
  <2> QED
    BY <2>1, <2>2 DEF Take, Onward
<1>4. CASE TakeOne
  <2>1. mpc = "take" /\ Waiting \in 1 .. Batch - 1 /\ Take(1)
    BY <1>4 DEF TakeOne
  <2>2. 1 \in 1 .. Distance(FinderRing, taken, upTo)
    BY <1>1, <1>2, <2>1
  <2> QED
    BY <2>1, <2>2 DEF Take, Onward
<1> QED
  BY <1>3, <1>4

LEMMA MainFindersTake ==
  ASSUME Types, Main, Finders, LookAtFinder \/ TakeBatch \/ TakeOne \/ ReleaseFinder \/ JoinFinder
                                 \/ PostEnd \/ JoinSubstitute,
         text' = text
  PROVE  Finders'
<1> SUFFICES ASSUME NEW t \in Finder
             PROVE  \E g : g = finder'[t] /\ Alone(t, g) /\ Shared(t, g)'
  BY FindersByEach
<1>1. Split' = Split /\ \A u : StartOf(u)' = StartOf(u)
  BY SameText
<1>2. PICK f : f = finder[t] /\ f \in FinderType /\ Alone(t, f) /\ Shared(t, f)
  BY DEF Types, Finders
<1>3. /\ t \in Nat /\ cur \in Nat /\ cur \in Finder /\ text \in Texts /\ t \in 1 .. Threads
      /\ Threads \in Nat /\ cur \in 1 .. Threads
      /\ taken \in 0 .. FinderRing - 1 /\ FinderRing \in Nat \ {0} /\ 0 \in 0 .. FinderRing - 1
      /\ upTo \in 0 .. FinderRing - 1
      /\ f.write \in 0 .. FinderRing - 1 /\ f.read \in 0 .. FinderRing - 1
  <2>1. /\ cur \in Finder /\ text \in Texts
        /\ taken \in 0 .. FinderRing - 1 /\ upTo \in 0 .. FinderRing - 1
    BY DEF Types
  <2>2. f.write \in 0 .. FinderRing - 1 /\ f.read \in 0 .. FinderRing - 1
    BY <1>2 DEF FinderType
  <2>3. /\ Threads \in Nat /\ FinderRing \in Nat \ {0} /\ 0 \in 0 .. FinderRing - 1
    BY Sizes
  <2>4. t \in Nat /\ cur \in Nat /\ t \in 1 .. Threads /\ cur \in 1 .. Threads
    BY <2>1, <2>3 DEF Finder
  <2> QED
    BY <2>1, <2>2, <2>3, <2>4
<1>4. CASE PostEnd \/ JoinSubstitute
  <2>1. mpc \in {"finish", "join"} /\ mpc' \in {"finish", "join", "end"} /\ finder' = finder
    BY <1>4 DEF PostEnd, JoinSubstitute
  <2>2. (f.pc = "none" <=> ~Split) /\ (Split => f.pc = "ended")
    BY <1>2, <2>1 DEF Shared, Over, Waits, Scanning, Heading, Taking
  <2>3. Shared(t, f)'
    BY <1>1, <2>1, <2>2, SharedOver
  <2> QED
    BY <1>2, <2>1, <2>3
<1>5. CASE LookAtFinder \/ TakeBatch \/ TakeOne \/ ReleaseFinder \/ JoinFinder
  <2>1. mpc \in {"merge", "take"}
    BY <1>5, TakeActions DEF LookAtFinder, ReleaseFinder, JoinFinder
  <2>2. Taking /\ ~Scanning /\ ~Heading /\ Split /\ extra = 0 /\ mpc # "create"
    BY <2>1 DEF Taking, Scanning, Heading, Main
  <2>3. /\ t < cur => f.pc = "ended"
        /\ t > cur => f.start = StartOf(t) /\ f.read = 0
        /\ f.pc # "none"
        /\ t = cur /\ f.pc \in {"created", "ready"} =>
             taken = 0 /\ (mpc = "take" => upTo = 0)
        /\ t = cur /\ f.pc \in {"scan", "ended"} =>
             /\ Distance(FinderRing, f.read, taken) <= InRing(f, f.read)
             /\ mpc = "take" => Distance(FinderRing, taken, upTo) <= InRing(f, taken)
    <3>1. (Waits(t) <=> t > cur) /\ (Over(t) <=> t < cur) /\ mpc # "drain"
      BY <1>3, <2>1, <2>2 DEF Waits, Over
    <3> QED
      BY <1>2, <2>2, <3>1 DEF Shared
  <2>4. CASE LookAtFinder
    <3>1. /\ Taking' /\ mpc' = "take" /\ finder' = finder /\ taken' = taken /\ cur' = cur
          /\ upTo' = finder[cur].write
      BY <2>4 DEF LookAtFinder, Taking, f0
    <3>2. t = cur /\ f.pc \in {"created", "ready"} => taken' = 0 /\ upTo' = 0
      BY <1>2, <2>3, <3>1 DEF Alone
    <3>3. t = cur => Distance(FinderRing, taken', upTo') <= InRing(f, taken')
      <4>1. InRing(f, taken) \in Nat
        BY <1>2, <1>3, InRingRange
      <4> QED
        BY <1>2, <3>1, <4>1 DEF InRing
    <3>4. Shared(t, f)'
      BY <1>1, <1>3, <2>2, <2>3, <3>1, <3>2, <3>3, SharedTaking
    <3> QED
      BY <1>2, <3>1, <3>4
  <2>5. CASE TakeBatch \/ TakeOne
    <3>1. PICK n \in 1 .. Distance(FinderRing, taken, upTo) :
            taken' = Onward(FinderRing, taken, n)
      BY <2>5, TakeActions
    <3>2. /\ Taking' /\ mpc' = "take" /\ mpc = "take" /\ finder' = finder /\ upTo' = upTo
          /\ cur' = cur
      BY <2>5, TakeActions DEF Taking
    <3>3. ~(t = cur /\ f.pc \in {"created", "ready"})
      <4>1. SUFFICES ASSUME taken = 0, upTo = 0 PROVE FALSE
        BY <2>3, <3>2
      <4>2. Distance(FinderRing, taken, upTo) = 0
        BY <1>3, <4>1, RingSelf
      <4> QED
        BY <3>1, <4>2
    <3>4. t = cur /\ f.pc \in {"scan", "ended"} =>
            /\ Distance(FinderRing, f.read, taken') <= InRing(f, f.read)
            /\ Distance(FinderRing, taken', upTo') <= InRing(f, taken')
      <4> SUFFICES ASSUME t = cur, f.pc \in {"scan", "ended"}
                   PROVE  /\ Distance(FinderRing, f.read, taken') <= InRing(f, f.read)
                          /\ Distance(FinderRing, taken', upTo') <= InRing(f, taken')
        OBVIOUS
      <4>1. n \in 0 .. Distance(FinderRing, taken, upTo)
        BY <1>3, RingRange
      <4>2. /\ Distance(FinderRing, f.read, taken) <= InRing(f, f.read)
            /\ Distance(FinderRing, taken, upTo) <= InRing(f, taken)
        BY <2>3, <3>2
      <4> QED
        BY <1>2, <1>3, <3>1, <3>2, <4>1, <4>2, TakenRange
    <3>5. Shared(t, f)'
      BY <1>1, <1>3, <2>2, <2>3, <3>2, <3>3, <3>4, SharedTaking
    <3> QED
      BY <1>2, <3>2, <3>5
  <2>6. CASE ReleaseFinder
    <3>1. Taking' /\ mpc' = "merge" /\ taken' = taken /\ cur' = cur
      BY <2>6 DEF ReleaseFinder, Taking
    <3>2. PICK h : h = [finder[cur] EXCEPT !.read = taken] /\ Become(cur, h)
      BY <2>6 DEF ReleaseFinder, f0, Become
    <3>3. finder'[cur] = h /\ \A u \in Finder : u # cur => finder'[u] = finder[u]
      BY <1>3, <3>2, OneFinder
    <3>4. CASE t = cur
      <4>1. h = [f EXCEPT !.read = taken]
        BY <1>2, <3>2, <3>4
      <4>2. /\ h.pc = f.pc /\ h.start = f.start /\ h.pos = f.pos /\ h.copied = f.copied
            /\ h.queue = f.queue /\ h.extra = f.extra /\ h.write = f.write
            /\ h.done = f.done /\ h.read = taken
        BY <1>2, <4>1, ReadFields
      <4>3. Alone(t, h)
        BY <1>2, <4>2 DEF Alone
      <4>4. Distance(FinderRing, h.read, taken') <= InRing(h, h.read)
        <5>1. Distance(FinderRing, taken, taken) = 0
          BY <1>3, RingSelf
        <5>2. InRing(h, taken) \in Nat
          <6>1. InRing(f, taken) \in Nat
            BY <1>2, <1>3, InRingRange
          <6> QED
            BY <4>2, <6>1 DEF InRing
        <5> QED
          BY <3>1, <4>2, <5>1, <5>2
      <4>5. Shared(t, h)'
        BY <1>1, <1>3, <2>2, <2>3, <3>1, <3>4, <4>2, <4>4, SharedTaking
      <4> QED
        BY <3>3, <3>4, <4>3, <4>5
    <3>5. CASE t # cur
      <4>1. Shared(t, f)'
        <5>1. /\ t > cur' => f.start = StartOf(t)' /\ f.read = 0
              /\ t < cur' => f.pc = "ended" /\ t # cur'
          BY <1>1, <2>3, <3>1, <3>5
        <5> QED
          BY <1>1, <1>3, <2>2, <2>3, <3>1, <3>5, <5>1, SharedTaking
      <4> QED
        BY <1>2, <3>3, <3>5, <4>1
    <3> QED
      BY <3>4, <3>5
  <2>7. CASE JoinFinder
    <3>1. /\ finder' = finder /\ finder[cur].done
          /\ cur < Threads => cur' = cur + 1 /\ mpc' = "head"
          /\ ~(cur < Threads) => cur' = cur /\ mpc' = "finish"
      BY <2>7 DEF JoinFinder, f0
    <3>2. t <= cur => f.pc = "ended"
      <4>1. t = cur => f.done = TRUE
        BY <1>2, <3>1 DEF FinderType
      <4>2. t = cur => f.pc = "ended"
        BY <1>2, <4>1 DEF Alone
      <4> QED
        BY <1>3, <2>3, <4>2
    <3>3. CASE cur < Threads
      <4>1. Heading' /\ cur' = cur + 1 /\ mpc' = "head"
        BY <3>1, <3>3 DEF Heading
      <4>2. /\ t >= cur' => f.start = StartOf(t)' /\ f.read = 0
            /\ t < cur' => f.pc = "ended"
        BY <1>1, <1>3, <2>3, <3>2, <4>1
      <4>3. Shared(t, f)'
        BY <1>1, <1>3, <2>2, <2>3, <4>1, <4>2, SharedHeading
      <4> QED
        BY <1>2, <3>1, <4>3
    <3>4. CASE ~(cur < Threads)
      <4>1. f.pc = "ended"
        BY <1>3, <3>2, <3>4
      <4>2. Shared(t, f)'
        BY <1>1, <2>2, <3>1, <3>4, <4>1, SharedOver
      <4> QED
        BY <1>2, <3>1, <4>2
    <3> QED
      BY <3>3, <3>4
  <2> QED
    BY <1>5, <2>4, <2>5, <2>6, <2>7
<1> QED
  BY <1>4, <1>5

LEMMA MainFinders ==
  ASSUME Types, Main, Finders, MainStep
  PROVE  Finders'
BY MainFindersScan, MainFindersHead, MainFindersTake DEF MainStep

-------------------------------------------------------------------------------
(* What main knows of its scan.                                             *)
LEMMA MainMain ==
  ASSUME Types, Main, Finders, NEW a \in Place, NEW b \in Place, Positions(a, b), MainStep
  PROVE  Main'
<1>1. /\ text' = text /\ L' = L /\ Split' = Split /\ Stop0' = Stop0 /\ Block' = Block
      /\ \A t : StartOf(t)' = StartOf(t) /\ StopOf(t)' = StopOf(t)
  BY SameText DEF MainStep
<1>2. /\ text \in Texts /\ pos \in Nat /\ copied \in Nat /\ extra \in Nat /\ cur \in Finder
      /\ copied \in Nat /\ cur \in 1 .. Threads /\ Threads \in Nat
      /\ L \in Nat /\ Block \in Nat /\ Stop0 \in 1 .. L + 1 /\ 1 \in Finder
      /\ queue \in Seq(Command)
  BY TextLength, Sizes DEF Types, Finder
<1>3. /\ WithinRegion(pos, copied, Stop0)
      /\ mpc \in {"create", "await"} => pos = 1 /\ copied = 0 /\ queue = <<>>
      /\ Scanning => cur = 1
      /\ Heading \/ Taking => Split
      /\ Heading => StartOf(cur) + extra <= StopOf(cur)
      /\ ~Heading => extra = 0
      /\ ~Taking => taken = 0
  BY DEF Main
<1>4. ASSUME UNCHANGED <<pos, copied>> PROVE WithinRegion(pos, copied, Stop0)'
  BY <1>1, <1>3, <1>4 DEF WithinRegion
<1>5. CASE CreateThreads \/ AwaitSubstitute
  <2>1. /\ Scanning /\ Scanning' /\ ~Heading /\ ~Heading' /\ ~Taking /\ ~Taking'
        /\ mpc \in {"create", "await"} /\ UNCHANGED <<pos, copied, queue, cur, extra, taken>>
    BY <1>5 DEF CreateThreads, AwaitSubstitute, Scanning, Heading, Taking
  <2> QED
    BY <1>3, <1>4, <2>1 DEF Main
<1>6. CASE ScanOwn
  <2>1. /\ mpc = "scan" /\ mpc' = mpc /\ pos < Stop0
        /\ UNCHANGED <<cur, extra, taken>>
    BY <1>6 DEF ScanOwn
  <2>2. PICK turn \in Turns(pos, copied) :
          pos' = turn.pos /\ copied' = turn.copied /\ queue' = turn.queue
    BY <1>6 DEF ScanOwn
  <2>3. Scanning /\ Scanning' /\ ~Heading /\ ~Heading' /\ ~Taking /\ ~Taking'
    BY <2>1 DEF Scanning, Heading, Taking
  <2>4. out <= pos /\ out \in Nat \ {0} /\ Rewrote(text, buf, out, a[1])
    BY <2>3, Readers DEF Types, Positions
  <2>5. Turned(text, pos, copied, turn)
    BY <1>2, <2>2, <2>4, TurnsOfText
  <2>6. WithinRegion(turn.pos, turn.copied, Stop0)
    <3>1. Split \/ Stop0 = L + 1
      BY DEF Stop0
    <3> QED
      BY <1>2, <1>3, <2>1, <2>5, <3>1, TurnWithin
  <2>7. WithinRegion(pos, copied, Stop0)'
    BY <1>1, <2>2, <2>6 DEF WithinRegion
  <2>8. \/ queue' = <<>>
        \/ \E c \in Nat \ {0} : queue' = <<Copy(c)>>
        \/ \E c \in Nat, s \in DOMAIN Rules : queue' = Commands(c, s)
    <3>1. \A s \in RuleAt(text, pos) : s \in DOMAIN Rules
      BY DEF RuleAt
    <3>2. copied + 1 \in Nat \ {0}
      BY <1>2
    <3> QED
      BY <1>2, <2>2, <2>5, <3>1, <3>2 DEF Turned
  <2> QED
    BY <1>3, <2>1, <2>3, <2>7, <2>8 DEF Main
<1>7. CASE PostCopy \/ PostPair
  <2>1. /\ mpc = "scan" /\ mpc' = mpc /\ queue # <<>>
        /\ UNCHANGED <<pos, copied, cur, extra, taken>>
        /\ PostCopy => Head(queue).do = "copy" /\ queue' = Tail(queue)
        /\ ~PostCopy => queue' = <<>>
    BY <1>7 DEF PostCopy, PostPair
  <2>2. Scanning /\ Scanning' /\ ~Heading /\ ~Heading' /\ ~Taking /\ ~Taking'
    BY <2>1 DEF Scanning, Heading, Taking
  <2>3. \/ queue' = <<>>
        \/ \E c \in Nat, s \in DOMAIN Rules : queue' = Commands(c, s)
    <3>1. Head(queue).do = "copy" =>
            Tail(queue) = <<>> \/ \E s \in DOMAIN Rules : Tail(queue) = Commands(0, s)
      BY <2>1, QueueShape
    <3> QED
      BY <2>1, <3>1
  <2> QED
    BY <1>3, <1>4, <2>1, <2>2, <2>3 DEF Main
<1>8. CASE EndScan
  <2>1. /\ mpc = "scan" /\ queue = <<>> /\ pos >= Stop0 /\ extra' = pos - Stop0
        /\ UNCHANGED <<pos, copied, queue, cur, taken>>
        /\ Split => mpc' = "head"
        /\ ~Split => mpc' = "finish"
    BY <1>8 DEF EndScan
  <2>2. Scanning /\ ~Scanning' /\ ~Heading /\ ~Taking /\ ~Taking' /\ mpc' \notin {"create", "await"}
        /\ (Heading' <=> Split) /\ cur = 1
    BY <1>3, <2>1 DEF Scanning, Heading, Taking
  <2>3. Split => StartOf(cur) + extra' <= StopOf(cur)
    <3> SUFFICES ASSUME Split PROVE StartOf(cur) + extra' <= StopOf(cur)
      OBVIOUS
    <3>1. /\ StartOf(cur) = Stop0 /\ StartOf(cur) + Block <= StopOf(cur)
          /\ StopOf(cur) \in Nat
      BY <1>2, <2>2, Regions
    <3>2. pos <= Stop0 + Block
      BY <1>3 DEF WithinRegion
    <3> QED
      BY <1>2, <2>1, <3>1, <3>2
  <2>4. ~Split => extra' = 0
    BY <1>2, <1>3, <2>1 DEF WithinRegion, Stop0
  <2>5. StartOf(cur)' = StartOf(cur) /\ StopOf(cur)' = StopOf(cur)
    BY <1>1, <2>1
  <2> QED
    BY <1>1, <1>3, <1>4, <2>1, <2>2, <2>3, <2>4, <2>5 DEF Main
<1>9. CASE HeadAligned \/ TrimFirst \/ Rerun
  <2>1. /\ Heading /\ Taking' /\ ~Heading' /\ ~Scanning' /\ mpc' \notin {"create", "await"}
        /\ UNCHANGED <<pos, copied, queue, cur>> /\ extra' = 0
    BY <1>9 DEF HeadAligned, TrimFirst, Rerun, Heading, Taking, Scanning
  <2> QED
    BY <1>1, <1>3, <1>4, <2>1 DEF Main
<1>10. CASE Discard \/ Drain
  <2>1. /\ Heading /\ Heading' /\ ~Taking /\ ~Taking' /\ ~Scanning'
        /\ mpc' \notin {"create", "await"}
        /\ UNCHANGED <<pos, copied, queue, cur, extra, taken>>
    BY <1>10 DEF Discard, Drain, Heading, Taking, Scanning, mainVars
  <2>2. StartOf(cur)' = StartOf(cur) /\ StopOf(cur)' = StopOf(cur)
    BY <1>1, <2>1
  <2> QED
    BY <1>1, <1>3, <1>4, <2>1, <2>2 DEF Main
<1>11. CASE LookAtFinder \/ TakeBatch \/ TakeOne \/ ReleaseFinder
  <2>1. /\ mpc \in {"merge", "take"} /\ mpc' \in {"merge", "take"}
        /\ UNCHANGED <<pos, copied, queue, cur, extra>>
    BY <1>11, TakeActions DEF LookAtFinder, ReleaseFinder
  <2>2. Taking /\ Taking' /\ ~Heading /\ ~Heading' /\ ~Scanning /\ ~Scanning'
    BY <2>1 DEF Heading, Taking, Scanning
  <2> QED
    BY <1>1, <1>3, <1>4, <2>1, <2>2 DEF Main
<1>12. CASE JoinFinder
  <2>1. /\ mpc = "merge" /\ finder[cur].done /\ extra' = extra + finder[cur].extra
        /\ cur < Threads => cur' = cur + 1 /\ mpc' = "head"
        /\ ~(cur < Threads) => cur' = cur /\ mpc' = "finish"
        /\ taken' = 0 /\ UNCHANGED <<pos, copied, queue>>
    BY <1>12 DEF JoinFinder, f0
  <2>2. Taking /\ Split /\ ~Taking' /\ ~Scanning' /\ (Heading' <=> cur < Threads) /\ ~Heading
        /\ mpc' \notin {"create", "await"}
    BY <1>3, <2>1 DEF Taking, Scanning, Heading
  <2>3. PICK f : f = finder[cur] /\ f \in FinderType /\ Alone(cur, f)
    BY <1>2 DEF Types, Finders
  <2>4. f.pc = "ended"
    <3>1. f.done = TRUE
      BY <2>1, <2>3 DEF FinderType
    <3> QED
      BY <2>3, <3>1 DEF Alone
  <2>5. WithinRegion(f.pos, f.copied, StopOf(cur)) /\ f.pos >= StopOf(cur)
        /\ extra' = f.pos - StopOf(cur)
    <3>1. f.extra = f.pos - StopOf(cur) /\ f.extra \in Nat /\ extra = 0
      BY <1>3, <2>2, <2>3, <2>4 DEF Alone, FinderType
    <3> QED
      BY <2>1, <2>3, <2>4, <3>1 DEF Alone
  <2>6. cur < Threads => StartOf(cur + 1) + extra' <= StopOf(cur + 1)
    <3> SUFFICES ASSUME cur < Threads PROVE StartOf(cur + 1) + extra' <= StopOf(cur + 1)
      OBVIOUS
    <3>1. cur + 1 \in Finder
      BY <1>2 DEF Finder
    <3>2. /\ StopOf(cur) = StartOf(cur + 1) /\ StopOf(cur) \in Nat
      BY <1>2, <2>2, Regions
    <3>3. StartOf(cur + 1) + Block <= StopOf(cur + 1) /\ StopOf(cur + 1) \in Nat
      BY <1>2, <2>2, <3>1, Regions
    <3> QED
      BY <1>2, <2>5, <3>2, <3>3 DEF WithinRegion
  <2>7. ~(cur < Threads) => extra' = 0
    <3> SUFFICES ASSUME ~(cur < Threads) PROVE extra' = 0
      OBVIOUS
    <3>1. StopOf(cur) = L + 1
      <4>1. cur = Threads
        BY <1>2
      <4> QED
        BY <4>1 DEF StopOf
    <3> QED
      BY <1>2, <2>5, <3>1 DEF WithinRegion
  <2>8. cur < Threads => StartOf(cur)' = StartOf(cur + 1) /\ StopOf(cur)' = StopOf(cur + 1)
    BY <1>1, <2>1
  <2> QED
    BY <1>1, <1>3, <1>4, <2>1, <2>2, <2>6, <2>7, <2>8 DEF Main
<1>13. CASE PostEnd \/ JoinSubstitute
  <2>1. /\ mpc \in {"finish", "join"} /\ mpc' \in {"join", "end"}
        /\ UNCHANGED <<pos, copied, queue, cur, extra, taken>>
    BY <1>13 DEF PostEnd, JoinSubstitute
  <2>2. ~Taking /\ ~Taking' /\ ~Heading /\ ~Heading' /\ ~Scanning'
    BY <2>1 DEF Heading, Taking, Scanning
  <2> QED
    BY <1>1, <1>3, <1>4, <2>1, <2>2 DEF Main
<1> QED
  BY <1>5, <1>6, <1>7, <1>8, <1>9, <1>10, <1>11, <1>12, <1>13 DEF MainStep

-------------------------------------------------------------------------------
(* What the steps keep of the commands' places.                             *)
LEMMA MainAtStill ==
  ASSUME UNCHANGED <<text, queue, pos, copied, mpc, cur, extra>>
  PROVE  /\ \A b : MainAt(b)' <=> MainAt(b)
         /\ Frontier' = Frontier
<1>1. /\ L' = L /\ Stop0' = Stop0 /\ \A t : StartOf(t)' = StartOf(t) /\ StopOf(t)' = StopOf(t)
  BY SameText
<1> QED
  BY <1>1 DEF MainAt, Frontier, Scanning, Heading

LEMMA FinderAtStill ==
  ASSUME UNCHANGED <<text, mpc, cur, taken>>
  PROVE  \A t, f, b : FinderAt(t, f, b)' <=> FinderAt(t, f, b)
<1>1. /\ \A t : StopOf(t)' = StopOf(t)
      /\ \A t : Waits(t)' <=> Waits(t)
      /\ Taking' = Taking
  BY SameText DEF Waits, Scanning, Heading, Taking
<1> QED
  BY <1>1 DEF FinderAt

LEMMA PositionsAfter ==
  ASSUME text' = text, NEW a \in Place, NEW b \in Place, ThreadAt(a)', MainAt(b)',
         Run(text, Pending', Ahead', a, b, Frontier'),
         1 <= out', out' <= a[1], out' <= Frontier',
         Rewrote(text, buf', out', a[1]),
         \A t \in Finder : \E g : g = finder'[t] /\ FinderAt(t, g, b)'
  PROVE  Meaning'
<1>1. ASSUME NEW t \in Finder PROVE FinderAt(t, finder[t], b)'
  <2>1. PICK g : g = finder'[t] /\ FinderAt(t, g, b)'
    OBVIOUS
  <2> QED
    BY <2>1
<1>2. Positions(a, b)'
  BY <1>1 DEF Positions, Finder
<1> QED
  BY <1>2 DEF Meaning

(* What the thread obeys has been posted.                                   *)
LEMMA NotPosted ==
  ASSUME Types, Indices, mpc \notin {"create", "await"}, next # seen
  PROVE  next # posted
<1>1. Since(next) # Since(seen) /\ Since(next) \in Nat /\ Since(seen) \in Nat
      /\ Since(posted) \in Nat /\ Since(wrote) \in Nat
  BY SinceRange
<1>2. Since(next) <= Since(seen) /\ Since(seen) <= Since(wrote) /\ Since(wrote) <= Since(posted)
  BY DEF Indices
<1>3. Since(next) # Since(posted)
  BY <1>1, <1>2
<1> QED
  BY <1>3

LEMMA SubstituteMeaning ==
  ASSUME Types, Indices, Main, Finders, NEW a \in Place, NEW b \in Place, Positions(a, b),
         SubstituteStep
  PROVE  Meaning'
<1>1. /\ UNCHANGED <<text, finder, ring, pos, copied, queue, extra, cur, taken, upTo, posted,
                     wrote, mpc>>
  BY DEF SubstituteStep, mainVars
<1>2. /\ MainAt(b)' /\ Frontier' = Frontier
      /\ \A t \in Finder : \E g : g = finder'[t] /\ FinderAt(t, g, b)'
  <2>1. MainAt(b) /\ \A t \in Finder : FinderAt(t, finder[t], b)
    BY DEF Positions
  <2>2. MainAt(b)' /\ Frontier' = Frontier
    BY <1>1, <2>1, MainAtStill
  <2>3. ASSUME NEW t \in Finder PROVE FinderAt(t, finder[t], b)'
    <3>1. PICK g : g = finder[t] /\ FinderAt(t, g, b)
      BY <2>1
    <3>2. FinderAt(t, g, b)'
      BY <1>1, <3>1, FinderAtStill
    <3> QED
      BY <1>1, <3>1, <3>2
  <2>4. ASSUME NEW t \in Finder PROVE \E g : g = finder'[t] /\ FinderAt(t, g, b)'
    BY <2>3
  <2> QED
    BY <2>2, <2>4
<1>3. /\ ThreadAt(a) /\ Run(text, Pending, Ahead, a, b, Frontier)
      /\ 1 <= out /\ out <= a[1] /\ out <= Frontier /\ Rewrote(text, buf, out, a[1])
      /\ text \in Texts /\ out \in Nat \ {0} /\ a[1] \in Nat /\ a[2] \in Nat
      /\ L \in Nat /\ L = Len(text) /\ Frontier \in Nat /\ old \in Nat
      /\ ring[next] \in Command /\ L' = L
  <2>1. text \in Texts /\ cur \in Finder /\ (Heading \/ Taking => Split)
    BY DEF Types, Main
  <2>2. next \in 0 .. Ring - 1 /\ ring \in [0 .. Ring - 1 -> Command]
    BY DEF Types
  <2>3. L \in Nat /\ L' = L /\ Frontier \in Nat
    BY <1>1, <2>1, SameText, TextLength, FrontierBound
  <2>4. L = Len(text)
    BY DEF L
  <2>5. a[1] \in Nat /\ a[2] \in Nat /\ out \in Nat /\ old \in Nat
    BY DEF Place, Types
  <2>6. /\ ThreadAt(a) /\ Run(text, Pending, Ahead, a, b, Frontier)
        /\ 1 <= out /\ out <= a[1] /\ out <= Frontier /\ Rewrote(text, buf, out, a[1])
    BY DEF Positions
  <2> QED
    BY <2>1, <2>2, <2>3, <2>4, <2>5, <2>6
<1>4. CASE next' = next
  <2>1. Pending' = Pending /\ Ahead' = Ahead
    BY <1>1, <1>4 DEF Pending, Ahead, Ring
  <2>2. Run(text, Pending', Ahead', a, b, Frontier')
    BY <1>2, <1>3, <2>1
  <2>3. UNCHANGED <<old, out, buf>>
        /\ (spc \in {"put", "half"} <=> spc' \in {"put", "half"})
        /\ spc' # "ended" /\ spc # "ended"
    <3>1. ~CopySymbols /\ ~SkipSymbols /\ ~PutSymbol /\ ~EndSubstitute
      <4>1. next \in 0 .. Ring - 1 /\ Ring > 1 /\ Ring \in Nat
        BY Sizes DEF Types
      <4>2. (next + 1) % Ring # next
        BY <4>1, Sizes, ModPlus
      <4> QED
        BY <1>4, <4>2 DEF CopySymbols, SkipSymbols, PutSymbol, EndSubstitute
    <3> QED
      BY <3>1 DEF SubstituteStep, StartSubstitute, Look, AwaitSymbol, ReleaseBatch
  <2>4. ThreadAt(a)'
    BY <1>1, <1>3, <2>3 DEF ThreadAt
  <2> QED
    BY <1>1, <1>2, <1>3, <2>2, <2>3, <2>4, PositionsAfter
<1>5. CASE StartSubstitute
  <2>1. next' = next
    BY <1>5 DEF StartSubstitute, Indices
  <2> QED
    BY <1>4, <2>1
<1>6. CASE Look \/ AwaitSymbol \/ ReleaseBatch
  BY <1>4, <1>6 DEF Look, AwaitSymbol, ReleaseBatch
<1>7. CASE CopySymbols \/ SkipSymbols \/ PutSymbol \/ EndSubstitute
  <2>1. /\ next # seen /\ next' = Onward(Ring, next, 1) /\ spc \in {"obey", "put"}
        /\ mpc \notin {"create", "await"}
    <3>1. spc \in {"obey", "put"} /\ next' = (next + 1) % Ring
      BY <1>7 DEF CopySymbols, SkipSymbols, PutSymbol, EndSubstitute
    <3>2. spc = "obey" => next # seen
      BY <1>7 DEF CopySymbols, SkipSymbols, PutSymbol, EndSubstitute
    <3> QED
      BY <3>1, <3>2 DEF Indices, Onward
  <2>2. next # posted
    BY <2>1, NotPosted
  <2>3. PICK c \in Place : /\ Follows(text, ring[next], a, c, Frontier)
                           /\ Run(text, Pending', Ahead', c, b, Frontier)
    BY <1>1, <1>3, <2>1, <2>2, Obeyed
  <2>4. c[1] \in Nat /\ c[2] \in Nat
    BY DEF Place
  <2>5. CASE CopySymbols
    <3>1. PICK n : /\ n = ring[next].n /\ ring[next].do = "copy"
                   /\ buf' = [k \in 1 .. L |-> IF k \in out .. out + n - 1
                                                 THEN buf[k - out + old] ELSE buf[k]]
                   /\ out' = out + n /\ old' = old + n /\ spc = "obey" /\ spc' = "obey"
      BY <2>5 DEF CopySymbols
    <3>2. old = a[1] /\ a[2] = 0
      BY <1>3, <3>1 DEF ThreadAt
    <3>3. /\ n \in Nat \ {0} /\ c = <<a[1] + n, 0>> /\ c[1] <= Len(text) + 1
          /\ c[1] <= Frontier /\ NoRule(text, a[1], c[1])
      BY <2>3, <3>1 DEF Follows
    <3>4. c[1] = a[1] + n /\ c[2] = 0
      BY <3>3
    <3>5. Rewrote(text, buf', out', c[1])
      <4>1. NoRule(text, a[1], a[1] + n) /\ a[1] + n <= Len(text) + 1 /\ n \in Nat
        BY <3>3, <3>4
      <4>2. buf' = [k \in 1 .. Len(text) |-> IF k \in out .. out + n - 1
                                               THEN buf[k - out + a[1]] ELSE buf[k]]
        BY <1>3, <3>1, <3>2
      <4>3. Rewrote(text, buf', out + n, a[1] + n)
        BY <1>3, <4>1, <4>2, RewroteCopy
      <4> QED
        BY <3>1, <3>4, <4>3
    <3>6. ThreadAt(c)'
      BY <1>3, <3>1, <3>2, <3>3, <3>4 DEF ThreadAt
    <3>7. 1 <= out' /\ out' <= c[1] /\ out' <= Frontier'
      <4>1. /\ out \in Nat /\ a[1] \in Nat /\ 1 <= out /\ out <= a[1]
            /\ Frontier \in Nat /\ Frontier' = Frontier
        BY <1>2, <1>3
      <4>2. c[1] <= Frontier' /\ c[1] = a[1] + n /\ out' = out + n /\ n \in Nat
        BY <4>1, <3>1, <3>3, <3>4
      <4>3. out' <= c[1] /\ 1 <= out'
        BY <4>1, <4>2
      <4> QED
        BY <4>1, <4>2, <4>3
    <3> QED
      BY <1>1, <1>2, <2>3, <3>5, <3>6, <3>7, PositionsAfter
  <2>6. CASE SkipSymbols
    <3>1. /\ ring[next].do = "skip" /\ old' = old + ring[next].n /\ spc = "obey"
          /\ UNCHANGED <<out, buf>> /\ spc' \in {"put", "half"}
      BY <2>6 DEF SkipSymbols
    <3>2. old = a[1] /\ a[2] = 0
      BY <1>3, <3>1 DEF ThreadAt
    <3>3. PICK s \in RuleAt(text, a[1]) : ring[next].n = Len(Rules[s]) /\ c = <<a[1], ring[next].n>>
      BY <2>3, <3>1 DEF Follows
    <3>4. c[1] = a[1] /\ c[2] = Len(Rules[s]) /\ Len(Rules[s]) # 0
      BY <1>3, <3>3, RuleLength
    <3>5. ThreadAt(c)'
      BY <1>1, <3>1, <3>2, <3>3, <3>4 DEF ThreadAt
    <3> QED
      BY <1>1, <1>2, <1>3, <2>3, <3>1, <3>4, <3>5, PositionsAfter
  <2>7. CASE PutSymbol
    <3>1. PICK s : /\ s = ring[next].symbol /\ spc = "put" /\ spc' = "obey"
                   /\ buf' = [buf EXCEPT ![out] = s] /\ out' = out + 1 /\ old' = old
      BY <2>7 DEF PutSymbol
    <3>2. a[2] # 0 /\ old = a[1] + a[2]
      BY <1>3, <3>1 DEF ThreadAt
    <3>3. a # <<Len(text) + 1, 0>>
      BY <3>2
    <3>4. /\ s \in RuleAt(text, a[1]) /\ a[2] = Len(Rules[s]) /\ c = <<a[1] + a[2], 0>>
          /\ a[1] < Frontier
      BY <2>3, <3>1, <3>2, <3>3 DEF Follows
    <3>5. c[1] = a[1] + a[2] /\ c[2] = 0 /\ a[2] > 1 /\ c[1] <= L + 1
      BY <1>3, <3>4, RuleLength
    <3>6. Rewrote(text, buf', out', c[1])
      <4>1. Rewrote(text, buf', out + 1, a[1] + Len(Rules[s]))
        BY <1>3, <3>1, <3>4, RewrotePut
      <4> QED
        BY <3>1, <3>4, <3>5, <4>1
    <3>7. ThreadAt(c)'
      BY <1>3, <3>1, <3>2, <3>5 DEF ThreadAt
    <3>8. 1 <= out' /\ out' <= c[1] /\ out' <= Frontier'
      BY <1>2, <1>3, <3>1, <3>4, <3>5
    <3> QED
      BY <1>1, <1>2, <2>3, <3>6, <3>7, <3>8, PositionsAfter
  <2>8. CASE EndSubstitute
    <3>1. ring[next].do = "end" /\ spc = "obey" /\ spc' = "ended" /\ UNCHANGED <<old, out, buf>>
      BY <2>8 DEF EndSubstitute
    <3>2. a = <<Len(text) + 1, 0>> /\ c = <<Len(text) + 1, 1>>
      BY <2>3, <3>1 DEF Follows
    <3>3. c[1] = a[1] /\ c[1] = L + 1 /\ old = a[1]
      BY <1>3, <3>1, <3>2 DEF ThreadAt
    <3>4. ThreadAt(c)'
      BY <1>3, <3>1, <3>2, <3>3 DEF ThreadAt
    <3> QED
      BY <1>1, <1>2, <1>3, <2>3, <3>1, <3>3, <3>4, PositionsAfter
  <2> QED
    BY <1>7, <2>5, <2>6, <2>7, <2>8
<1> QED
  BY <1>5, <1>6, <1>7 DEF SubstituteStep

LEMMA CopyScanned ==
  ASSUME NEW t \in Texts, NEW p \in Nat, NEW c \in Nat \ {0}, NEW z \in Place, NEW f \in Nat,
         c <= p, p <= f, p <= Len(t) + 1, Scanned(t, <<>>, p, c, z, f)
  PROVE  Scanned(t, <<Copy(c)>>, p, 0, z, f)
<1>1. z = <<p - c, 0>> /\ NoRule(t, p - c, p)
  BY ScannedNothing
<1>2. Follows(t, Copy(c), z, <<p, 0>>, f)
  BY <1>1, FollowsCopy
<1>3. p - 0 = p /\ 0 \in Nat /\ 0 <= p /\ NoRule(t, p, p)
  BY DEF NoRule
<1>4. Copy(c) \in Command
  BY DEF Copy, Command
<1>5. Follows(t, Copy(c), z, <<p - 0, 0>>, f) /\ NoRule(t, p - 0, p)
  BY <1>2, <1>3
<1> QED
  BY <1>3, <1>4, <1>5, ScannedOne

LEMMA FoundNothing ==
  ASSUME NEW t \in Texts, NEW f \in FinderType, f.write = 0, f.queue = <<>>, f.copied = 0,
         NEW stop
  PROVE  Found(t, f, 0, <<f.pos, 0>>, stop)
<1>1. f.pos \in Nat /\ f.pos - 0 = f.pos /\ 0 <= f.pos /\ NoRule(t, f.pos, f.pos)
  BY DEF FinderType, NoRule
<1>2. InRing(f, 0) = 0
  BY Sizes, FromZero DEF InRing
<1>3. <<f.pos, 0>> \in Place
  BY <1>1 DEF Place
<1>4. Run(t, Slots(f, 0), 0, <<f.pos, 0>>, <<f.pos, 0>>, stop)
  BY <1>3, RunEmpty
<1>5. Scanned(t, <<>>, f.pos, 0, <<f.pos, 0>>, stop)
  <2>1. <<f.pos, 0>> = <<f.pos - 0, 0>> /\ NoRule(t, f.pos - 0, f.pos) /\ 0 \in Nat
    BY <1>1
  <2> QED
    BY <1>1, <2>1, ScannedNothing
<1> QED
  BY <1>2, <1>3, <1>4, <1>5 DEF Found

(* A finder goes on from what it has found.                                 *)
LEMMA FoundStep ==
  ASSUME Types, Main, Finders, NEW a \in Place, NEW b \in Place, Positions(a, b),
         NEW t \in Finder, FinderStep(t), NEW f, f = finder[t], NEW g, g = finder'[t],
         f.pc = "scan", NEW slot \in 0 .. FinderRing - 1, NEW c,
         InRing(f, slot) <= InRing(f, f.read), Found(text, f, slot, c, StopOf(t))
  PROVE  Found(text, g, slot, c, StopOf(t))
<1>1. /\ f \in FinderType /\ text \in Texts /\ f.pos \in Nat /\ f.copied \in Nat
      /\ f.copied \in Nat /\ f.read \in 0 .. FinderRing - 1 /\ FinderRing \in Nat \ {0}
      /\ InRing(f, f.read) \in 0 .. FinderRing - 1 /\ InRing(f, slot) \in Nat
  <2>1. f \in FinderType /\ text \in Texts
    BY DEF Types
  <2>2. /\ f.pos \in Nat /\ f.copied \in Nat /\ f.read \in 0 .. FinderRing - 1
        /\ FinderRing \in Nat \ {0} /\ CopyMax \in Nat
    BY <2>1, Sizes DEF FinderType
  <2> QED
    BY <2>1, <2>2, InRingRange
<1>2. /\ WithinRegion(f.pos, f.copied, StopOf(t)) /\ Split
  BY DEF Finders, Alone, Shared
<1>3. /\ StopOf(t) \in Nat /\ StopOf(t) <= L + 1 /\ L \in Nat
  BY <1>1, <1>2, Regions, TextLength
<1>4. L = Len(text)
  BY DEF L
<1>5. CASE FindNext(t)
  <2>1. /\ f.queue = <<>> /\ f.pos < StopOf(t) /\ g.write = f.write /\ g.data = f.data
        /\ \E turn \in Turns(f.pos, f.copied) :
             g.pos = turn.pos /\ g.copied = turn.copied /\ g.queue = turn.queue
    BY <1>5, TurnFields
  <2>2. PICK turn \in Turns(f.pos, f.copied) :
             g.pos = turn.pos /\ g.copied = turn.copied /\ g.queue = turn.queue
    BY <2>1
  <2>3. out <= f.pos /\ out \in Nat \ {0} /\ Rewrote(text, buf, out, a[1])
    BY Readers DEF Types, Positions
  <2>4. Turned(text, f.pos, f.copied, turn)
    BY <1>1, <2>2, <2>3, TurnsOfText
  <2>5. f.pos \in 1 .. Len(text) /\ f.copied <= f.pos
    BY <1>1, <1>2, <1>3, <1>4, <2>1 DEF WithinRegion
  <2>6. ASSUME NEW z \in Place, Scanned(text, f.queue, f.pos, f.copied, z, StopOf(t))
        PROVE  Scanned(text, g.queue, g.pos, g.copied, z, StopOf(t))
    BY <1>1, <1>3, <1>4, <2>1, <2>2, <2>4, <2>5, <2>6, TurnScanned
  <2> QED
    BY <2>1, <2>6, FoundMore
<1>6. CASE PutCommand(t)
  <2>1. /\ f.queue # <<>> /\ ~Full(f)
        /\ g.data = [f.data EXCEPT ![f.write] = Head(f.queue)] /\ g.queue = Tail(f.queue)
        /\ g.write = Onward(FinderRing, f.write, 1)
        /\ g.pos = f.pos /\ g.copied = f.copied
    BY <1>6, PutFields
  <2>2. InRing(f, slot) + 1 < FinderRing
    <3>1. InRing(f, f.read) # FinderRing - 1
      BY <1>1, <2>1 DEF Full, InRing, Distance
    <3> QED
      BY <1>1, <3>1
  <2> QED
    BY <1>1, <2>1, <2>2, FoundPut
<1>7. CASE LastCopy(t)
  <2>1. /\ f.queue = <<>> /\ f.copied > 0 /\ g.queue = <<Copy(f.copied)>> /\ g.copied = 0
        /\ g.write = f.write /\ g.pos = f.pos /\ g.data = f.data
    BY <1>7, CopyFields
  <2>2. f.copied \in Nat \ {0} /\ f.copied <= f.pos /\ f.pos <= StopOf(t)
        /\ f.pos <= Len(text) + 1
    BY <1>1, <1>2, <1>3, <1>4, <2>1 DEF WithinRegion
  <2>3. ASSUME NEW z \in Place, Scanned(text, f.queue, f.pos, f.copied, z, StopOf(t))
        PROVE  Scanned(text, g.queue, g.pos, g.copied, z, StopOf(t))
    BY <1>1, <1>3, <2>1, <2>2, <2>3, CopyScanned
  <2> QED
    BY <2>1, <2>3, FoundMore
<1>8. CASE EndFinder(t)
  <2>1. /\ g.queue = f.queue /\ g.copied = f.copied /\ g.write = f.write /\ g.pos = f.pos
        /\ g.data = f.data
    BY <1>8, EndFields
  <2> QED
    BY <2>1, FoundMore
<1>9. ~StartFinder(t) /\ ~BeginScan(t)
  BY DEF StartFinder, BeginScan
<1> QED
  BY <1>5, <1>6, <1>7, <1>8, <1>9 DEF FinderStep

LEMMA FinderMeaning ==
  ASSUME Types, Main, Finders, NEW a \in Place, NEW b \in Place, Positions(a, b),
         NEW t \in Finder, FinderStep(t)
  PROVE  Meaning'
<1>1. /\ UNCHANGED <<text, ring, pos, copied, queue, extra, cur, taken, upTo, posted,
                     wrote, mpc, read, spc, next, seen, old, out, buf>>
      /\ \A u \in Finder : u # t => finder'[u] = finder[u]
  BY OneFinder DEF FinderStep, mainVars, substVars, StartFinder, BeginScan, FindNext,
                   PutCommand, LastCopy, EndFinder
<1>2. /\ MainAt(b) /\ ThreadAt(a) /\ Run(text, Pending, Ahead, a, b, Frontier)
      /\ 1 <= out /\ out <= a[1] /\ out <= Frontier /\ Rewrote(text, buf, out, a[1])
      /\ \A u \in Finder : FinderAt(u, finder[u], b)
  BY DEF Positions
<1>3. MainAt(b)' /\ Frontier' = Frontier /\ Pending' = Pending /\ Ahead' = Ahead
  BY <1>1, <1>2, MainAtStill DEF Pending, Ahead, Ring
<1>4. ThreadAt(a)'
  <2>1. L' = L
    BY <1>1, SameText
  <2> QED
    BY <1>1, <1>2, <2>1 DEF ThreadAt
<1> DEFINE f == finder[t]
           g == finder'[t]
<1>0. f = finder[t] /\ g = finder'[t]
  OBVIOUS
<1> HIDE DEF f, g
<1>5. /\ f \in FinderType /\ text \in Texts /\ FinderRing \in Nat \ {0}
      /\ 0 \in 0 .. FinderRing - 1 /\ taken \in 0 .. FinderRing - 1
      /\ Alone(t, f) /\ Shared(t, f) /\ FinderAt(t, f, b) /\ g \in FinderType
  <2>1. finder' \in [Finder -> FinderType]
    BY FinderTypes
  <2> QED
    BY <1>0, <1>2, <2>1, Sizes DEF Types, Finders
<1>6. FinderAt(t, g, b)
  <2>1. CASE StartFinder(t)
    <3>1. f.pc = "created" /\ g.pc = "ready" /\ g.start = f.start
      BY <1>0, <2>1, StartFields
    <3> QED
      BY <1>5, <3>1 DEF FinderAt
  <2>2. CASE BeginScan(t)
    <3>1. /\ f.pc = "ready" /\ g.pc = "scan"
          /\ g.start = f.start /\ g.pos = f.pos /\ g.copied = f.copied /\ g.queue = f.queue
          /\ g.write = f.write
      BY <1>0, <2>2, BeginFields
    <3>2. g.write = 0 /\ g.queue = <<>> /\ g.copied = 0 /\ g.pos = g.start
      BY <1>5, <3>1 DEF Alone
    <3>3. Found(text, g, 0, <<g.start, 0>>, StopOf(t))
      BY <1>5, <3>2, FoundNothing
    <3>4. Taking /\ t = cur => taken = 0 /\ b = <<f.start, 0>>
      BY <1>5, <3>1 DEF Shared, FinderAt
    <3> QED
      BY <3>1, <3>3, <3>4 DEF FinderAt
  <2>3. CASE f.pc = "scan"
    <3>1. g.start = f.start /\ g.pc \in {"scan", "ended"}
      <4>1. FindNext(t) \/ PutCommand(t) \/ LastCopy(t) \/ EndFinder(t)
        BY <1>0, <2>3 DEF FinderStep, StartFinder, BeginScan
      <4>2. CASE FindNext(t)
        BY <1>0, <2>3, <4>2, TurnFields
      <4>3. CASE PutCommand(t)
        BY <1>0, <2>3, <4>3, PutFields
      <4>4. CASE LastCopy(t)
        BY <1>0, <2>3, <4>4, CopyFields
      <4>5. CASE EndFinder(t)
        BY <1>0, <2>3, <4>5, EndFields
      <4> QED
        BY <4>1, <4>2, <4>3, <4>4, <4>5
    <3>2. ASSUME Waits(t), ~(mpc = "drain" /\ t = cur)
          PROVE  Found(text, g, 0, <<g.start, 0>>, StopOf(t))
      <4>1. Found(text, f, 0, <<f.start, 0>>, StopOf(t)) /\ f.read = 0
        BY <1>5, <2>3, <3>2 DEF FinderAt, Shared
      <4>2. InRing(f, 0) <= InRing(f, f.read)
        BY <1>5, <4>1, InRingRange
      <4>3. Found(text, g, 0, <<f.start, 0>>, StopOf(t))
        BY <1>0, <1>5, <2>3, <4>1, <4>2, FoundStep
      <4> QED
        BY <3>1, <4>3
    <3>3. ASSUME Taking, t = cur
          PROVE  Found(text, g, taken, b, StopOf(t))
      <4>1. /\ Found(text, f, taken, b, StopOf(t))
            /\ Distance(FinderRing, f.read, taken) <= InRing(f, f.read)
        BY <1>5, <2>3, <3>3 DEF FinderAt, Shared
      <4>2. InRing(f, taken) <= InRing(f, f.read)
        <5>1. InRing(f, taken) = InRing(f, f.read) - Distance(FinderRing, f.read, taken)
          BY <1>5, <4>1, NotTaken
        <5>2. f.read \in 0 .. FinderRing - 1
          BY <1>5 DEF FinderType
        <5>3. Distance(FinderRing, f.read, taken) \in Nat /\ InRing(f, f.read) \in Nat
          BY <1>5, <5>2, RingRange, InRingRange
        <5> QED
          BY <5>1, <5>3
      <4> QED
        BY <1>0, <1>5, <2>3, <4>1, <4>2, FoundStep
    <3> QED
      BY <3>1, <3>2, <3>3 DEF FinderAt
  <2>4. f.pc = "scan" \/ StartFinder(t) \/ BeginScan(t)
    BY <1>0 DEF FinderStep, FindNext, PutCommand, LastCopy, EndFinder
  <2> QED
    BY <2>1, <2>2, <2>3, <2>4
<1>7. ASSUME NEW u \in Finder PROVE \E h : h = finder'[u] /\ FinderAt(u, h, b)'
  <2>1. PICK h : h = finder'[u] /\ FinderAt(u, h, b)
    BY <1>0, <1>1, <1>2, <1>6
  <2>2. FinderAt(u, h, b)'
    BY <1>1, <2>1, FinderAtStill
  <2> QED
    BY <2>1, <2>2
<1> QED
  BY <1>1, <1>2, <1>3, <1>4, <1>7, PositionsAfter

-------------------------------------------------------------------------------
(* Main's steps and the places.                                             *)
(* A step of main: the commands up to where it has posted, and the finders. *)
LEMMA MainPositions ==
  ASSUME Types, Types', Main, UNCHANGED substVars, text' = text,
         NEW a \in Place, NEW b \in Place, Positions(a, b),
         NEW c \in Place, Run(text, Pending', Ahead', a, c, Frontier),
         Frontier' \in Nat, Frontier <= Frontier', MainAt(c)',
         \A t \in Finder : \E g : g = finder'[t] /\ FinderAt(t, g, c)'
  PROVE  Meaning'
<1>1. /\ UNCHANGED <<spc, old, out, buf, read, next, seen>> /\ L' = L
      /\ text \in Texts /\ out \in Nat /\ Frontier \in Nat
  <2>1. text \in Texts /\ out \in Nat /\ cur \in Finder /\ (Heading \/ Taking => Split)
    BY DEF Types, Main
  <2> QED
    BY <2>1, FrontierBound, SameText DEF substVars
<1>2. /\ ThreadAt(a) /\ 1 <= out /\ out <= a[1] /\ out <= Frontier
      /\ Rewrote(text, buf, out, a[1])
  BY DEF Positions
<1>3. ThreadAt(a)'
  BY <1>1, <1>2 DEF ThreadAt
<1>4. Ahead' \in Nat
  <2>1. next' \in 0 .. Ring - 1 /\ posted' \in 0 .. Ring - 1 /\ Ring \in Nat \ {0}
    BY Sizes DEF Types, Ring
  <2>2. Distance(Ring, next', posted') \in 0 .. Ring - 1
    BY <2>1, RingRange
  <2>3. Ahead' = Distance(Ring, next', posted')
    BY DEF Ahead, Ring
  <2> QED
    BY <2>1, <2>2, <2>3
<1>5. Run(text, Pending', Ahead', a, c, Frontier')
  BY <1>1, <1>4, RunWider
<1>6. out' <= a[1] /\ out' <= Frontier' /\ 1 <= out'
  <2>1. a[1] \in Nat
    BY DEF Place
  <2> QED
    BY <1>1, <1>2, <2>1
<1> QED
  BY <1>1, <1>2, <1>3, <1>5, <1>6, PositionsAfter

(* A step of main that posts commands cs.                                   *)
LEMMA MainPosts ==
  ASSUME Types, Types', Indices, Main, mpc \notin {"create", "await"},
         UNCHANGED substVars, text' = text,
         NEW a \in Place, NEW b \in Place, Positions(a, b),
         NEW cs \in Seq(Command), Room(Len(cs)), Post(cs),
         NEW c \in Place, Run(text, Listed(cs), Len(cs), b, c, Frontier),
         Frontier' \in Nat, Frontier <= Frontier', MainAt(c)',
         \A t \in Finder : \E g : g = finder'[t] /\ FinderAt(t, g, c)'
  PROVE  Meaning'
<1>1. Ahead + Len(cs) < Ring
  BY PostRoom
<1>2. next' = next
  BY DEF substVars
<1>3. Run(text, Pending, Ahead, a, b, Frontier)
  BY DEF Positions
<1>4. Run(text, Pending', Ahead', a, c, Frontier)
  BY <1>1, <1>2, <1>3, Posted
<1> QED
  BY <1>4, MainPositions

(* A step of main that posts nothing.                                       *)
LEMMA MainQuiet ==
  ASSUME Types, Types', Main, UNCHANGED substVars, UNCHANGED <<text, ring, posted>>,
         NEW a \in Place, NEW b \in Place, Positions(a, b),
         Frontier' \in Nat, Frontier <= Frontier', MainAt(b)',
         \A t \in Finder : \E g : g = finder'[t] /\ FinderAt(t, g, b)'
  PROVE  Meaning'
<1>1. next' = next
  BY DEF substVars
<1>2. Pending' = Pending /\ Ahead' = Ahead
  BY <1>1 DEF Pending, Ahead, Ring
<1>3. Run(text, Pending', Ahead', a, b, Frontier)
  BY <1>2 DEF Positions
<1> QED
  BY <1>3, MainPositions

LEMMA FindersAtStill ==
  ASSUME UNCHANGED <<text, finder, mpc, cur, taken>>, NEW b,
         \A t \in Finder : FinderAt(t, finder[t], b)
  PROVE  \A t \in Finder : \E g : g = finder'[t] /\ FinderAt(t, g, b)'
<1> SUFFICES ASSUME NEW t \in Finder
             PROVE  \E g : g = finder'[t] /\ FinderAt(t, g, b)'
  OBVIOUS
<1>1. PICK g : g = finder[t] /\ FinderAt(t, g, b)
  OBVIOUS
<1>2. FinderAt(t, g, b)'
  BY <1>1, FinderAtStill
<1> QED
  BY <1>1, <1>2

(* While main scans, the places of the finders do not depend on what it has *)
(* posted.                                                                  *)
LEMMA ScanningFinders ==
  ASSUME UNCHANGED <<text, finder>>, Scanning, Scanning' \/ mpc' = "head", NEW b, NEW c,
         cur = 1 /\ cur' = 1,
         \A t \in Finder : FinderAt(t, finder[t], b)
  PROVE  \A t \in Finder : \E g : g = finder'[t] /\ FinderAt(t, g, c)'
<1> SUFFICES ASSUME NEW t \in Finder
             PROVE  \E g : g = finder'[t] /\ FinderAt(t, g, c)'
  OBVIOUS
<1>1. PICK g : g = finder[t] /\ FinderAt(t, g, b)
  OBVIOUS
<1>2. Waits(t) /\ mpc # "drain" /\ mpc' # "drain" /\ ~Taking' /\ Waits(t)'
  BY Sizes DEF Waits, Scanning, Heading, Taking, Finder
<1>3. FinderAt(t, g, c)'
  BY <1>1, <1>2, SameText DEF FinderAt
<1> QED
  BY <1>1, <1>3

LEMMA RunOne ==
  ASSUME NEW t, NEW q \in Command, NEW b \in Place, NEW c \in Place, NEW f,
         Follows(t, q, b, c, f)
  PROVE  /\ <<q>> \in Seq(Command) /\ Len(<<q>>) = 1
         /\ Run(t, Listed(<<q>>), Len(<<q>>), b, c, f)
<1>1. <<q>> \in Seq(Command) /\ Len(<<q>>) = 0 + 1 /\ Listed(<<q>>)[0] = q
  BY DEF Listed
<1>2. Run(t, Listed(<<q>>), 0, b, b, f)
  BY RunEmpty
<1>3. Run(t, Listed(<<q>>), 1, b, c, f)
  BY <1>1, <1>2, RunAppend
<1> QED
  BY <1>1, <1>3

(* Main's steps do not disturb the places, one group of steps at a time.    *)
LEMMA CreateMeaning ==
  ASSUME Types, Indices, Finders, NEW a \in Place, NEW b \in Place, Positions(a, b),
         CreateThreads, text' = text
  PROVE  Meaning'
<1>1. /\ mpc = "create" /\ mpc' = "await" /\ spc' = "created" /\ spc = "none"
      /\ UNCHANGED <<ring, pos, copied, queue, posted, next, old, out, buf>>
  BY DEF CreateThreads, Indices
<1>2. L' = L /\ Stop0' = Stop0 /\ Frontier = Stop0 /\ Frontier' = Stop0
  BY <1>1, SameText DEF Frontier
<1>3. ThreadAt(a)'
  <2>1. ThreadAt(a)
    BY DEF Positions
  <2> QED
    BY <2>1, <1>1, <1>2 DEF ThreadAt
<1>4. MainAt(b)'
  <2>1. Scanned(text, queue, pos, copied, b, Stop0)
    BY <1>1 DEF Positions, MainAt, Scanning
  <2> QED
    BY <2>1, <1>1, <1>2 DEF MainAt, Scanning, Heading
<1>5. Run(text, Pending', Ahead', a, b, Frontier')
  <2>1. Pending' = Pending /\ Ahead' = Ahead
    BY <1>1 DEF Pending, Ahead, Ring
  <2> QED
    BY <2>1, <1>2 DEF Positions
<1>6. 1 <= out' /\ out' <= a[1] /\ out' <= Frontier' /\ Rewrote(text, buf', out', a[1])
  BY <1>1, <1>2 DEF Positions
<1>7. ASSUME NEW t \in Finder PROVE \E g : g = finder'[t] /\ FinderAt(t, g, b)'
  <2>1. PICK g : g = finder'[t]
    OBVIOUS
  <2>2. finder[t] \in FinderType
    BY DEF Types
  <2>3. g.pc \in {"none", "created"}
    <3>1. CASE Split
      <4>1. g = [finder[t] EXCEPT !.pc = "created"]
        BY <3>1, <2>1 DEF CreateThreads
      <4> QED
        BY <4>1, <2>2, CreatedFields
    <3>2. CASE ~Split
      BY <3>2, <2>1 DEF CreateThreads, Finders, Shared
    <3> QED
      BY <3>1, <3>2
  <2>4. ~Taking'
    BY <1>1 DEF Taking
  <2> QED
    BY <2>1, <2>3, <2>4 DEF FinderAt
<1> QED
  BY <1>3, <1>4, <1>5, <1>6, <1>7, PositionsAfter

LEMMA AwaitMeaning ==
  ASSUME Types, Types', Main, NEW a \in Place, NEW b \in Place, Positions(a, b),
         AwaitSubstitute, text' = text
  PROVE  Meaning'
<1>1. /\ mpc = "await" /\ mpc' = "scan" /\ UNCHANGED substVars
      /\ UNCHANGED <<finder, ring, pos, copied, queue, extra, cur, taken, posted>>
  BY DEF AwaitSubstitute
<1>2. /\ Stop0' = Stop0 /\ Frontier = Stop0 /\ Frontier' = Stop0
      /\ Scanning /\ Scanning' /\ cur = 1 /\ Stop0 \in Nat
  <2>1. text \in Texts
    BY DEF Types
  <2> QED
    BY <1>1, <2>1, SameText, TextLength DEF Frontier, Main, Scanning
<1>3. MainAt(b)'
  <2>1. Scanned(text, queue, pos, copied, b, Stop0)
    BY <1>2 DEF Positions, MainAt
  <2> QED
    BY <2>1, <1>1, <1>2 DEF MainAt, Heading
<1>4. \A t \in Finder : \E g : g = finder'[t] /\ FinderAt(t, g, b)'
  <2>1. \A t \in Finder : FinderAt(t, finder[t], b)
    BY DEF Positions
  <2> QED
    BY <2>1, <1>1, <1>2, ScanningFinders
<1> QED
  BY <1>1, <1>2, <1>3, <1>4, MainQuiet

(* While it scans, the next command is where the last one posted ends.      *)
LEMMA ScanMeaning ==
  ASSUME Types, Types', Main, Finders, NEW a \in Place, NEW b \in Place, Positions(a, b),
         ScanOwn, text' = text
  PROVE  Meaning'
<1>1. /\ mpc = "scan" /\ mpc' = "scan" /\ UNCHANGED substVars /\ queue = <<>> /\ pos < Stop0
      /\ UNCHANGED <<finder, ring, extra, cur, taken, posted>>
      /\ \E turn \in Turns(pos, copied) :
           pos' = turn.pos /\ copied' = turn.copied /\ queue' = turn.queue
  BY DEF ScanOwn
<1>2. /\ Stop0' = Stop0 /\ Frontier = Stop0 /\ Frontier' = Stop0
      /\ Scanning /\ Scanning' /\ cur = 1 /\ Stop0 \in Nat /\ Stop0 <= L + 1 /\ L \in Nat
      /\ text \in Texts /\ pos \in Nat /\ copied \in Nat
  <2>1. text \in Texts /\ pos \in Nat /\ copied \in Nat /\ CopyMax \in Nat
    BY Sizes DEF Types
  <2> QED
    BY <1>1, <2>1, SameText, TextLength DEF Frontier, Main, Scanning
<1>3. pos \in 1 .. L /\ copied <= pos
  BY <1>1, <1>2 DEF Main, WithinRegion
<1>4. PICK turn \in Turns(pos, copied) :
        pos' = turn.pos /\ copied' = turn.copied /\ queue' = turn.queue
  BY <1>1
<1>5. Turned(text, pos, copied, turn)
  <2>1. out \in Nat \ {0} /\ Rewrote(text, buf, out, a[1]) /\ out <= pos
    <3>1. out \in Nat
      BY DEF Types
    <3> QED
      BY <3>1, <1>2, Readers DEF Positions
  <2> QED
    BY <2>1, <1>2, TurnsOfText
<1>6. MainAt(b)'
  <2>1. Scanned(text, <<>>, pos, copied, b, Stop0)
    BY <1>1, <1>2 DEF Positions, MainAt
  <2>2. Scanned(text, turn.queue, turn.pos, turn.copied, b, Stop0)
    <3>1. pos \in 1 .. Len(text) /\ Stop0 <= Len(text) + 1
      BY <1>2, <1>3 DEF L
    <3> QED
      BY <3>1, <2>1, <1>1, <1>2, <1>3, <1>5, TurnScanned
  <2> QED
    BY <2>2, <1>1, <1>2, <1>4 DEF MainAt, Heading
<1>7. \A t \in Finder : \E g : g = finder'[t] /\ FinderAt(t, g, b)'
  <2>1. \A t \in Finder : FinderAt(t, finder[t], b)
    BY DEF Positions
  <2> QED
    BY <2>1, <1>1, <1>2, ScanningFinders
<1> QED
  BY <1>1, <1>2, <1>6, <1>7, MainQuiet

LEMMA PostCopyMeaning ==
  ASSUME Types, Types', Indices, Main, NEW a \in Place, NEW b \in Place, Positions(a, b),
         PostCopy, text' = text
  PROVE  Meaning'
<1>1. /\ mpc = "scan" /\ mpc' = "scan" /\ UNCHANGED substVars
      /\ queue # <<>> /\ queue' = Tail(queue) /\ RoomForOne /\ Post(<<Head(queue)>>)
      /\ UNCHANGED <<finder, pos, copied, extra, cur, taken>>
  BY DEF PostCopy
<1>2. /\ Stop0' = Stop0 /\ Frontier = Stop0 /\ Frontier' = Stop0
      /\ Scanning /\ Scanning' /\ cur = 1 /\ Stop0 \in Nat
      /\ text \in Texts /\ queue \in Seq(Command) /\ Head(queue) \in Command
  <2>1. text \in Texts /\ queue \in Seq(Command)
    BY DEF Types
  <2> QED
    BY <1>1, <2>1, SameText, TextLength, HeadTailProperties DEF Frontier, Main, Scanning
<1>3. Scanned(text, queue, pos, copied, b, Stop0)
  BY <1>2 DEF Positions, MainAt
<1>4. PICK c \in Place : /\ Follows(text, Head(queue), b, c, Stop0)
                         /\ Scanned(text, Tail(queue), pos, copied, c, Stop0)
  BY <1>1, <1>2, <1>3, ScannedPost
<1>5. MainAt(c)'
  BY <1>1, <1>2, <1>4 DEF MainAt, Heading
<1>6. \A t \in Finder : \E g : g = finder'[t] /\ FinderAt(t, g, c)'
  <2>1. \A t \in Finder : FinderAt(t, finder[t], b)
    BY DEF Positions
  <2> QED
    BY <2>1, <1>1, <1>2, ScanningFinders
<1>7. /\ <<Head(queue)>> \in Seq(Command) /\ Room(Len(<<Head(queue)>>))
      /\ Run(text, Listed(<<Head(queue)>>), Len(<<Head(queue)>>), b, c, Frontier)
  <2>1. Room(1)
    BY <1>1, RoomGuards
  <2> QED
    BY <2>1, <1>2, <1>4, RunOne
<1>8. mpc \notin {"create", "await"} /\ Frontier <= Frontier' /\ Frontier' \in Nat
  BY <1>1, <1>2
<1> QED
  BY <1>1, <1>5, <1>6, <1>7, <1>8, MainPosts

LEMMA PostPairMeaning ==
  ASSUME Types, Types', Indices, Main, NEW a \in Place, NEW b \in Place, Positions(a, b),
         PostPair, text' = text
  PROVE  Meaning'
<1>1. /\ mpc = "scan" /\ mpc' = "scan" /\ UNCHANGED substVars
      /\ queue # <<>> /\ Head(queue).do = "skip" /\ queue' = <<>> /\ RoomForPair /\ Post(queue)
      /\ UNCHANGED <<finder, pos, copied, extra, cur, taken>>
  BY DEF PostPair
<1>2. /\ Stop0' = Stop0 /\ Frontier = Stop0 /\ Frontier' = Stop0
      /\ Scanning /\ Scanning' /\ cur = 1 /\ Stop0 \in Nat
      /\ text \in Texts /\ queue \in Seq(Command) /\ pos \in Nat /\ copied \in Nat
  <2>1. text \in Texts /\ queue \in Seq(Command)
        /\ pos \in Nat /\ copied \in Nat /\ CopyMax \in Nat
    BY Sizes DEF Types
  <2> QED
    BY <1>1, <2>1, SameText, TextLength DEF Frontier, Main, Scanning
<1>c. PICK c : c = <<pos - copied, 0>>
  OBVIOUS
<1>3. /\ copied <= pos /\ NoRule(text, pos - copied, pos)
      /\ Run(text, Listed(queue), Len(queue), b, c, Stop0)
  BY <1>c, <1>2 DEF Positions, MainAt, Scanned
<1>4. c \in Place
  BY <1>c, <1>2, <1>3 DEF Place
<1>5. MainAt(c)'
  <2>1. Scanned(text, <<>>, pos, copied, c, Stop0)
    BY <1>c, <1>2, <1>3, ScannedNothing
  <2> QED
    BY <2>1, <1>1, <1>2 DEF MainAt, Heading
<1>6. \A t \in Finder : \E g : g = finder'[t] /\ FinderAt(t, g, c)'
  <2>1. \A t \in Finder : FinderAt(t, finder[t], b)
    BY DEF Positions
  <2> QED
    BY <2>1, <1>1, <1>2, ScanningFinders
<1>7. Room(Len(queue))
  <2>1. Room(2)
    BY <1>1, RoomGuards
  <2>2. Len(queue) = 2
    BY <1>1, QueueShape
  <2> QED
    BY <2>1, <2>2
<1>8. mpc \notin {"create", "await"} /\ Frontier <= Frontier' /\ Frontier' \in Nat
  BY <1>1, <1>2
<1> QED
  BY <1>1, <1>2, <1>3, <1>4, <1>5, <1>6, <1>7, <1>8, MainPosts

(* The last copy ends where the first region does, and a match may go on.   *)
LEMMA EndScanMeaning ==
  ASSUME Types, Types', Indices, Main, Finders, NEW a \in Place, NEW b \in Place,
         Positions(a, b), EndScan, text' = text
  PROVE  Meaning'
<1>1. /\ mpc = "scan" /\ mpc' = (IF Split THEN "head" ELSE "finish")
      /\ UNCHANGED substVars /\ queue = <<>> /\ pos >= Stop0 /\ extra' = pos - Stop0
      /\ IF copied > 0 THEN RoomForOne /\ Post(<<Copy(copied)>>) ELSE UNCHANGED <<ring, posted>>
      /\ UNCHANGED <<finder, cur, taken>>
  BY DEF EndScan
<1>2. /\ Scanning /\ cur = 1 /\ cur' = 1 /\ 1 \in Finder
      /\ text \in Texts /\ pos \in Nat /\ copied \in Nat /\ Stop0 \in Nat /\ L \in Nat
  <2>1. text \in Texts /\ pos \in Nat /\ copied \in Nat /\ CopyMax \in Nat
    BY Sizes DEF Types
  <2> QED
    BY <1>1, <2>1, SameText, TextLength, Sizes DEF Main, Scanning, Finder
<1>3. /\ pos \in 1 .. L + 1 /\ copied < pos /\ (copied > 0 => pos = Stop0)
  BY <1>1, <1>2 DEF Main, WithinRegion
<1>4. b = <<pos - copied, 0>> /\ NoRule(text, pos - copied, pos)
  <2>1. Scanned(text, <<>>, pos, copied, b, Stop0)
    BY <1>1, <1>2 DEF Positions, MainAt
  <2> QED
    BY <2>1, <1>2, <1>3, ScannedNothing
<1>5. PICK c : c = <<pos, 0>>
  OBVIOUS
<1>6. c \in Place
  BY <1>2, <1>5 DEF Place
<1>7. Frontier = Stop0 /\ Frontier' = Stop0 /\ MainAt(c)'
  <2>1. Frontier = Stop0
    BY <1>1 DEF Frontier
  <2>2. CASE Split
    <3>1. StartOf(cur)' = Stop0 /\ mpc' = "head"
      <4>1. StartOf(1) = Stop0 /\ cur' = 1
        BY <1>2, <2>2, Regions
      <4>2. StartOf(1)' = StartOf(1)
        BY SameText
      <4>3. StartOf(cur)' = StartOf(1)'
        BY <4>1 DEF StartOf
      <4> QED
        BY <4>1, <4>2, <4>3, <1>1, <2>2
    <3>2. StartOf(cur)' + extra' = pos
      BY <1>1, <1>2, <3>1
    <3> QED
      BY <2>1, <3>1, <3>2, <1>5 DEF Frontier, MainAt, Scanning, Heading
  <2>3. CASE ~Split
    <3>1. Stop0 = L + 1 /\ L' = L /\ mpc' = "finish"
      BY <2>3, <1>1, SameText DEF Stop0
    <3>2. pos = L + 1
      BY <3>1, <1>1, <1>2, <1>3
    <3> QED
      BY <2>1, <3>1, <3>2, <1>5 DEF Frontier, MainAt, Scanning, Heading
  <2> QED
    BY <2>2, <2>3
<1>8. \A t \in Finder : \E g : g = finder'[t] /\ FinderAt(t, g, c)'
  <2>1. CASE Split
    <3>1. \A t \in Finder : FinderAt(t, finder[t], b)
      BY DEF Positions
    <3> QED
      BY <2>1, <3>1, <1>1, <1>2, ScanningFinders
  <2>2. CASE ~Split
    <3> SUFFICES ASSUME NEW t \in Finder
                 PROVE  \E g : g = finder'[t] /\ FinderAt(t, g, c)'
      OBVIOUS
    <3>1. PICK g : g = finder[t]
      OBVIOUS
    <3>2. g.pc = "none"
      BY <2>2, <3>1 DEF Finders, Shared
    <3>3. FinderAt(t, g, c)'
      BY <3>2 DEF FinderAt
    <3> QED
      BY <3>1, <3>3, <1>1
  <2> QED
    BY <2>1, <2>2
<1>9. Frontier' \in Nat /\ Frontier <= Frontier'
  BY <1>2, <1>7
<1>10. CASE copied = 0
  <2>1. UNCHANGED <<text, ring, posted>>
    BY <1>1, <1>10
  <2>2. b = c
    BY <1>2, <1>4, <1>5, <1>10
  <2> QED
    BY <2>1, <2>2, <1>1, <1>7, <1>8, <1>9, MainQuiet
<1>11. CASE copied # 0
  <2>1. RoomForOne /\ Post(<<Copy(copied)>>) /\ pos = Stop0 /\ copied \in Nat \ {0}
    BY <1>1, <1>2, <1>3, <1>11
  <2>2. Follows(text, Copy(copied), b, c, Frontier)
    <3>1. pos <= Len(text) + 1
      BY <1>3 DEF L
    <3>2. Follows(text, Copy(copied), <<pos - copied, 0>>, <<pos, 0>>, Frontier)
      BY <3>1, <2>1, <1>2, <1>3, <1>4, <1>7, FollowsCopy
    <3> QED
      BY <3>2, <1>4, <1>5
  <2>3. Copy(copied) \in Command
    BY <2>1 DEF Command, Copy
  <2>4. /\ <<Copy(copied)>> \in Seq(Command) /\ Len(<<Copy(copied)>>) = 1
        /\ Run(text, Listed(<<Copy(copied)>>), Len(<<Copy(copied)>>), b, c, Frontier)
    BY <2>2, <2>3, <1>6, RunOne
  <2>5. Room(Len(<<Copy(copied)>>))
    BY <2>1, <2>4, RoomGuards
  <2>6. mpc \notin {"create", "await"}
    BY <1>1
  <2> QED
    BY <2>1, <2>4, <2>5, <2>6, <1>1, <1>6, <1>7, <1>8, <1>9, MainPosts
<1> QED
  BY <1>10, <1>11

LEMMA OnwardZero ==
  ASSUME NEW n \in Nat \ {0}, NEW k \in 0 .. n - 1
  PROVE  Onward(n, 0, k) = k
BY DEF Onward

(* A first copy made shorter by what the match before has covered.          *)
LEMMA FoundTrim ==
  ASSUME NEW t \in Texts, NEW f \in FinderType, f.write # 0, f.data[0].do = "copy",
         NEW e \in Nat \ {0}, f.data[0].n > e, NEW g,
         g.data = [f.data EXCEPT ![0] = [f.data[0] EXCEPT !.n = f.data[0].n - e]],
         g.write = f.write, g.queue = f.queue, g.pos = f.pos, g.copied = f.copied,
         NEW s \in Nat, NEW stop \in Nat, Found(t, f, 0, <<s, 0>>, stop)
  PROVE  Found(t, g, 0, <<s + e, 0>>, stop)
<1> DEFINE m == f.write
           short == [f.data[0] EXCEPT !.n = f.data[0].n - e]
<1>1. /\ FinderRing \in Nat \ {0} /\ m \in 0 .. FinderRing - 1 /\ m \in Nat \ {0}
      /\ f.data \in [0 .. FinderRing - 1 -> Command] /\ InRing(f, 0) = m /\ InRing(g, 0) = m
  <2>1. FinderRing \in Nat \ {0}
    BY Sizes
  <2>2. m \in 0 .. FinderRing - 1 /\ f.data \in [0 .. FinderRing - 1 -> Command]
    BY DEF FinderType
  <2> HIDE DEF m
  <2>3. Distance(FinderRing, 0, m) = m
    BY <2>1, <2>2, FromZero
  <2>4. f.write = m /\ g.write = m
    BY DEF m
  <2>5. m \in Nat \ {0}
    <3>1. m # 0
      BY <2>4
    <3>2. ASSUME NEW w \in 0 .. FinderRing - 1, w # 0 PROVE w \in Nat \ {0}
      BY <2>1, <3>2
    <3> QED
      BY <2>2, <3>1, <3>2
  <2>6. InRing(f, 0) = m /\ InRing(g, 0) = m
    BY <2>3, <2>4 DEF InRing
  <2> QED
    BY <2>1, <2>2, <2>5, <2>6
<1>2. ASSUME NEW k \in 0 .. m - 1
      PROVE  Slots(f, 0)[k] = f.data[k] /\ Slots(g, 0)[k] = IF k = 0 THEN short ELSE f.data[k]
  <2>1. Onward(FinderRing, 0, k) = k
    <3>1. k \in 0 .. FinderRing - 1
      BY <1>1
    <3> QED
      BY <1>1, <3>1, OnwardZero
  <2>2. Slots(f, 0)[k] = f.data[k] /\ Slots(g, 0)[k] = g.data[k]
    BY <1>1, <2>1 DEF Slots
  <2>3. k \in 0 .. FinderRing - 1
    BY <1>1
  <2> QED
    BY <2>2, <2>3, <1>1
<1>3. short.do = "copy" /\ short.n = f.data[0].n - e
  <2>1. f.data[0] \in [do : {"copy"}, n : Nat \ {0}]
    <3>1. f.data[0] \in Command
      BY <1>1
    <3> QED
      BY <3>1 DEF Command, EndOfText
  <2> QED
    BY <2>1
<1> HIDE DEF m, short
<1>4. PICK z \in Place : /\ Run(t, Slots(f, 0), m, <<s, 0>>, z, stop)
                         /\ Scanned(t, f.queue, f.pos, f.copied, z, stop)
  BY <1>1 DEF Found
<1>5. PICK at \in [0 .. m -> Place] : Path(t, Slots(f, 0), m, <<s, 0>>, z, stop, at)
  BY <1>4 DEF Run
<1> DEFINE bt == [at EXCEPT ![0] = <<s + e, 0>>]
<1>6. /\ bt \in [0 .. m -> Place] /\ bt[0] = <<s + e, 0>>
      /\ \A k \in 1 .. m : bt[k] = at[k]
  <2>1. <<s + e, 0>> \in Place
    BY DEF Place
  <2> QED
    BY <2>1, <1>1, <1>5
<1> HIDE DEF bt
<1>7. Follows(t, short, <<s + e, 0>>, at[1], stop)
  <2>1. Follows(t, f.data[0], <<s, 0>>, at[1], stop)
    <3>1. 0 \in 0 .. m - 1 /\ 0 + 1 = 1
      BY <1>1
    <3> QED
      BY <3>1, <1>2, <1>5 DEF Path
  <2>2. /\ f.data[0].n \in Nat \ {0} /\ at[1] = <<s + f.data[0].n, 0>>
        /\ s + f.data[0].n <= Len(t) + 1 /\ s + f.data[0].n <= stop
        /\ NoRule(t, s, s + f.data[0].n)
    BY <2>1 DEF Follows
  <2>3. f.data[0].n - e \in Nat \ {0} /\ (s + e) + (f.data[0].n - e) = s + f.data[0].n
    <3>1. PICK n \in Nat : n = f.data[0].n
      BY <2>2
    <3>2. n > e
      BY <3>1
    <3>3. n - e \in Nat \ {0} /\ (s + e) + (n - e) = s + n
      BY <3>2
    <3> QED
      BY <3>1, <3>3
  <2>4. NoRule(t, s + e, s + f.data[0].n)
    BY <2>2 DEF NoRule
  <2> QED
    BY <2>2, <2>3, <2>4, <1>3 DEF Follows
<1>8. ASSUME NEW k \in 0 .. m - 1 PROVE Follows(t, Slots(g, 0)[k], bt[k], bt[k + 1], stop)
  <2>1. CASE k = 0
    <3>1. 1 \in 1 .. m /\ k + 1 = 1
      BY <1>1, <2>1
    <3> QED
      BY <3>1, <2>1, <1>2, <1>6, <1>7
  <2>2. CASE k # 0
    <3>1. k \in 1 .. m /\ k + 1 \in 1 .. m
      BY <1>1, <2>2
    <3> QED
      BY <3>1, <2>2, <1>2, <1>5, <1>6 DEF Path
  <2> QED
    BY <2>1, <2>2
<1>9. bt[0] = <<s + e, 0>> /\ bt[m] = z
  <2>1. m \in 1 .. m
    BY <1>1
  <2> QED
    BY <2>1, <1>5, <1>6 DEF Path
<1>10. Run(t, Slots(g, 0), m, <<s + e, 0>>, z, stop)
  BY <1>6, <1>8, <1>9 DEF Run, Path
<1> QED
  BY <1>1, <1>4, <1>10 DEF Found

(* A first copy that the match before has covered entirely.                 *)
LEMMA FoundCovered ==
  ASSUME NEW t \in Texts, NEW f \in FinderType, f.write # 0, f.data[0].do = "copy",
         NEW e, f.data[0].n = e, NEW s, NEW stop, Found(t, f, 0, <<s, 0>>, stop)
  PROVE  Found(t, f, 1, <<s + e, 0>>, stop) /\ 1 \in 0 .. FinderRing - 1
<1>1. /\ FinderRing \in Nat \ {0} /\ FinderRing > 1 /\ f.write \in 0 .. FinderRing - 1
      /\ 0 \in 0 .. FinderRing - 1 /\ 1 \in 0 .. FinderRing - 1
  BY Sizes DEF FinderType
<1>2. 1 \in 0 .. InRing(f, 0)
  BY <1>1, FromZero DEF InRing
<1>3. Onward(FinderRing, 0, 1) = 1 /\ Onward(FinderRing, 0, 0) = 0
  BY <1>1, OnwardZero
<1>4. PICK n, a, slot : n = 1 /\ a = <<s, 0>> /\ slot = 0
  OBVIOUS
<1>5. PICK cs \in Seq(Command), c \in Place :
        /\ Len(cs) = n /\ \A k \in 1 .. n : cs[k] = f.data[Onward(FinderRing, slot, k - 1)]
        /\ Run(t, Listed(cs), n, a, c, stop)
        /\ Found(t, f, Onward(FinderRing, slot, n), c, stop)
  <2>1. Found(t, f, slot, a, stop) /\ slot \in 0 .. FinderRing - 1 /\ n \in 0 .. InRing(f, slot)
    BY <1>1, <1>2, <1>4
  <2> QED
    BY <2>1, FoundTake
<1>6. Listed(cs)[0] = f.data[0] /\ Run(t, Listed(cs), 1, <<s, 0>>, c, stop)
  <2>1. cs[1] = f.data[Onward(FinderRing, 0, 0)] /\ Len(cs) = 1
    BY <1>4, <1>5
  <2> QED
    BY <2>1, <1>3, <1>4, <1>5 DEF Listed
<1>7. Follows(t, f.data[0], <<s, 0>>, c, stop)
  BY <1>6 DEF Run, Path
<1>8. c = <<s + e, 0>>
  BY <1>7 DEF Follows
<1> QED
  BY <1>1, <1>3, <1>4, <1>5, <1>8

(* The finders that main does not look at yet, or no more.                  *)
LEMMA OtherFinderAt ==
  ASSUME text' = text, cur' = cur, cur \in Nat, Heading \/ Taking, Heading' \/ Taking',
         NEW t \in Nat, t # cur, finder'[t] = finder[t], NEW b, NEW c,
         FinderAt(t, finder[t], b)
  PROVE  \E g : g = finder'[t] /\ FinderAt(t, g, c)'
<1>1. PICK g : g = finder[t] /\ FinderAt(t, g, b)
  OBVIOUS
<1>2. /\ Waits(t)' <=> t > cur
      /\ Waits(t) <=> t > cur
  BY DEF Waits, Scanning, Heading, Taking
<1>3. FinderAt(t, g, c)'
  BY <1>1, <1>2, SameText DEF FinderAt
<1> QED
  BY <1>1, <1>3

(* Before it turns to a region, main stands where the last match ended.     *)
LEMMA HeadFacts ==
  ASSUME Types, Main, Finders, Heading, NEW a \in Place, NEW b \in Place, Positions(a, b)
  PROVE  LET f == finder[cur]
         IN /\ text \in Texts /\ Split /\ cur \in Finder /\ cur \in Nat /\ taken = 0
            /\ StartOf(cur) \in Nat /\ StopOf(cur) \in Nat /\ StartOf(cur) <= StopOf(cur)
            /\ extra \in Nat /\ Frontier = StartOf(cur) /\ b = <<StartOf(cur) + extra, 0>>
            /\ f \in FinderType /\ f.start = StartOf(cur)
            /\ f.pc \in {"created", "ready", "scan", "ended"}
            /\ f.write # 0 => f.pc \in {"scan", "ended"}
            /\ mpc = "head" /\ f.pc \in {"scan", "ended"} =>
                 Found(text, f, 0, <<StartOf(cur), 0>>, StopOf(cur))
<1> DEFINE f == finder[cur]
<1>1. /\ text \in Texts /\ Split /\ cur \in Finder /\ cur \in Nat /\ taken = 0 /\ extra \in Nat
      /\ f \in FinderType /\ f.pc \in {"none", "created", "ready", "scan", "ended"}
      /\ f.write \in Nat
  <2>1. text \in Texts /\ cur \in Finder /\ extra \in Nat /\ finder[cur] \in FinderType
    BY DEF Types
  <2>2. Split /\ taken = 0
    BY DEF Main, Heading, Taking
  <2> HIDE DEF f
  <2>3. f \in FinderType
    BY <2>1 DEF f
  <2>4. f.pc \in {"none", "created", "ready", "scan", "ended"} /\ f.write \in Nat
    BY <2>3, Sizes DEF FinderType
  <2> QED
    BY <2>1, <2>2, <2>3, <2>4 DEF Finder
<1>2. StartOf(cur) \in Nat /\ StopOf(cur) \in Nat /\ StartOf(cur) <= StopOf(cur)
  BY <1>1, Regions, TextLength
<1>3. b = <<StartOf(cur) + extra, 0>> /\ FinderAt(cur, f, b)
  BY <1>1 DEF Positions, MainAt
<1>4. Waits(cur) /\ Frontier = StartOf(cur)
  BY <1>1 DEF Waits, Frontier, Heading
<1>5. Alone(cur, f) /\ Shared(cur, f)
  BY <1>1 DEF Finders
<1> HIDE DEF f
<1>6. f.start = StartOf(cur) /\ f.pc # "none"
  BY <1>1, <1>4, <1>5 DEF Shared, Heading
<1>7. f.write # 0 => f.pc \in {"scan", "ended"}
  BY <1>1, <1>5 DEF Alone
<1>8. mpc = "head" /\ f.pc \in {"scan", "ended"} =>
        Found(text, f, 0, <<StartOf(cur), 0>>, StopOf(cur))
  BY <1>3, <1>4, <1>6 DEF FinderAt
<1> QED
  BY <1>1, <1>2, <1>3, <1>4, <1>6, <1>7, <1>8 DEF f

LEMMA AlignedMeaning ==
  ASSUME Types, Types', Main, Finders, NEW a \in Place, NEW b \in Place, Positions(a, b),
         HeadAligned, text' = text
  PROVE  Meaning'
<1> DEFINE f == finder[cur]
<1>1. /\ mpc = "head" /\ mpc' = "merge" /\ extra = 0
      /\ UNCHANGED substVars
      /\ UNCHANGED <<finder, ring, pos, copied, queue, extra, cur, taken, posted>>
  BY DEF HeadAligned
<1>2. Heading /\ Taking' /\ ~Heading' /\ ~Scanning'
  BY <1>1 DEF Heading, Taking, Scanning
<1>3. /\ cur \in Finder /\ cur \in Nat /\ taken = 0 /\ StartOf(cur) \in Nat
      /\ StopOf(cur) \in Nat /\ StartOf(cur) <= StopOf(cur) /\ Frontier = StartOf(cur)
      /\ b = <<StartOf(cur), 0>> /\ f.start = StartOf(cur)
      /\ f.pc \in {"scan", "ended"} => Found(text, f, 0, <<StartOf(cur), 0>>, StopOf(cur))
  BY <1>1, <1>2, HeadFacts
<1>4. StopOf(cur)' = StopOf(cur) /\ Frontier' = StopOf(cur)
  <2>1. \A t : StopOf(t)' = StopOf(t)
    BY SameText
  <2>2. PICK t : t = cur
    OBVIOUS
  <2>3. StopOf(cur)' = StopOf(t)'
    BY <2>2, <1>1 DEF StopOf, StartOf
  <2> QED
    BY <2>1, <2>2, <2>3, <1>1 DEF Frontier
<1>5. MainAt(b)'
  BY <1>1, <1>2 DEF MainAt
<1>6. ASSUME NEW t \in Finder PROVE \E g : g = finder'[t] /\ FinderAt(t, g, b)'
  <2>1. CASE t # cur
    <3>1. FinderAt(t, finder[t], b) /\ t \in Nat /\ finder'[t] = finder[t]
      BY <1>1 DEF Positions, Finder
    <3> QED
      BY <3>1, <2>1, <1>1, <1>2, <1>3, OtherFinderAt
  <2>2. CASE t = cur
    <3>1. PICK g : g = f
      OBVIOUS
    <3> HIDE DEF f
    <3>2. ~Waits(t)'
      BY <1>1, <1>2, <1>3, <2>2 DEF Waits
    <3>3. FinderAt(t, g, b)'
      <4>1. text' = text /\ StopOf(t)' = StopOf(t) /\ taken' = 0
        BY <1>1, <1>3, SameText
      <4> QED
        BY <4>1, <3>1, <3>2, <2>2, <1>3 DEF FinderAt
    <3>4. g = finder'[t]
      BY <3>1, <2>2, <1>1 DEF f
    <3> QED
      BY <3>3, <3>4
  <2> QED
    BY <2>1, <2>2
<1>7. Frontier' \in Nat /\ Frontier <= Frontier'
  BY <1>3, <1>4
<1> QED
  BY <1>1, <1>5, <1>6, <1>7, MainQuiet

LEMMA MergeFrontier ==
  ASSUME text' = text, cur' = cur, Taking'
  PROVE  Frontier' = StopOf(cur)
<1>1. \A t : StopOf(t)' = StopOf(t)
  BY SameText
<1>2. PICK t : t = cur
  OBVIOUS
<1>3. StopOf(cur)' = StopOf(t)'
  BY <1>2 DEF StopOf, StartOf
<1> QED
  BY <1>1, <1>2, <1>3 DEF Frontier, Taking

LEMMA HeadFrontier ==
  ASSUME text' = text, cur' = cur, extra' = extra, Heading, Heading', NEW b, MainAt(b)
  PROVE  Frontier' = Frontier /\ MainAt(b)'
<1>1. \A t : StartOf(t)' = StartOf(t)
  BY SameText
<1>2. PICK t : t = cur
  OBVIOUS
<1>3. StartOf(cur)' = StartOf(t)' /\ StartOf(cur) = StartOf(t)
  BY <1>2 DEF StartOf
<1>4. ~Scanning' /\ mpc' \notin {"finish", "join", "end"}
  BY DEF Scanning, Heading
<1> QED
  BY <1>1, <1>2, <1>3, <1>4 DEF Frontier, MainAt, Heading, Scanning

(* Only finder cur is new to main.                                          *)
LEMMA CurrentFinderAt ==
  ASSUME text' = text, cur' = cur, cur \in Nat, Heading \/ Taking, Heading' \/ Taking',
         NEW b, NEW c, \A t \in Finder : FinderAt(t, finder[t], b),
         \A t \in Finder : t # cur => finder'[t] = finder[t],
         \E g : g = finder'[cur] /\ FinderAt(cur, g, c)'
  PROVE  \A t \in Finder : \E g : g = finder'[t] /\ FinderAt(t, g, c)'
<1> SUFFICES ASSUME NEW t \in Finder PROVE \E g : g = finder'[t] /\ FinderAt(t, g, c)'
  OBVIOUS
<1>1. CASE t # cur
  <2>1. FinderAt(t, finder[t], b) /\ t \in Nat /\ finder'[t] = finder[t]
    BY <1>1 DEF Finder
  <2> QED
    BY <2>1, <1>1, OtherFinderAt
<1>2. CASE t = cur
  <2>1. PICK g : g = finder'[cur] /\ FinderAt(cur, g, c)'
    OBVIOUS
  <2>2. FinderAt(t, g, c)' /\ g = finder'[t]
    BY <2>1, <1>2 DEF FinderAt, Waits
  <2> QED
    BY <2>2
<1> QED
  BY <1>1, <1>2

LEMMA TrimMeaning ==
  ASSUME Types, Types', Main, Finders, NEW a \in Place, NEW b \in Place, Positions(a, b),
         TrimFirst, text' = text
  PROVE  Meaning'
<1>1. PICK f : f = finder[cur]
  OBVIOUS
<1>2. /\ mpc = "head" /\ mpc' = "merge" /\ extra # 0 /\ f.write # 0
      /\ f.data[0].do = "copy" /\ f.data[0].n >= extra
      /\ IF f.data[0].n > extra
           THEN Become(cur, [f EXCEPT !.data[0].n = @ - extra]) /\ UNCHANGED taken
         ELSE taken' = 1 /\ UNCHANGED finder
      /\ UNCHANGED substVars /\ UNCHANGED <<ring, cur, posted>>
  BY <1>1 DEF TrimFirst, HeadCopies, f0
<1>3. Heading /\ Taking' /\ ~Heading' /\ ~Scanning'
  BY <1>2 DEF Heading, Taking, Scanning
<1>4. /\ text \in Texts /\ cur \in Finder /\ cur \in Nat /\ taken = 0 /\ StartOf(cur) \in Nat
      /\ StopOf(cur) \in Nat /\ StartOf(cur) <= StopOf(cur) /\ Frontier = StartOf(cur)
      /\ extra \in Nat /\ b = <<StartOf(cur) + extra, 0>> /\ f \in FinderType
      /\ f.pc \in {"scan", "ended"} /\ Found(text, f, 0, <<StartOf(cur), 0>>, StopOf(cur))
  BY <1>1, <1>2, <1>3, HeadFacts
<1>5. Frontier' = StopOf(cur) /\ MainAt(b)'
  <2>1. MainAt(b)'
    BY <1>2, <1>3 DEF MainAt
  <2> QED
    BY <2>1, <1>2, <1>3, MergeFrontier
<1>6. ASSUME NEW g, g.pc = f.pc, Found(text, g, taken', b, StopOf(cur))
      PROVE  FinderAt(cur, g, b)'
  <2>1. \A t : StopOf(t)' = StopOf(t)
    BY SameText
  <2>2. PICK t : t = cur
    OBVIOUS
  <2>3. StopOf(cur)' = StopOf(cur)
    <3>1. StopOf(cur)' = StopOf(t)'
      BY <1>2, <2>2 DEF StopOf, StartOf
    <3> QED
      BY <2>1, <2>2, <3>1
  <2>4. ~Waits(cur)'
    BY <1>2, <1>3, <1>4 DEF Waits
  <2> QED
    BY <1>2, <1>4, <1>6, <2>3, <2>4 DEF FinderAt
<1>7. /\ \E g : g = finder'[cur] /\ FinderAt(cur, g, b)'
      /\ \A t \in Finder : t # cur => finder'[t] = finder[t]
  <2>1. CASE f.data[0].n > extra
    <3>1. PICK g : g = [f EXCEPT !.data[0].n = @ - extra]
      OBVIOUS
    <3>2. Become(cur, g)
      BY <1>2, <2>1, <3>1
    <3>3. finder'[cur] = g /\ \A t \in Finder : t # cur => finder'[t] = finder[t]
      BY <3>2, <1>4, OneFinder
    <3>4. /\ g.pc = f.pc /\ g.pos = f.pos /\ g.copied = f.copied
          /\ g.queue = f.queue /\ g.write = f.write
          /\ g.data = [f.data EXCEPT ![0] = [f.data[0] EXCEPT !.n = f.data[0].n - extra]]
      BY <1>4, <3>1, TrimFields
    <3>5. extra \in Nat \ {0}
      BY <1>2, <1>4
    <3>6. Found(text, g, 0, b, StopOf(cur))
      <4> HIDE DEF Found
      <4>1. Found(text, g, 0, <<StartOf(cur) + extra, 0>>, StopOf(cur))
        BY <1>2, <1>4, <2>1, <3>4, <3>5, FoundTrim
      <4> QED
        BY <4>1, <1>4
    <3>7. taken' = 0
      BY <1>2, <1>4, <2>1
    <3> QED
      BY <1>6, <3>3, <3>4, <3>6, <3>7
  <2>2. CASE ~(f.data[0].n > extra)
    <3>1. f.data[0].n = extra /\ taken' = 1 /\ finder' = finder
      <4>1. f.data[0].n \in Nat
        <5>1. f.data[0] \in Command
          BY <1>4, Sizes DEF FinderType
        <5> QED
          BY <5>1, <1>2 DEF Command, EndOfText
      <4> QED
        BY <4>1, <1>2, <1>4, <2>2
    <3>2. Found(text, f, 1, b, StopOf(cur))
      BY <1>2, <1>4, <3>1, FoundCovered
    <3>3. FinderAt(cur, f, b)'
      BY <1>6, <3>1, <3>2
    <3> QED
      BY <1>1, <3>1, <3>3
  <2> QED
    BY <2>1, <2>2
<1>8. \A t \in Finder : \E g : g = finder'[t] /\ FinderAt(t, g, b)'
  <2>1. \A t \in Finder : FinderAt(t, finder[t], b)
    BY DEF Positions
  <2> QED
    BY <2>1, <1>2, <1>3, <1>4, <1>7, CurrentFinderAt
<1>9. Frontier' \in Nat /\ Frontier <= Frontier'
  BY <1>4, <1>5
<1> QED
  BY <1>2, <1>5, <1>8, <1>9, MainQuiet

(* What is thrown away has no place any more.                               *)
LEMMA DrainMeaning ==
  ASSUME Types, Types', Main, Finders, NEW a \in Place, NEW b \in Place, Positions(a, b),
         Discard \/ Drain, text' = text
  PROVE  Meaning'
<1>1. /\ Heading /\ mpc' = "drain" /\ Heading'
      /\ UNCHANGED substVars /\ UNCHANGED <<ring, cur, posted, extra>>
  BY DEF Discard, Drain, Heading, mainVars
<1>2. cur \in Finder /\ cur \in Nat /\ Frontier \in Nat
  BY <1>1, HeadFacts
<1>3. MainAt(b)' /\ Frontier' = Frontier
  BY <1>1, HeadFrontier DEF Positions
<1>4. \A t \in Finder : t # cur => finder'[t] = finder[t]
  <2>1. CASE Discard
    BY <2>1 DEF Discard
  <2>2. CASE Drain
    BY <2>2, <1>2, OneFinder DEF Drain
  <2> QED
    BY <2>1, <2>2
<1>5. \E g : g = finder'[cur] /\ FinderAt(cur, g, b)'
  <2>1. PICK g : g = finder'[cur]
    OBVIOUS
  <2>2. FinderAt(cur, g, b)'
    BY <1>1 DEF FinderAt, Taking
  <2> QED
    BY <2>1, <2>2
<1>6. \A t \in Finder : \E g : g = finder'[t] /\ FinderAt(t, g, b)'
  <2>1. \A t \in Finder : FinderAt(t, finder[t], b)
    BY DEF Positions
  <2> QED
    BY <2>1, <1>1, <1>2, <1>4, <1>5, CurrentFinderAt
<1> QED
  BY <1>1, <1>2, <1>3, <1>6, MainQuiet

(* The new thread begins where the last match ended.                        *)
LEMMA RerunMeaning ==
  ASSUME Types, Types', Main, Finders, NEW a \in Place, NEW b \in Place, Positions(a, b),
         Rerun, text' = text
  PROVE  Meaning'
<1>1. PICK f, g : /\ f = finder[cur]
                  /\ g = [f EXCEPT !.pc = "created", !.start = @ + extra, !.done = FALSE,
                                   !.write = 0]
  OBVIOUS
<1>2. /\ Heading /\ mpc' = "merge" /\ Taking' /\ ~Heading' /\ ~Scanning'
      /\ Become(cur, g) /\ UNCHANGED substVars /\ UNCHANGED <<ring, cur, posted>>
  BY <1>1 DEF Rerun, Heading, Taking, Scanning, f0
<1>3. /\ cur \in Finder /\ cur \in Nat /\ StartOf(cur) \in Nat
      /\ StopOf(cur) \in Nat /\ StartOf(cur) <= StopOf(cur) /\ Frontier = StartOf(cur)
      /\ b = <<StartOf(cur) + extra, 0>> /\ f \in FinderType /\ f.start = StartOf(cur)
  BY <1>1, <1>2, HeadFacts
<1>4. g.pc = "created" /\ g.start = StartOf(cur) + extra
  <2>1. g = [f EXCEPT !.pc = "created", !.start = @ + extra, !.done = FALSE, !.write = 0]
    BY <1>1
  <2>2. f \in FinderType /\ f.start = StartOf(cur)
    BY <1>3
  <2> QED
    BY <2>1, <2>2 DEF FinderType
<1>5. finder'[cur] = g /\ \A t \in Finder : t # cur => finder'[t] = finder[t]
  BY <1>2, <1>3, OneFinder
<1>6. FinderAt(cur, g, b)'
  BY <1>2, <1>3, <1>4 DEF FinderAt
<1>7. MainAt(b)' /\ Frontier' = StopOf(cur)
  <2>1. MainAt(b)'
    BY <1>2 DEF MainAt
  <2> QED
    BY <2>1, <1>2, MergeFrontier
<1>8. \A t \in Finder : \E h : h = finder'[t] /\ FinderAt(t, h, b)'
  <2>1. \A t \in Finder : FinderAt(t, finder[t], b)
    BY DEF Positions
  <2> QED
    BY <2>1, <1>2, <1>3, <1>5, <1>6, CurrentFinderAt
<1>9. Frontier' \in Nat /\ Frontier <= Frontier'
  BY <1>3, <1>7
<1> QED
  BY <1>2, <1>7, <1>8, <1>9, MainQuiet

(* While main takes from a region's ring, the ring holds what follows.      *)
LEMMA TakingFacts ==
  ASSUME Types, Main, Finders, Taking, NEW a \in Place, NEW b \in Place, Positions(a, b)
  PROVE  LET f == finder[cur]
         IN /\ text \in Texts /\ Split /\ cur \in Finder /\ cur \in Nat /\ extra = 0
            /\ StopOf(cur) \in Nat /\ StopOf(cur) <= L + 1 /\ Frontier = StopOf(cur)
            /\ f \in FinderType /\ f.pc \in {"created", "ready", "scan", "ended"}
            /\ Alone(cur, f) /\ Shared(cur, f)
            /\ f.pc \in {"scan", "ended"} => Found(text, f, taken, b, StopOf(cur))
            /\ f.pc \in {"created", "ready"} => b = <<f.start, 0>>
<1>1. PICK f : f = finder[cur]
  OBVIOUS
<1>2. text \in Texts /\ cur \in Finder /\ f \in FinderType
  BY <1>1 DEF Types
<1>3. Split /\ extra = 0 /\ ~Scanning /\ ~Heading /\ mpc # "create"
  BY DEF Main, Heading, Taking, Scanning
<1>4. Alone(cur, f) /\ Shared(cur, f) /\ FinderAt(cur, f, b)
  BY <1>1, <1>2 DEF Finders, Positions
<1>5. f.pc \in {"created", "ready", "scan", "ended"}
  BY <1>2, <1>3, <1>4 DEF Shared, FinderType
<1>6. cur \in Nat /\ StopOf(cur) \in Nat /\ StopOf(cur) <= L + 1
  BY <1>2, <1>3, Regions DEF Finder
<1>7. Frontier = StopOf(cur)
  BY DEF Frontier, Taking
<1>8. /\ f.pc \in {"scan", "ended"} => Found(text, f, taken, b, StopOf(cur))
      /\ f.pc \in {"created", "ready"} => b = <<f.start, 0>>
  BY <1>4 DEF FinderAt
<1> QED
  BY <1>1, <1>2, <1>3, <1>4, <1>5, <1>6, <1>7, <1>8

LEMMA TakingFinderAt ==
  ASSUME text' = text, cur' = cur, cur \in Nat, Taking', NEW g, NEW c,
         g.pc \in {"scan", "ended"} => Found(text, g, taken', c, StopOf(cur)),
         g.pc \in {"created", "ready"} => c = <<g.start, 0>>
  PROVE  FinderAt(cur, g, c)'
<1>1. \A t : StopOf(t)' = StopOf(t)
  BY SameText
<1>2. PICK t : t = cur
  OBVIOUS
<1>3. StopOf(cur)' = StopOf(cur)
  <2>1. StopOf(cur)' = StopOf(t)'
    BY <1>2 DEF StopOf, StartOf
  <2> QED
    BY <1>1, <1>2, <2>1
<1>4. ~Waits(cur)'
  BY DEF Waits, Taking, Scanning, Heading
<1> QED
  BY <1>3, <1>4 DEF FinderAt

(* Main looks at the index, or gives it back.                               *)
LEMMA LookMeaning ==
  ASSUME Types, Types', Main, Finders, NEW a \in Place, NEW b \in Place, Positions(a, b),
         LookAtFinder \/ ReleaseFinder, text' = text
  PROVE  Meaning'
<1>1. /\ Taking /\ Taking' /\ ~Heading' /\ ~Scanning' /\ mpc' \notin {"finish", "join", "end"}
      /\ UNCHANGED substVars /\ UNCHANGED <<ring, cur, posted, taken>>
  BY DEF LookAtFinder, ReleaseFinder, Taking, Heading, Scanning
<1>2. PICK f : f = finder[cur]
  OBVIOUS
<1>3. /\ cur \in Finder /\ cur \in Nat /\ StopOf(cur) \in Nat /\ Frontier = StopOf(cur)
      /\ f \in FinderType
      /\ f.pc \in {"scan", "ended"} => Found(text, f, taken, b, StopOf(cur))
      /\ f.pc \in {"created", "ready"} => b = <<f.start, 0>>
  BY <1>1, <1>2, TakingFacts
<1>4. /\ \A t \in Finder : t # cur => finder'[t] = finder[t]
      /\ \E g : /\ g = finder'[cur] /\ g.pc = f.pc /\ g.start = f.start
                /\ g.pos = f.pos /\ g.copied = f.copied /\ g.queue = f.queue
                /\ g.write = f.write /\ g.data = f.data
  <2>1. CASE LookAtFinder
    BY <2>1, <1>2 DEF LookAtFinder
  <2>2. CASE ReleaseFinder
    <3>1. PICK g : g = [f EXCEPT !.read = taken]
      OBVIOUS
    <3>2. Become(cur, g)
      BY <2>2, <1>2, <3>1 DEF ReleaseFinder, f0
    <3>3. finder'[cur] = g /\ \A t \in Finder : t # cur => finder'[t] = finder[t]
      BY <3>2, <1>3, OneFinder
    <3> QED
      BY <3>1, <3>3, <1>3, ReadFields
  <2> QED
    BY <2>1, <2>2
<1>5. PICK g : /\ g = finder'[cur] /\ g.pc = f.pc /\ g.start = f.start
               /\ g.pos = f.pos /\ g.copied = f.copied /\ g.queue = f.queue
               /\ g.write = f.write /\ g.data = f.data
  BY <1>4
<1>6. FinderAt(cur, g, b)'
  <2>1. g.pc \in {"scan", "ended"} => Found(text, g, taken', b, StopOf(cur))
    <3> SUFFICES ASSUME Found(text, f, taken, b, StopOf(cur))
                 PROVE  Found(text, g, taken', b, StopOf(cur))
      BY <1>3, <1>5
    <3>1. Found(text, g, taken, b, StopOf(cur))
      BY <1>5, FoundMore
    <3> QED
      BY <3>1, <1>1
  <2>2. g.pc \in {"created", "ready"} => b = <<g.start, 0>>
    BY <1>3, <1>5
  <2> QED
    BY <2>1, <2>2, <1>1, <1>3, TakingFinderAt
<1>7. MainAt(b)' /\ Frontier' = StopOf(cur)
  BY <1>1, MergeFrontier DEF MainAt
<1>8. \A t \in Finder : \E h : h = finder'[t] /\ FinderAt(t, h, b)'
  <2>1. \A t \in Finder : FinderAt(t, finder[t], b)
    BY DEF Positions
  <2> QED
    BY <2>1, <1>1, <1>3, <1>4, <1>5, <1>6, CurrentFinderAt
<1>9. Frontier' \in Nat /\ Frontier <= Frontier'
  BY <1>3, <1>7
<1> QED
  BY <1>1, <1>7, <1>8, <1>9, MainQuiet

(* What is taken goes from one ring to the other.                           *)
LEMMA TakeNMeaning ==
  ASSUME Types, Types', Indices, Main, Finders, NEW a \in Place, NEW b \in Place,
         Positions(a, b), mpc = "take", NEW n \in 1 .. Distance(FinderRing, taken, upTo),
         Take(n), taken' = Onward(FinderRing, taken, n), Room(n), text' = text
  PROVE  Meaning'
<1>1. /\ Taking /\ Taking' /\ ~Heading' /\ ~Scanning' /\ mpc' \notin {"finish", "join", "end"}
      /\ mpc \notin {"create", "await"}
      /\ UNCHANGED substVars /\ UNCHANGED <<finder, cur>>
  BY DEF Take, Taking, Heading, Scanning
<1>2. PICK f : f = finder[cur]
  OBVIOUS
<1>3. /\ cur \in Finder /\ cur \in Nat /\ StopOf(cur) \in Nat /\ Frontier = StopOf(cur)
      /\ f \in FinderType /\ f.pc \in {"created", "ready", "scan", "ended"} /\ Shared(cur, f)
      /\ f.pc \in {"scan", "ended"} => Found(text, f, taken, b, StopOf(cur))
  BY <1>1, <1>2, TakingFacts
<1>4. /\ taken \in 0 .. FinderRing - 1 /\ upTo \in 0 .. FinderRing - 1
      /\ FinderRing \in Nat \ {0} /\ Distance(FinderRing, taken, upTo) \in 0 .. FinderRing - 1
  BY Sizes, RingRange DEF Types
<1>5. f.pc \in {"scan", "ended"}
  <2>1. n >= 1 /\ n <= Distance(FinderRing, taken, upTo)
    BY <1>4
  <2>2. taken # upTo
    <3>1. Distance(FinderRing, taken, upTo) # 0
      BY <2>1, <1>4
    <3>2. taken = upTo => Distance(FinderRing, taken, upTo) = 0
      BY <1>4, RingSelf
    <3> QED
      BY <3>1, <3>2
  <2> QED
    BY <2>2, <1>1, <1>3 DEF Shared
<1>6. n \in 0 .. InRing(f, taken)
  <2>1. /\ Distance(FinderRing, f.read, taken) <= InRing(f, f.read)
        /\ Distance(FinderRing, taken, upTo) <= InRing(f, taken)
    BY <1>1, <1>3, <1>5 DEF Shared
  <2>2. n \in 0 .. Distance(FinderRing, taken, upTo)
    BY <1>4
  <2> QED
    BY <2>1, <2>2, <1>3, <1>4, TakenRange
<1>7. PICK cs \in Seq(Command), c \in Place :
        /\ Len(cs) = n /\ \A k \in 1 .. n : cs[k] = f.data[Onward(FinderRing, taken, k - 1)]
        /\ Run(text, Listed(cs), n, b, c, StopOf(cur))
        /\ Found(text, f, Onward(FinderRing, taken, n), c, StopOf(cur))
  <2>1. Found(text, f, taken, b, StopOf(cur))
    BY <1>3, <1>5
  <2> QED
    BY <2>1, <1>3, <1>4, <1>6, FoundTake
<1>8. Post(cs)
  <2>1. \A k \in 1 .. n : (taken + k - 1) % FinderRing = Onward(FinderRing, taken, k - 1)
    <3>1. ASSUME NEW k \in 1 .. n PROVE taken + k - 1 = taken + (k - 1)
      BY <1>4
    <3> QED
      BY <3>1 DEF Onward
  <2>2. cs = [k \in 1 .. n |-> f.data[(taken + k - 1) % FinderRing]]
    <3>1. cs = [k \in 1 .. n |-> cs[k]]
      BY <1>7
    <3>2. \A k \in 1 .. n : cs[k] = f.data[(taken + k - 1) % FinderRing]
      BY <2>1, <1>7
    <3> QED
      BY <3>1, <3>2
  <2>3. Post([k \in 1 .. n |-> f.data[(taken + k - 1) % FinderRing]])
    BY <1>2 DEF Take, f0
  <2> QED
    BY <2>2, <2>3
<1>11. FinderAt(cur, f, c)'
  <2>1. Found(text, f, taken', c, StopOf(cur))
    BY <1>7
  <2> QED
    BY <2>1, <1>1, <1>3, <1>5, TakingFinderAt
<1>12. MainAt(c)' /\ Frontier' = StopOf(cur)
  BY <1>1, MergeFrontier DEF MainAt
<1>13. \A t \in Finder : \E h : h = finder'[t] /\ FinderAt(t, h, c)'
  <2>1. \A t \in Finder : FinderAt(t, finder[t], b)
    BY DEF Positions
  <2>2. \E h : h = finder'[cur] /\ FinderAt(cur, h, c)'
    BY <1>1, <1>2, <1>11
  <2>3. \A t \in Finder : t # cur => finder'[t] = finder[t]
    BY <1>1
  <2> QED
    BY <2>1, <2>2, <2>3, <1>1, <1>3, CurrentFinderAt
<1>14. Frontier' \in Nat /\ Frontier <= Frontier'
  BY <1>3, <1>12
<1>15. Room(Len(cs)) /\ Run(text, Listed(cs), Len(cs), b, c, Frontier)
  BY <1>3, <1>7
<1> QED
  BY <1>1, <1>7, <1>8, <1>12, <1>13, <1>14, <1>15, MainPosts

LEMMA TakeMeaning ==
  ASSUME Types, Types', Indices, Main, Finders, NEW a \in Place, NEW b \in Place,
         Positions(a, b), TakeBatch \/ TakeOne, text' = text
  PROVE  Meaning'
<1>1. mpc = "take" /\ Waiting = Distance(FinderRing, taken, upTo)
  BY DEF TakeBatch, TakeOne, Waiting, Distance
<1>2. Distance(FinderRing, taken, upTo) \in Nat /\ Batch \in Nat \ {0}
  <2>1. /\ taken \in 0 .. FinderRing - 1 /\ upTo \in 0 .. FinderRing - 1
        /\ FinderRing \in Nat \ {0} /\ Batch \in Nat \ {0}
    BY Sizes DEF Types
  <2>2. Distance(FinderRing, taken, upTo) \in 0 .. FinderRing - 1
    BY <2>1, RingRange
  <2> QED
    BY <2>1, <2>2
<1>3. CASE TakeBatch
  <2>1. Take(Batch) /\ Room(Batch) /\ taken' = Onward(FinderRing, taken, Batch)
    BY <1>3, RoomGuards DEF TakeBatch, Take, Onward
  <2>2. Batch \in 1 .. Distance(FinderRing, taken, upTo)
    BY <1>1, <1>2, <1>3 DEF TakeBatch
  <2> QED
    BY <2>1, <2>2, <1>1, TakeNMeaning
<1>4. CASE TakeOne
  <2>1. Take(1) /\ Room(1) /\ taken' = Onward(FinderRing, taken, 1)
    BY <1>4, RoomGuards DEF TakeOne, Take, Onward
  <2>2. 1 \in 1 .. Distance(FinderRing, taken, upTo)
    BY <1>1, <1>2, <1>4 DEF TakeOne
  <2>3. PICK n : n = 1
    OBVIOUS
  <2>4. /\ Take(n) /\ Room(n) /\ taken' = Onward(FinderRing, taken, n)
        /\ n \in 1 .. Distance(FinderRing, taken, upTo)
    BY <2>1, <2>2, <2>3
  <2> QED
    BY <2>4, <1>1, TakeNMeaning
<1> QED
  BY <1>3, <1>4

(* When a finder has ended and its ring is empty, main stands where the     *)
(* finder's last match ended.                                               *)
LEMMA JoinMeaning ==
  ASSUME Types, Types', Main, Finders, NEW a \in Place, NEW b \in Place, Positions(a, b),
         JoinFinder, text' = text
  PROVE  Meaning'
<1>1. PICK f : f = finder[cur]
  OBVIOUS
<1>2. /\ mpc = "merge" /\ Taking /\ f.done /\ taken = f.write /\ extra' = extra + f.extra
      /\ cur' = (IF cur < Threads THEN cur + 1 ELSE cur)
      /\ mpc' = (IF cur < Threads THEN "head" ELSE "finish")
      /\ UNCHANGED substVars /\ UNCHANGED <<finder, ring, posted>>
  BY <1>1 DEF JoinFinder, Taking, f0
<1>3. /\ text \in Texts /\ Split /\ cur \in Finder /\ cur \in Nat /\ extra = 0
      /\ StopOf(cur) \in Nat /\ StopOf(cur) <= L + 1 /\ Frontier = StopOf(cur)
      /\ f \in FinderType /\ Alone(cur, f)
      /\ f.pc \in {"scan", "ended"} => Found(text, f, taken, b, StopOf(cur))
  BY <1>1, <1>2, TakingFacts
<1>4. Threads \in Nat \ {0} /\ cur <= Threads /\ FinderRing \in Nat \ {0} /\ L \in Nat
  BY <1>3, Sizes, TextLength DEF Finder
<1>5. /\ f.pc = "ended" /\ f.queue = <<>> /\ f.copied = 0 /\ f.extra = f.pos - StopOf(cur)
      /\ f.pos \in 1 .. L + 1 /\ f.pos >= StopOf(cur)
  BY <1>2, <1>3 DEF Alone, WithinRegion, FinderType
<1>6. b = <<f.pos, 0>>
  <2>1. InRing(f, taken) = 0
    <3>1. taken \in 0 .. FinderRing - 1
      BY DEF Types
    <3> QED
      BY <3>1, <1>2, <1>4, RingSelf DEF InRing
  <2>2. PICK z \in Place : /\ Run(text, Slots(f, taken), 0, b, z, StopOf(cur))
                           /\ Scanned(text, <<>>, f.pos, 0, z, StopOf(cur))
    BY <2>1, <1>3, <1>5 DEF Found
  <2>3. z = b
    BY <2>2, RunEmpty
  <2>4. f.pos \in Nat /\ 0 <= f.pos /\ 0 \in Nat
    BY <1>4, <1>5
  <2>5. z = <<f.pos - 0, 0>>
    BY <2>2, <2>4, ScannedNothing
  <2> QED
    BY <2>3, <2>4, <2>5
<1>7. CASE cur < Threads
  <2>1. mpc' = "head" /\ Heading' /\ ~Taking' /\ ~Scanning' /\ cur' = cur + 1
    BY <1>2, <1>7 DEF Heading, Taking, Scanning
  <2>2. StartOf(cur)' = StopOf(cur)
    <3>1. \A t : StartOf(t)' = StartOf(t)
      BY SameText
    <3>2. PICK t : t = cur + 1
      OBVIOUS
    <3>3. StartOf(cur)' = StartOf(t)'
      BY <2>1, <3>2 DEF StartOf
    <3>4. StopOf(cur) = StartOf(cur + 1)
      BY <1>3, <1>7, Regions
    <3> QED
      BY <3>1, <3>2, <3>3, <3>4
  <2>3. MainAt(b)' /\ Frontier' = StopOf(cur)
    <3>1. StopOf(cur) + extra' = f.pos
      BY <1>2, <1>3, <1>4, <1>5
    <3> QED
      BY <2>1, <2>2, <3>1, <1>6 DEF MainAt, Frontier, Heading
  <2>4. ASSUME NEW t \in Finder PROVE \E g : g = finder'[t] /\ FinderAt(t, g, b)'
    <3>1. PICK g : g = finder[t] /\ FinderAt(t, g, b)
      BY DEF Positions
    <3>2. Waits(t)' <=> Waits(t)
      <4>1. Waits(t)' <=> t >= cur + 1
        BY <2>1 DEF Waits
      <4>2. Waits(t) <=> t > cur
        BY <1>2 DEF Waits, Taking, Scanning, Heading
      <4> QED
        BY <4>1, <4>2, <1>3 DEF Finder
    <3>3. mpc # "drain" /\ mpc' # "drain" /\ StopOf(t)' = StopOf(t)
      BY <1>2, <2>1, SameText
    <3>4. FinderAt(t, g, b)'
      BY <3>1, <3>2, <3>3, <2>1 DEF FinderAt
    <3>5. g = finder'[t]
      BY <3>1, <1>2
    <3> QED
      BY <3>4, <3>5
  <2>5. Frontier' \in Nat /\ Frontier <= Frontier'
    BY <1>3, <2>3
  <2> QED
    BY <1>2, <2>3, <2>4, <2>5, MainQuiet
<1>8. CASE ~(cur < Threads)
  <2>1. mpc' = "finish" /\ ~Heading' /\ ~Taking' /\ ~Scanning' /\ L' = L
    BY <1>2, <1>8, SameText DEF Heading, Taking, Scanning
  <2>2. f.pos = L + 1
    <3>1. cur = Threads
      BY <1>3, <1>4, <1>8
    <3>2. StopOf(cur) = L + 1
      BY <3>1 DEF StopOf
    <3> QED
      BY <3>2, <1>4, <1>5
  <2>3. MainAt(b)' /\ Frontier' = L + 1
    BY <1>6, <2>1, <2>2 DEF MainAt, Frontier
  <2>4. ASSUME NEW t \in Finder PROVE \E g : g = finder'[t] /\ FinderAt(t, g, b)'
    <3>1. PICK g : g = finder'[t]
      OBVIOUS
    <3>2. FinderAt(t, g, b)'
      BY <2>1 DEF FinderAt, Waits
    <3> QED
      BY <3>1, <3>2
  <2>5. Frontier' \in Nat /\ Frontier <= Frontier'
    BY <1>3, <1>4, <2>3
  <2> QED
    BY <1>2, <2>3, <2>4, <2>5, MainQuiet
<1> QED
  BY <1>7, <1>8

LEMMA OverFinders ==
  ASSUME mpc' \in {"finish", "join", "end"}, NEW c
  PROVE  \A t \in Finder : \E g : g = finder'[t] /\ FinderAt(t, g, c)'
<1> SUFFICES ASSUME NEW t \in Finder PROVE \E g : g = finder'[t] /\ FinderAt(t, g, c)'
  OBVIOUS
<1>1. PICK g : g = finder'[t]
  OBVIOUS
<1>2. FinderAt(t, g, c)'
  BY DEF FinderAt, Waits, Taking, Scanning, Heading
<1> QED
  BY <1>1, <1>2

LEMMA PostEndMeaning ==
  ASSUME Types, Types', Indices, Main, NEW a \in Place, NEW b \in Place, Positions(a, b),
         PostEnd, text' = text
  PROVE  Meaning'
<1>1. /\ mpc = "finish" /\ mpc' = "join" /\ Post(<<EndOfText>>) /\ UNCHANGED substVars
      /\ ~Scanning' /\ ~Heading'
  BY DEF PostEnd, Scanning, Heading
<1>2. L \in Nat /\ L' = L /\ Frontier = L + 1 /\ Frontier' = L + 1
  <2>1. text \in Texts
    BY DEF Types
  <2> QED
    BY <1>1, <2>1, TextLength, SameText DEF Frontier
<1>3. PICK c : c = <<L + 1, 1>>
  OBVIOUS
<1>4. c \in Place /\ b = <<L + 1, 0>> /\ EndOfText \in Command
  BY <1>1, <1>2, <1>3 DEF Place, Positions, MainAt, Command
<1>5. Follows(text, EndOfText, b, c, Frontier)
  BY <1>3, <1>4 DEF Follows, EndOfText, L
<1>6. /\ <<EndOfText>> \in Seq(Command) /\ Room(Len(<<EndOfText>>))
      /\ Run(text, Listed(<<EndOfText>>), Len(<<EndOfText>>), b, c, Frontier)
  <2>1. Room(1)
    BY RoomGuards
  <2> QED
    BY <2>1, <1>4, <1>5, RunOne
<1>7. MainAt(c)'
  BY <1>1, <1>2, <1>3 DEF MainAt
<1>8. \A t \in Finder : \E g : g = finder'[t] /\ FinderAt(t, g, c)'
  BY <1>1, OverFinders
<1>9. Frontier' \in Nat /\ Frontier <= Frontier' /\ mpc \notin {"create", "await"}
  BY <1>1, <1>2
<1> QED
  BY <1>1, <1>4, <1>6, <1>7, <1>8, <1>9, MainPosts

LEMMA EndMeaning ==
  ASSUME Types, Types', Main, NEW a \in Place, NEW b \in Place, Positions(a, b),
         JoinSubstitute, text' = text
  PROVE  Meaning'
<1>1. /\ mpc = "join" /\ mpc' = "end" /\ UNCHANGED substVars /\ UNCHANGED <<ring, posted>>
      /\ ~Scanning' /\ ~Heading'
  BY DEF JoinSubstitute, Scanning, Heading
<1>2. L \in Nat /\ L' = L /\ Frontier = L + 1 /\ Frontier' = L + 1
  <2>1. text \in Texts
    BY DEF Types
  <2> QED
    BY <1>1, <2>1, TextLength, SameText DEF Frontier
<1>3. MainAt(b)'
  BY <1>1, <1>2 DEF Positions, MainAt
<1>4. \A t \in Finder : \E g : g = finder'[t] /\ FinderAt(t, g, b)'
  BY <1>1, OverFinders
<1> QED
  BY <1>1, <1>2, <1>3, <1>4, MainQuiet

LEMMA MainMeaning ==
  ASSUME Types, Types', Indices, Main, Finders, NEW a \in Place, NEW b \in Place,
         Positions(a, b), MainStep
  PROVE  Meaning'
<1>1. text' = text
  BY DEF MainStep
<1>2. CASE CreateThreads \/ AwaitSubstitute \/ ScanOwn \/ PostCopy \/ PostPair \/ EndScan
  BY <1>1, <1>2, CreateMeaning, AwaitMeaning, ScanMeaning, PostCopyMeaning, PostPairMeaning,
     EndScanMeaning
<1>3. CASE HeadAligned \/ TrimFirst \/ Discard \/ Drain \/ Rerun
  BY <1>1, <1>3, AlignedMeaning, TrimMeaning, DrainMeaning, RerunMeaning
<1>4. CASE LookAtFinder \/ TakeBatch \/ TakeOne \/ ReleaseFinder \/ JoinFinder
  BY <1>1, <1>4, LookMeaning, TakeMeaning, JoinMeaning
<1>5. CASE PostEnd \/ JoinSubstitute
  BY <1>1, <1>5, PostEndMeaning, EndMeaning
<1> QED
  BY <1>2, <1>3, <1>4, <1>5 DEF MainStep

-------------------------------------------------------------------------------
(* The invariant holds.                                                     *)
LEMMA InvInit ==
  ASSUME OldIndex = 0, Init
  PROVE  Inv
<1>1. /\ text \in Texts /\ buf = text /\ finder = [t \in Finder |-> NoFinder(t)]
      /\ mpc = "create" /\ pos = 1 /\ copied = 0 /\ queue = <<>> /\ extra = 0
      /\ cur = 1 /\ taken = 0 /\ upTo = 0 /\ ring = [k \in 0 .. Ring - 1 |-> EndOfText]
      /\ posted = 0 /\ wrote = 0 /\ read \in {0, Half} /\ spc = "none"
      /\ next = 0 /\ seen = 0 /\ old = 1 /\ out = 1
  BY DEF Init
<1>2. /\ L \in Nat /\ Block \in Nat /\ Stop0 \in 1 .. L + 1 /\ Stop0 \in Nat
      /\ Threads \in Nat \ {0} /\ 1 \in Finder /\ CopyMax \in Nat /\ Half \in Nat \ {0}
      /\ Ring = 2 * Half /\ FinderRing \in Nat \ {0} /\ FinderRing > 1
  BY <1>1, TextLength, Sizes DEF Finder
<1>3. ASSUME NEW t \in Finder
      PROVE  LET f == finder[t]
             IN /\ f \in FinderType /\ f.pc = "none" /\ f.start = StartOf(t)
                /\ f.write = 0 /\ f.read = 0 /\ f.done = FALSE
  <2>1. StartOf(t) \in Nat
    <3>1. t - 1 \in Nat
      BY DEF Finder
    <3>2. (t - 1) * Block \in Nat
      BY <3>1, <1>2
    <3> QED
      BY <3>2, <1>2 DEF StartOf
  <2>2. [k \in 0 .. FinderRing - 1 |-> Copy(1)] \in [0 .. FinderRing - 1 -> Command]
    BY DEF Copy, Command
  <2>3. <<>> \in Seq(Command) /\ 0 \in Nat /\ 0 \in 0 .. FinderRing - 1
    BY <1>2
  <2>4. finder[t] = [pc |-> "none", start |-> StartOf(t), pos |-> 0, copied |-> 0, queue |-> <<>>,
                     extra |-> 0, write |-> 0, read |-> 0, done |-> FALSE,
                     data |-> [k \in 0 .. FinderRing - 1 |-> Copy(1)]]
    BY <1>1 DEF NoFinder
  <2>5. finder[t] \in FinderType
    BY <2>1, <2>2, <2>3, <2>4 DEF FinderType
  <2> QED
    BY <2>4, <2>5
<1>4. Types
  <2>1. finder \in [Finder -> FinderType]
    <3>1. finder = [t \in Finder |-> finder[t]]
      BY <1>1
    <3> QED
      BY <3>1, <1>3
  <2>2. ring \in [0 .. Ring - 1 -> Command]
    BY <1>1 DEF Command
  <2>3. read \in 0 .. Ring - 1 /\ 0 \in 0 .. Ring - 1 /\ 0 \in 0 .. FinderRing - 1
        /\ 0 \in Nat
    BY <1>1, <1>2
  <2>4. /\ text \in Texts /\ mpc = "create" /\ spc = "none" /\ pos \in Nat /\ copied \in Nat
        /\ queue \in Seq(Command) /\ extra \in Nat /\ cur \in Finder /\ old \in Nat /\ out \in Nat
    BY <1>1, <1>2, <2>3
  <2> QED
    BY <1>1, <2>1, <2>2, <2>3, <2>4 DEF Types
<1>5. Indices
  BY <1>1 DEF Indices
<1>6. Scanning /\ ~Heading /\ ~Taking
  BY <1>1 DEF Scanning, Heading, Taking
<1>7. Main
  <2>1. WithinRegion(pos, copied, Stop0)
    BY <1>1, <1>2 DEF WithinRegion
  <2> QED
    BY <1>1, <1>6, <2>1 DEF Main
<1>8. ASSUME NEW t \in Finder PROVE Alone(t, finder[t]) /\ Shared(t, finder[t])
  <2>1. PICK f : f = finder[t]
    OBVIOUS
  <2>2. f.pc = "none" /\ f.start = StartOf(t) /\ f.write = 0 /\ f.read = 0 /\ f.done = FALSE
    BY <1>3, <2>1
  <2>3. Split => StartOf(t) \in StartOf(t) .. StopOf(t)
    BY <1>1, <1>2, Regions
  <2>4. Alone(t, f)
    BY <2>2, <2>3 DEF Alone
  <2>5. Shared(t, f)
    BY <1>1, <1>6, <2>2 DEF Shared, Waits, Over
  <2> QED
    BY <2>1, <2>4, <2>5
<1>9. Meaning
  <2>1. PICK a : a = <<1, 0>>
    OBVIOUS
  <2>2. a \in Place /\ a[1] = 1 /\ a[2] = 0
    BY <2>1 DEF Place
  <2>3. ThreadAt(a)
    BY <1>1, <1>2, <2>2 DEF ThreadAt
  <2>4. MainAt(a)
    <3>1. NoRule(text, 1 - 0, 1) /\ a = <<1 - 0, 0>>
      BY <2>1 DEF NoRule
    <3>2. Scanned(text, <<>>, 1, 0, a, Stop0)
      BY <3>1, ScannedNothing
    <3> QED
      BY <1>1, <1>6, <3>2 DEF MainAt
  <2>5. Run(text, Pending, Ahead, a, a, Frontier)
    <3>1. Ahead = 0
      <4>1. Ring \in Nat \ {0} /\ 0 \in 0 .. Ring - 1
        BY <1>2
      <4> QED
        BY <4>1, <1>1, RingSelf DEF Ahead
    <3> QED
      BY <3>1, <2>2, RunEmpty
  <2>6. 1 <= out /\ out <= a[1] /\ out <= Frontier
    BY <1>1, <1>2, <2>2 DEF Frontier
  <2>7. Rewrote(text, buf, out, a[1])
    BY <1>1, <2>2, RewroteStart
  <2>8. ASSUME NEW t \in Finder PROVE FinderAt(t, finder[t], a)
    <3>1. PICK f : f = finder[t]
      OBVIOUS
    <3>2. f.pc = "none"
      BY <1>3, <3>1
    <3>3. FinderAt(t, f, a)
      BY <3>2 DEF FinderAt
    <3> QED
      BY <3>1, <3>3
  <2> QED
    BY <2>2, <2>3, <2>4, <2>5, <2>6, <2>7, <2>8 DEF Positions, Meaning
<1> QED
  BY <1>4, <1>5, <1>7, <1>8, <1>9 DEF Inv, Finders

LEMMA InvNext ==
  ASSUME Inv, [Next]_vars
  PROVE  Inv'
<1>1. Types /\ Indices /\ Main /\ Finders
  BY DEF Inv
<1>2. PICK a \in Place, b \in Place : Positions(a, b)
  BY DEF Inv, Meaning
<1>3. CASE MainStep
  <2>1. Types'
    BY <1>1, <1>3, MainTypesKept
  <2> QED
    BY <1>1, <1>2, <1>3, <2>1, MainIndicesKept, MainMain, MainFinders, MainMeaning DEF Inv
<1>4. CASE SubstituteStep
  <2>1. UNCHANGED <<text, finder, mainVars>>
    BY <1>4 DEF SubstituteStep
  <2>2. Main' /\ Finders'
    BY <2>1, <1>1, MainStill, FindersStill DEF mainVars
  <2> QED
    BY <1>1, <1>2, <1>4, <2>2, SubstituteTypesKept, SubstituteIndicesKept, SubstituteMeaning
       DEF Inv
<1>5. CASE \E t \in Finder : FinderStep(t)
  <2>1. PICK t \in Finder : FinderStep(t)
    BY <1>5
  <2>2. UNCHANGED <<text, ring, mainVars, substVars>>
    BY <2>1 DEF FinderStep
  <2>3. Types'
    <3>1. finder' \in [Finder -> FinderType]
      BY <1>1, <2>1, FinderTypes
    <3>2. Ring' = Ring
      BY DEF Ring
    <3> QED
      BY <1>1, <2>2, <3>1, <3>2 DEF Types, mainVars, substVars
  <2>4. Main'
    BY <2>2, <1>1, MainStill DEF mainVars
  <2> QED
    BY <1>1, <1>2, <2>1, <2>3, <2>4, FinderIndicesKept, FinderFinders, FinderMeaning DEF Inv
<1>6. CASE UNCHANGED vars
  <2>1. UNCHANGED <<text, finder, ring, mainVars, substVars>>
    BY <1>6 DEF vars
  <2>2. Main' /\ Finders'
    BY <2>1, <1>1, MainStill, FindersStill DEF mainVars
  <2>3. Types'
    BY <1>1, <2>1 DEF Types, mainVars, substVars, Ring
  <2>4. Indices'
    BY <1>1, <2>1 DEF Indices, Since, mainVars, substVars, Ring
  <2>5. Meaning'
    <3>1. MainAt(b)' /\ Frontier' = Frontier
      BY <1>2, <2>1, MainAtStill DEF mainVars, Positions
    <3>2. \A t \in Finder : \E g : g = finder'[t] /\ FinderAt(t, g, b)'
      BY <1>2, <2>1, FindersAtStill DEF mainVars, Positions
    <3>3. UNCHANGED substVars /\ UNCHANGED <<text, ring, posted>>
      BY <2>1 DEF mainVars
    <3>4. Frontier \in Nat
      BY <1>1, FrontierBound DEF Types, Main
    <3> QED
      BY <1>1, <1>2, <2>3, <3>1, <3>2, <3>3, <3>4, MainQuiet
  <2> QED
    BY <2>2, <2>3, <2>4, <2>5 DEF Inv
<1> QED
  BY <1>3, <1>4, <1>5, <1>6 DEF Next, Finished

LEMMA InvHolds ==
  ASSUME OldIndex = 0
  PROVE  Spec => []Inv
<1>1. Init => Inv
  BY InvInit
<1>2. Inv /\ [Next]_vars => Inv'
  BY InvNext
<1> QED
  BY <1>1, <1>2, PTL DEF Spec

-------------------------------------------------------------------------------
(* What follows from it.                                                    *)
(* Where the thread that obeys is.                                          *)
LEMMA ThreadPlace ==
  ASSUME Types, NEW a \in Place, NEW b, Positions(a, b)
  PROVE  /\ L \in Nat /\ a[1] \in 1 .. L + 1 /\ old \in Nat /\ old <= L + 1
         /\ out \in Nat /\ 1 <= out /\ out <= a[1] /\ a[1] <= old
<1>1. text \in Texts /\ L \in Nat /\ a[1] \in Nat /\ a[2] \in Nat
      /\ out \in Nat /\ old \in Nat
  BY TextLength DEF Types, Place
<1>2. ThreadAt(a) /\ 1 <= out /\ out <= a[1]
  BY DEF Positions
<1>3. CASE spc \in {"put", "half"}
  <2>1. old = a[1] + a[2]
    BY <1>2, <1>3 DEF ThreadAt
  <2>2. PICK s \in RuleAt(text, a[1]) : a[2] = Len(Rules[s])
    BY <1>2, <1>3 DEF ThreadAt
  <2>3. a[1] + Len(Rules[s]) <= L + 1
    BY <1>1, RuleLength DEF L
  <2> QED
    BY <1>1, <1>2, <2>1, <2>2, <2>3
<1>4. CASE spc \notin {"put", "half"}
  BY <1>1, <1>2, <1>4 DEF ThreadAt
<1> QED
  BY <1>3, <1>4

LEMMA TypesInv ==
  ASSUME Inv
  PROVE  TypeOK
<1>1. Types /\ Main /\ Finders /\ Meaning
  BY DEF Inv
<1>2. PICK a \in Place, b \in Place : Positions(a, b)
  BY <1>1 DEF Meaning
<1>3. L \in Nat /\ {old, out} \subseteq 1 .. L + 1
  BY <1>1, <1>2, ThreadPlace
<1>4. pos \in 1 .. L + 1 /\ copied \in 0 .. pos - 1
  BY <1>1, <1>3 DEF Main, WithinRegion, Types
<1>5. extra \in 0 .. L
  <2>1. extra \in Nat /\ cur \in Finder /\ text \in Texts
    BY <1>1 DEF Types
  <2>2. CASE Heading
    <3>1. StartOf(cur) + extra <= StopOf(cur) /\ Split
      BY <1>1, <2>2 DEF Main
    <3>2. /\ StartOf(cur) \in Nat /\ StopOf(cur) \in Nat
          /\ Stop0 <= StartOf(cur) /\ StopOf(cur) <= L + 1 /\ Stop0 \in 1 .. L + 1
      BY <2>1, <3>1, Regions, TextLength
    <3> QED
      BY <2>1, <3>1, <3>2, <1>3
  <2>3. CASE ~Heading
    BY <1>1, <1>3, <2>3 DEF Main
  <2> QED
    BY <2>2, <2>3
<1>6. ASSUME NEW t \in Finder
      PROVE  /\ Split => finder[t].start \in StartOf(t) .. StopOf(t)
             /\ {finder[t].write, finder[t].read} \subseteq 0 .. FinderRing - 1
             /\ finder[t].copied \in Nat
             /\ finder[t].pc = "scan" => finder[t].copied < finder[t].pos
  <2>1. PICK f : f = finder[t]
    OBVIOUS
  <2>2. f \in FinderType /\ Alone(t, f)
    BY <1>1, <2>1 DEF Types, Finders
  <2>3. Split => f.start \in StartOf(t) .. StopOf(t)
    BY <2>2 DEF Alone
  <2>4. f.write \in 0 .. FinderRing - 1 /\ f.read \in 0 .. FinderRing - 1 /\ f.copied \in Nat
    BY <2>2 DEF FinderType
  <2>5. f.pc = "scan" => f.copied < f.pos
    BY <2>2 DEF Alone, WithinRegion
  <2> QED
    BY <2>1, <2>3, <2>4, <2>5
<1>7. /\ cur \in Finder
      /\ {posted, wrote, read, next, seen} \subseteq 0 .. Ring - 1
      /\ {taken, upTo} \subseteq 0 .. FinderRing - 1
  BY <1>1 DEF Types
<1> QED
  BY <1>3, <1>4, <1>5, <1>6, <1>7 DEF TypeOK

(* Every position and every index stays in its range: GLZAcompress.c has no *)
(* check of any of them.                                                    *)
THEOREM SubstituteTypes ==
  ASSUME OldIndex = 0
  PROVE  Spec => []TypeOK
<1>1. Inv => TypeOK
  BY TypesInv
<1> QED
  BY <1>1, InvHolds, PTL

LEMMA BehindInv ==
  ASSUME Inv
  PROVE  BehindReaders
<1>1. Types /\ Main /\ Finders /\ Meaning
  BY DEF Inv
<1>2. PICK a \in Place, b \in Place : Positions(a, b)
  BY <1>1 DEF Meaning
<1>3. out <= old
  BY <1>1, <1>2, ThreadPlace
<1>4. Scanning => out <= pos
  BY <1>1, <1>2, Readers
<1>5. \A t \in Finder : /\ finder[t].pc \in {"created", "ready"} => out <= finder[t].start
                        /\ finder[t].pc = "scan" => out <= finder[t].pos
  BY <1>1, <1>2, Readers
<1> QED
  BY <1>3, <1>4, <1>5 DEF BehindReaders, Scanning

(* The thread that writes the text never overtakes one that reads it, nor   *)
(* itself, whatever the rings' sizes, the regions and the matches across    *)
(* their borders (substitute_thread, find_substitutions_thread).            *)
THEOREM NeverOvertaken ==
  ASSUME OldIndex = 0
  PROVE  Spec => []BehindReaders
<1>1. Inv => BehindReaders
  BY BehindInv
<1> QED
  BY <1>1, InvHolds, PTL

LEMMA RewroteReference ==
  ASSUME NEW t \in Texts, NEW d, NEW o \in Nat \ {0}, NEW p \in 1 .. Len(t) + 1, o <= p,
         Rewrote(t, d, o, p)
  PROVE  LET whole == RewrittenFrom(t)[1]
         IN o - 1 <= Len(whole) /\ SubSeq(d, 1, o - 1) = SubSeq(whole, 1, o - 1)
<1> DEFINE whole == RewrittenFrom(t)[1]
           rest == RewrittenFrom(t)[p]
           S == Symbol(t)
<1>1. Len(t) \in Nat
  BY TextIsSequence
<1>2. whole \in Seq(S) /\ rest \in Seq(S)
  <2>1. 1 \in 1 .. Len(t) + 1
    BY <1>1
  <2> QED
    BY <2>1, RewrittenText
<1>3. /\ d \in [1 .. Len(t) -> S] /\ Len(whole) = o - 1 + Len(rest)
      /\ \A k \in 1 .. o - 1 : d[k] = whole[k]
  BY DEF Rewrote
<1> HIDE DEF whole, rest, S
<1>4. d \in Seq(S) /\ Len(d) = Len(t)
  BY <1>1, <1>3
<1>5. Len(whole) \in Nat /\ Len(rest) \in Nat
  BY <1>2
<1>6. o - 1 <= Len(whole) /\ o - 1 <= Len(d) /\ o - 1 \in Nat
  BY <1>1, <1>3, <1>4, <1>5
<1>7. SubSeq(d, 1, o - 1) = SubSeq(whole, 1, o - 1)
  <2>1. PICK n \in Nat : n = o - 1
    BY <1>6
  <2>2. SubSeq(d, 1, n) = [k \in 1 .. n |-> d[k]]
    BY <2>1, <1>4, <1>6, SubSeqProperties
  <2>3. SubSeq(whole, 1, n) = [k \in 1 .. n |-> whole[k]]
    BY <2>1, <1>2, <1>6, SubSeqProperties
  <2> QED
    BY <2>1, <2>2, <2>3, <1>3
<1> QED
  BY <1>6, <1>7 DEF whole

LEMMA SubstitutesInv ==
  ASSUME Inv
  PROVE  SubstitutesAll
<1>1. Types /\ Indices /\ Meaning
  BY DEF Inv
<1>2. PICK a \in Place, b \in Place : Positions(a, b)
  BY <1>1 DEF Meaning
<1>3. /\ text \in Texts /\ L \in Nat /\ a[1] \in 1 .. L + 1 /\ out \in Nat \ {0} /\ out <= a[1]
      /\ Rewrote(text, buf, out, a[1])
  BY <1>1, <1>2, ThreadPlace DEF Types, Positions
<1>4. out - 1 <= Len(Reference) /\ SubSeq(buf, 1, out - 1) = SubSeq(Reference, 1, out - 1)
  BY <1>3, RewroteReference DEF Reference, L
<1>5. ASSUME mpc = "end" PROVE out - 1 = Len(Reference)
  <2>1. a[1] = L + 1
    <3>1. spc = "ended"
      BY <1>1, <1>5 DEF Indices
    <3>2. a = <<L + 1, 1>>
      BY <1>2, <3>1 DEF Positions, ThreadAt
    <3> QED
      BY <3>2
  <2>2. Rewrote(text, buf, out, Len(text) + 1)
    BY <1>3, <2>1 DEF L
  <2> QED
    BY <1>3, <2>2, RewroteEnd DEF Reference
<1> QED
  BY <1>4, <1>5 DEF SubstitutesAll

(* However the threads interleave, wherever the regions end and however     *)
(* small the rings are, the text comes out as one scan from left to right   *)
(* would have made it, and in the end all of it has.                        *)
THEOREM SubstitutesEverything ==
  ASSUME OldIndex = 0
  PROVE  Spec => []SubstitutesAll
<1>1. Inv => SubstitutesAll
  BY SubstitutesInv
<1> QED
  BY <1>1, InvHolds, PTL

LEMMA PostedMore ==
  ASSUME Types, Indices, Main, MainStep, posted' # posted
  PROVE  Unread' > Unread
<1>1. PostCopy \/ PostPair \/ (EndScan /\ copied > 0) \/ TakeBatch \/ TakeOne \/ PostEnd
  <2>1. ~CreateThreads /\ ~AwaitSubstitute /\ ~ScanOwn /\ ~HeadAligned /\ ~TrimFirst /\ ~Discard
    BY DEF CreateThreads, AwaitSubstitute, ScanOwn, HeadAligned, TrimFirst, Discard
  <2>2. ~Drain /\ ~Rerun /\ ~LookAtFinder /\ ~ReleaseFinder /\ ~JoinFinder /\ ~JoinSubstitute
    BY DEF Drain, Rerun, LookAtFinder, ReleaseFinder, JoinFinder, JoinSubstitute, mainVars
  <2>3. EndScan => copied > 0
    BY DEF EndScan
  <2> QED
    BY <2>1, <2>2, <2>3 DEF MainStep
<1>2. /\ mpc \notin {"create", "await"} /\ UNCHANGED substVars
      /\ \E cs \in Seq(Command) : Room(Len(cs)) /\ Post(cs)
  BY <1>1, PostActions
<1>3. PICK cs \in Seq(Command) : Room(Len(cs)) /\ Post(cs)
  BY <1>2
<1>4. Len(cs) \in Nat \ {0} /\ Since(posted)' = Since(posted) + Len(cs)
  BY <1>2, <1>3, PostRoom
<1>5. Unread = Since(posted) /\ Unread' = Since(posted)'
  BY DEF Unread, Since, Distance
<1>6. Since(posted) \in Nat
  BY SinceRange
<1> QED
  BY <1>4, <1>5, <1>6

LEMMA PutMore ==
  ASSUME Types, NEW t \in Finder, PutCommand(t)
  PROVE  (finder'[t].write - finder'[t].read) % FinderRing # 0
<1>1. PICK f, g : f = finder[t] /\ g = finder'[t]
  OBVIOUS
<1>2. ~Full(f) /\ g.write = Onward(FinderRing, f.write, 1) /\ g.read = f.read
  BY <1>1, PutFields
<1>3. f \in FinderType /\ f.read \in 0 .. FinderRing - 1 /\ FinderRing \in Nat \ {0}
  BY <1>1, Sizes DEF Types, FinderType
<1>4. InRing(f, f.read) \in 0 .. FinderRing - 1 /\ InRing(f, f.read) # FinderRing - 1
  <2>1. InRing(f, f.read) # FinderRing - 1
    BY <1>2 DEF Full, InRing, Distance
  <2> QED
    BY <2>1, <1>3, InRingRange
<1>5. InRing(f, f.read) + 1 < FinderRing
  BY <1>3, <1>4
<1>6. InRing(g, f.read) = InRing(f, f.read) + 1
  BY <1>2, <1>3, <1>5, WriteMore
<1>7. InRing(g, g.read) # 0
  BY <1>2, <1>4, <1>6
<1> QED
  BY <1>1, <1>7 DEF InRing, Distance

(* Only a finder moves its write index while it scans.                      *)
LEMMA OnlyFinderWrites ==
  ASSUME Types, Indices, Main, Finders, MainStep, NEW t \in Finder, finder[t].pc = "scan"
  PROVE  finder'[t].write = finder[t].write
<1>1. PICK f : f = finder[t]
  OBVIOUS
<1>2. f \in FinderType /\ f.pc = "scan" /\ Alone(t, f) /\ Shared(t, f) /\ cur \in Finder
  BY <1>1 DEF Types, Finders
<1>3. f.done = FALSE
  BY <1>2 DEF Alone, FinderType
<1>4. mpc # "create"
  BY <1>2 DEF Shared
<1>5. CASE t = cur
  <2>1. CASE TrimFirst
    <3>1. finder'[t] = f \/ Become(t, [f EXCEPT !.data[0].n = @ - extra])
      BY <1>1, <1>5, <2>1 DEF TrimFirst, f0
    <3>2. ASSUME NEW g, g = [f EXCEPT !.data[0].n = @ - extra] PROVE g.write = f.write
      BY <1>2, <3>2, TrimFields
    <3> QED
      BY <1>1, <3>1, <3>2, OneFinder
  <2>2. CASE Drain \/ ReleaseFinder
    <3>1. PICK n : Become(t, [f EXCEPT !.read = n])
      BY <1>1, <1>5, <2>2 DEF Drain, ReleaseFinder, f0
    <3>2. ASSUME NEW g, g = [f EXCEPT !.read = n] PROVE g.write = f.write
      BY <1>2, <3>2, ReadFields
    <3> QED
      BY <1>1, <3>1, <3>2, OneFinder
  <2>3. ~Rerun
    BY <1>1, <1>3, <1>5 DEF Rerun, f0
  <2>4. CASE ~TrimFirst /\ ~Drain /\ ~ReleaseFinder
    <3>1. finder' = finder
      BY <2>3, <2>4, <1>4 DEF MainStep, CreateThreads, AwaitSubstitute, ScanOwn, PostCopy, PostPair,
         EndScan, HeadAligned, Discard, LookAtFinder, TakeBatch, TakeOne, Take, JoinFinder,
         PostEnd, JoinSubstitute
    <3> QED
      BY <3>1
  <2> QED
    BY <2>1, <2>2, <2>4
<1>6. CASE t # cur
  <2>1. finder' = finder \/ \E g : Become(cur, g)
    BY <1>4 DEF MainStep, CreateThreads, AwaitSubstitute, ScanOwn, PostCopy, PostPair,
       EndScan, HeadAligned, TrimFirst, Discard, Drain, Rerun, LookAtFinder, TakeBatch, TakeOne,
       Take, ReleaseFinder, JoinFinder, PostEnd, JoinSubstitute
  <2>2. ASSUME NEW g, Become(cur, g) PROVE finder'[t] = finder[t]
    BY <1>2, <1>6, <2>2, OneFinder
  <2> QED
    BY <2>1, <2>2
<1> QED
  BY <1>5, <1>6

LEMMA RoomStep ==
  ASSUME Inv, [Next]_vars
  PROVE  /\ posted' # posted => Unread' > Unread
         /\ \A t \in Finder :
              finder[t].pc = "scan" /\ finder'[t].write # finder[t].write =>
                (finder'[t].write - finder'[t].read) % FinderRing # 0
<1>1. Types /\ Indices /\ Main /\ Finders
  BY DEF Inv
<1>2. CASE MainStep
  BY <1>1, <1>2, PostedMore, OnlyFinderWrites
<1>3. CASE SubstituteStep \/ UNCHANGED vars
  <2>1. posted' = posted /\ finder' = finder
    BY <1>3 DEF SubstituteStep, mainVars, vars
  <2> QED
    BY <2>1
<1>4. CASE \E t \in Finder : FinderStep(t)
  <2>1. PICK t \in Finder : FinderStep(t)
    BY <1>4
  <2>2. posted' = posted
    BY <2>1 DEF FinderStep, mainVars
  <2>3. ASSUME NEW u \in Finder, finder[u].pc = "scan", finder'[u].write # finder[u].write
        PROVE  (finder'[u].write - finder'[u].read) % FinderRing # 0
    <3>1. u = t
      <4>1. \E g : Become(t, g)
        BY <2>1 DEF FinderStep, StartFinder, BeginScan, FindNext, PutCommand, LastCopy, EndFinder
      <4> QED
        BY <4>1, <2>3, <1>1, OneFinder
    <3>2. PutCommand(t)
      <4>1. ~StartFinder(t) /\ ~BeginScan(t)
        BY <2>3, <3>1 DEF StartFinder, BeginScan
      <4>2. ~FindNext(t)
        BY <2>3, <3>1, <1>1, TurnFields
      <4>3. ~LastCopy(t)
        BY <2>3, <3>1, <1>1, CopyFields
      <4>4. ~EndFinder(t)
        BY <2>3, <3>1, <1>1, EndFields
      <4> QED
        BY <2>1, <4>1, <4>2, <4>3, <4>4 DEF FinderStep
    <3> QED
      BY <1>1, <3>1, <3>2, PutMore
  <2> QED
    BY <2>2, <2>3
<1> QED
  BY <1>2, <1>3, <1>4 DEF Next, Finished

(* No index overtakes the other thread's, though room is looked for only    *)
(* where a half of substitute_thread's ring begins: what is written to a    *)
(* ring makes it longer, never empty (the waits of GLZAcompress.c on        *)
(* substitute_data_read_index and on read_index).                           *)
THEOREM RoomKept ==
  ASSUME OldIndex = 0
  PROVE  Spec => RoomInRings
<1>1. Inv /\ [Next]_vars =>
        [/\ posted' # posted => Unread' > Unread
         /\ \A t \in Finder :
              finder[t].pc = "scan" /\ finder'[t].write # finder[t].write =>
                (finder'[t].write - finder'[t].read) % FinderRing # 0]_vars
  BY RoomStep
<1> QED
  BY <1>1, InvHolds, PTL DEF Spec, RoomInRings

===============================================================================
