--------------------------- MODULE CommandLineProofs --------------------------
(***************************************************************************)
(* Proofs about main: its parts keep their invariants when main takes      *)
(* their steps, -r finds all the files, and every level asked for is       *)
(* tested once.                                                            *)
(*                                                                         *)
(* MainInv is inductive.  What has run is Ahead, the tests of the entries  *)
(* that each call on the stack has done with, and then the first tests of  *)
(* the entry in hand: the stack grows and shrinks without changing it.     *)
(***************************************************************************)
EXTENDS CommandLine, MainPartsProofs, SequenceTheorems

-------------------------------------------------------------------------------
(* The tests of an entry, in a list at the depth d of calls; and those of    *)
(* the entries that a call has done with.                                    *)
Test == (1 .. Len(Codecs)) \X Int

Whole(l) ==
  [e \in Range(l) |-> IF IsAlias(e) THEN Joined(Aliases[e.name], Within(Aliases[e.name]))
                                    ELSE Numbers(e)]

Parts(d, l) == IF d = 1 THEN Whole(l) ELSE IF d = 2 THEN Within(l) ELSE Direct(l)

Before(d, call) == JoinedTo(call.list, Parts(d, call.list), call.k - 1)

(* The tests before the entry in hand, as far as the first m calls know.     *)
Ahead(s, m) ==
  IF m = 0 THEN <<>>
  ELSE IF m = 1 THEN <<>> \o Before(1, s[1])
  ELSE IF m = 2 THEN (<<>> \o Before(1, s[1])) \o Before(2, s[2])
  ELSE ((<<>> \o Before(1, s[1])) \o Before(2, s[2])) \o Before(3, s[3])

FirstOf(s, n) == [k \in 1 .. n |-> s[k]]

InEntry == spc \in {"number", "test", "next", "tested"}

(* Which of the entry's tests the one being run is, and how many have begun. *)
Place == IF Entry.levels = <<>> THEN test[2] - Codecs[test[1]].first + 1 ELSE j

Begun ==
  CASE spc = "entry"  -> 0
    [] spc = "number" -> IF NamedBy(Entry) = {} THEN 0 ELSE j - 1
    [] spc = "test"   -> IF cpc = "idle" THEN Place - 1 ELSE Place
    [] spc = "next"   -> Place
    [] spc = "tested" -> IF NamedBy(Entry) = {} THEN 0
                         ELSE IF Entry.levels = <<>> THEN Len(Numbers(Entry)) ELSE j

(* Every call but the topmost waits for the alias it has in hand.            *)
Stacked(list) ==
  /\ calls \in Seq([list : {list} \cup Range(Aliases), k : Nat])
  /\ Len(calls) \in 1 .. 3
  /\ calls[1].list = list
  /\ \A d \in 1 .. Len(calls) :
       calls[d].k \in 1 .. Len(calls[d].list) + 1
  /\ \A d \in 1 .. Len(calls) - 1 :
       /\ calls[d].k <= Len(calls[d].list)
       /\ IsAlias(calls[d].list[calls[d].k])
       /\ calls[d + 1].list = Aliases[calls[d].list[calls[d].k].name]

AtEntry ==
  /\ Call.k <= Len(Call.list)
  /\ ~IsAlias(Entry)
  /\ j \in Nat \ {0}
  /\ IF Entry.levels = <<>> THEN j = 1 ELSE j <= Len(Entry.levels)

SelectInv(list) ==
  /\ Stacked(list)
  /\ spc # "idle"
  /\ InEntry => AtEntry
  /\ spc \in {"test", "next"} =>
       /\ NamedBy(Entry) # {} /\ test[1] = First(NamedBy(Entry))
       /\ test \in Test
       /\ Place \in 1 .. Len(Numbers(Entry)) /\ test = Numbers(Entry)[Place]
  /\ spc = "entry" => ran = Ahead(calls, Len(calls))
  /\ InEntry => ran = Ahead(calls, Len(calls)) \o FirstOf(Numbers(Entry), Begun)

-------------------------------------------------------------------------------
(* Sequences of tests. *)
LEMMA FirstOfFacts ==
  ASSUME NEW T, NEW s \in Seq(T), NEW n \in 0 .. Len(s)
  PROVE  /\ FirstOf(s, n) \in Seq(T) /\ Len(FirstOf(s, n)) = n
         /\ \A k \in 1 .. n : FirstOf(s, n)[k] = s[k]
<1>1. \A k \in 1 .. n : s[k] \in T
  OBVIOUS
<1> QED
  BY <1>1 DEF FirstOf

LEMMA FirstOfAll ==
  ASSUME NEW T, NEW s \in Seq(T)
  PROVE  FirstOf(s, Len(s)) = s
  BY DEF FirstOf

LEMMA FirstOfNone ==
  ASSUME NEW s
  PROVE  FirstOf(s, 0) = <<>>
  BY DEF FirstOf

LEMMA OneMore ==
  ASSUME NEW T, NEW r \in Seq(T), NEW s \in Seq(T), NEW n \in 1 .. Len(s)
  PROVE  Append(r \o FirstOf(s, n - 1), s[n]) = r \o FirstOf(s, n)
<1> DEFINE p == FirstOf(s, n - 1)
           q == FirstOf(s, n)
           e == s[n]
           m == n - 1
<1>1. /\ p \in Seq(T) /\ Len(p) = m /\ \A k \in 1 .. m : p[k] = s[k]
      /\ m \in Nat /\ n = m + 1
  <2>1. m \in 0 .. Len(s) /\ m \in Nat /\ n = m + 1
    OBVIOUS
  <2> HIDE DEF m
  <2>2. FirstOf(s, m) \in Seq(T) /\ Len(FirstOf(s, m)) = m
        /\ \A k \in 1 .. m : FirstOf(s, m)[k] = s[k]
    BY <2>1, FirstOfFacts
  <2> QED
    BY <2>1, <2>2 DEF m
<1>2. /\ q \in Seq(T) /\ Len(q) = n /\ \A k \in 1 .. n : q[k] = s[k]
      /\ e \in T
  BY FirstOfFacts
<1> HIDE DEF p, q, e, m
<1>3. q = Append(p, e)
  <2>1. /\ Append(p, e) \in Seq(T) /\ Len(Append(p, e)) = m + 1
        /\ Append(p, e)[m + 1] = e /\ \A k \in 1 .. m : Append(p, e)[k] = p[k]
    BY <1>1, <1>2
  <2>2. q[m + 1] = e
    BY <1>1, <1>2 DEF e
  <2>3. \A k \in 1 .. n : k = m + 1 \/ k \in 1 .. m
    BY <1>1
  <2>4. \A k \in 1 .. n : q[k] = Append(p, e)[k]
    BY <1>1, <1>2, <2>1, <2>2, <2>3
  <2> QED
    BY <1>1, <1>2, <2>1, <2>4
<1>4. Append(r \o p, e) = r \o Append(p, e)
  <2>1. r \o p \in Seq(T) /\ Len(r \o p) = Len(r) + m /\ Len(r) \in Nat
        /\ \A k \in 1 .. Len(r) + m : (r \o p)[k] = IF k <= Len(r) THEN r[k] ELSE p[k - Len(r)]
    <3>1. /\ r \o p \in Seq(T) /\ Len(r \o p) = Len(r) + Len(p)
          /\ \A k \in 1 .. Len(r) + Len(p) :
               (r \o p)[k] = IF k <= Len(r) THEN r[k] ELSE p[k - Len(r)]
      BY <1>1, ConcatProperties
    <3>2. Len(p) = m
      BY <1>1
    <3> QED
      BY <3>1, <3>2
  <2>2. Append(p, e) \in Seq(T) /\ Len(Append(p, e)) = m + 1
        /\ Append(p, e)[m + 1] = e /\ \A k \in 1 .. m : Append(p, e)[k] = p[k]
    BY <1>1, <1>2
  <2>3. /\ r \o Append(p, e) \in Seq(T) /\ Len(r \o Append(p, e)) = Len(r) + (m + 1)
        /\ \A k \in 1 .. Len(r) + (m + 1) :
             (r \o Append(p, e))[k] = IF k <= Len(r) THEN r[k] ELSE Append(p, e)[k - Len(r)]
    <3> DEFINE t == Append(p, e)
    <3>1. t \in Seq(T) /\ Len(t) = m + 1
      BY <2>2
    <3> HIDE DEF t
    <3>2. /\ r \o t \in Seq(T) /\ Len(r \o t) = Len(r) + Len(t)
          /\ \A k \in 1 .. Len(r) + Len(t) :
               (r \o t)[k] = IF k <= Len(r) THEN r[k] ELSE t[k - Len(r)]
      BY <3>1, ConcatProperties
    <3>3. /\ r \o t \in Seq(T) /\ Len(r \o t) = Len(r) + (m + 1)
          /\ \A k \in 1 .. Len(r) + (m + 1) :
               (r \o t)[k] = IF k <= Len(r) THEN r[k] ELSE t[k - Len(r)]
      BY <3>1, <3>2
    <3> QED
      BY <3>3 DEF t
  <2>4. /\ Append(r \o p, e) \in Seq(T) /\ Len(Append(r \o p, e)) = Len(r) + m + 1
        /\ Append(r \o p, e)[Len(r) + m + 1] = e
        /\ \A k \in 1 .. Len(r) + m : Append(r \o p, e)[k] = (r \o p)[k]
    BY <1>1, <1>2, <2>1
  <2> DEFINE a == Append(r \o p, e)
             b == r \o Append(p, e)
             ap == Append(p, e)
             rp == r \o p
             l == Len(r)
  <2> HIDE DEF a, b, ap, rp
  <2>5. ASSUME NEW k \in 1 .. l + m + 1 PROVE a[k] = b[k]
    <3>1. l \in Nat /\ m \in Nat
      BY <1>1, <2>1
    <3>2. CASE k <= l
      <4>1. k \in 1 .. l + m /\ k \in 1 .. l + (m + 1)
        BY <3>1, <3>2
      <4> QED
        BY <2>1, <2>3, <2>4, <3>2, <4>1 DEF a, b, ap, rp
    <3>3. CASE k > l /\ k < l + m + 1
      <4>1. k \in 1 .. l + m /\ k \in 1 .. l + (m + 1) /\ ~(k <= l) /\ k - l \in 1 .. m
        BY <3>1, <3>3
      <4> QED
        BY <2>1, <2>2, <2>3, <2>4, <4>1 DEF a, b, ap, rp
    <3>4. CASE k = l + m + 1
      <4>1. k \in 1 .. l + (m + 1) /\ ~(k <= l) /\ k - l = m + 1
        BY <3>1, <3>4
      <4> QED
        BY <2>2, <2>3, <2>4, <3>4, <4>1 DEF a, b, ap, rp
    <3> QED
      BY <3>1, <3>2, <3>3, <3>4
  <2>6. a \in Seq(T) /\ b \in Seq(T) /\ Len(a) = l + m + 1 /\ Len(b) = l + m + 1
    BY <1>1, <2>1, <2>3, <2>4 DEF a, b
  <2> HIDE DEF l
  <2>7. a = b
    BY <2>5, <2>6
  <2> QED
    BY <2>7 DEF a, b, ap, rp
<1> QED
  BY <1>3, <1>4 DEF p, q, e, m

-------------------------------------------------------------------------------
(* The tests that an entry of a list asks for. *)
LEMMA FirstIn ==
  ASSUME NEW S \in SUBSET Nat, S # {}
  PROVE  First(S) \in S
<1>1. PICK x \in S : \A k \in S : x <= k
  BY LeastNat
<1> QED
  BY <1>1 DEF First

LEMMA NumbersAre ==
  ASSUME NEW e, e.levels \in Seq(Int), NamedBy(e) # {}
  PROVE  LET c == First(NamedBy(e))
             n == Codecs[c].last - Codecs[c].first + 1
         IN /\ c \in NamedBy(e) /\ c \in 1 .. Len(Codecs)
            /\ Codecs[c].last \in Int /\ Codecs[c].first \in Int
            /\ e.levels # <<>> =>
                 /\ Numbers(e) \in Seq(Test) /\ Len(Numbers(e)) = Len(e.levels)
                 /\ \A k \in 1 .. Len(e.levels) : Numbers(e)[k] = <<c, e.levels[k]>>
            /\ e.levels = <<>> /\ n \in Nat =>
                 /\ Numbers(e) \in Seq(Test) /\ Len(Numbers(e)) = n
                 /\ \A k \in 1 .. n : Numbers(e)[k] = <<c, Codecs[c].first + k - 1>>
            /\ e.levels = <<>> /\ n \notin Nat => Numbers(e) = <<>>
<1> DEFINE c == First(NamedBy(e))
           n == Codecs[c].last - Codecs[c].first + 1
<1>1. c \in NamedBy(e) /\ c \in 1 .. Len(Codecs)
  <2>1. NamedBy(e) \in SUBSET (1 .. Len(Codecs)) /\ Len(Codecs) \in Nat
    BY SelectionAssumption DEF NamedBy
  <2>2. NamedBy(e) \in SUBSET Nat
    BY <2>1
  <2>3. First(NamedBy(e)) \in NamedBy(e)
    BY <2>2, FirstIn
  <2> QED
    BY <2>1, <2>3
<1>2. Codecs[c].last \in Int /\ Codecs[c].first \in Int
  <2>1. Codecs[c] \in Range(Codecs)
    BY <1>1, SelectionAssumption DEF Range
  <2> QED
    BY <2>1, SelectionAssumption DEF IsCodec
<1>3. Numbers(e) = IF e.levels # <<>> THEN [k \in 1 .. Len(e.levels) |-> <<c, e.levels[k]>>]
                   ELSE [k \in 1 .. n |-> <<c, Codecs[c].first + k - 1>>]
  BY DEF Numbers
<1> HIDE DEF c
<1>4. ASSUME e.levels # <<>>
      PROVE  /\ Numbers(e) \in Seq(Test) /\ Len(Numbers(e)) = Len(e.levels)
             /\ \A k \in 1 .. Len(e.levels) : Numbers(e)[k] = <<c, e.levels[k]>>
  <2>1. \A k \in 1 .. Len(e.levels) : <<c, e.levels[k]>> \in Test
    BY <1>1 DEF Test
  <2> QED
    BY <1>3, <1>4, <2>1
<1>5. ASSUME e.levels = <<>>, n \in Nat
      PROVE  /\ Numbers(e) \in Seq(Test) /\ Len(Numbers(e)) = n
             /\ \A k \in 1 .. n : Numbers(e)[k] = <<c, Codecs[c].first + k - 1>>
  <2>1. \A k \in 1 .. n : <<c, Codecs[c].first + k - 1>> \in Test
    BY <1>1, <1>2 DEF Test
  <2> HIDE DEF n
  <2> QED
    BY <1>3, <1>5, <2>1
<1>6. ASSUME e.levels = <<>>, n \notin Nat
      PROVE  Numbers(e) = <<>>
  <2>1. 1 .. n = {}
    BY <1>2, <1>6
  <2> HIDE DEF n
  <2> QED
    BY <1>3, <1>6, <2>1
<1> QED
  BY <1>1, <1>2, <1>4, <1>5, <1>6 DEF c

LEMMA NumbersType ==
  ASSUME NEW e, e.levels \in Seq(Int)
  PROVE  Numbers(e) \in Seq(Test) /\ (NamedBy(e) = {} => Numbers(e) = <<>>)
<1>1. CASE NamedBy(e) = {}
  BY <1>1 DEF Numbers
<1>2. CASE NamedBy(e) # {}
  BY <1>2, NumbersAre
<1> QED
  BY <1>1, <1>2

LEMMA InList ==
  ASSUME NEW l, IsList(l)
  PROVE  /\ Len(l) \in Nat /\ DOMAIN l = 1 .. Len(l)
         /\ \A k \in 1 .. Len(l) : l[k] \in Range(l) /\ l[k].levels \in Seq(Int)
         /\ \A e \in Range(l) : e.levels \in Seq(Int) /\ Numbers(e) \in Seq(Test)
<1>1. \A e \in Range(l) : e.levels \in Seq(Int) /\ Numbers(e) \in Seq(Test)
  BY NumbersType DEF IsList
<1>2. Len(l) \in Nat /\ DOMAIN l = 1 .. Len(l)
  BY DEF IsList
<1>3. \A k \in 1 .. Len(l) : l[k] \in Range(l)
  BY <1>2 DEF Range
<1> QED
  BY <1>1, <1>2, <1>3

LEMMA AliasIsList ==
  ASSUME NEW e, IsAlias(e)
  PROVE  e.name \in DOMAIN Aliases /\ IsList(Aliases[e.name])
  BY SelectionAssumption DEF IsAlias

LEMMA JoinedType ==
  ASSUME NEW l, IsList(l), NEW parts, \A e \in Range(l) : parts[e] \in Seq(Test)
  PROVE  Joined(l, parts) \in Seq(Test)
<1>1. Len(l) \in Nat /\ \A k \in 1 .. Len(l) : parts[l[k]] \in Seq(Test)
  BY InList
<1> QED
  BY <1>1, JoinedToNext DEF Joined

(* An alias stands for its list at the next depth, any other entry for its   *)
(* tests.                                                                    *)
LEMMA PartsAre ==
  ASSUME NEW l, IsList(l), NEW d \in 1 .. 3
  PROVE  \A e \in Range(l) :
           /\ Parts(d, l)[e] \in Seq(Test)
           /\ ~IsAlias(e) => Parts(d, l)[e] = Numbers(e)
           /\ IsAlias(e) /\ d < 3 =>
                Parts(d, l)[e] = Joined(Aliases[e.name], Parts(d + 1, Aliases[e.name]))
<1>1. \A e \in Range(l) : Direct(l)[e] = Numbers(e)
  BY DEF Direct
<1>2. \A e \in Range(l) :
        /\ ~IsAlias(e) => Within(l)[e] = Numbers(e)
        /\ IsAlias(e) => Within(l)[e] = Joined(Aliases[e.name], Direct(Aliases[e.name]))
  BY DEF Within
<1>3. \A e \in Range(l) :
        /\ ~IsAlias(e) => Whole(l)[e] = Numbers(e)
        /\ IsAlias(e) => Whole(l)[e] = Joined(Aliases[e.name], Within(Aliases[e.name]))
  BY DEF Whole
<1>4. \A m : IsList(m) => \A e \in Range(m) : Direct(m)[e] \in Seq(Test)
  BY InList DEF Direct
<1>5. \A m : IsList(m) => \A e \in Range(m) : Within(m)[e] \in Seq(Test)
  <2> SUFFICES ASSUME NEW m, IsList(m), NEW e \in Range(m) PROVE Within(m)[e] \in Seq(Test)
    OBVIOUS
  <2>1. CASE IsAlias(e)
    <3>1. IsList(Aliases[e.name])
      BY <2>1, AliasIsList
    <3>2. Joined(Aliases[e.name], Direct(Aliases[e.name])) \in Seq(Test)
      BY <1>4, <3>1, JoinedType
    <3> QED
      BY <2>1, <3>2 DEF Within
  <2>2. CASE ~IsAlias(e)
    BY <2>2, InList DEF Within
  <2> QED
    BY <2>1, <2>2
<1>6. \A e \in Range(l) : Whole(l)[e] \in Seq(Test)
  <2> SUFFICES ASSUME NEW e \in Range(l) PROVE Whole(l)[e] \in Seq(Test)
    OBVIOUS
  <2>1. CASE IsAlias(e)
    <3>1. IsList(Aliases[e.name])
      BY <2>1, AliasIsList
    <3>2. Joined(Aliases[e.name], Within(Aliases[e.name])) \in Seq(Test)
      BY <1>5, <3>1, JoinedType
    <3> QED
      BY <1>3, <2>1, <3>2
  <2>2. CASE ~IsAlias(e)
    BY <1>3, <2>2, InList
  <2> QED
    BY <2>1, <2>2
<1>7. CASE d = 1
  <2>1. \A m : Parts(1, m) = Whole(m) /\ Parts(1 + 1, m) = Within(m)
    BY DEF Parts
  <2> QED
    BY <1>3, <1>6, <1>7, <2>1
<1>8. CASE d = 2
  <2>1. \A m : Parts(2, m) = Within(m) /\ Parts(2 + 1, m) = Direct(m)
    BY DEF Parts
  <2> QED
    BY <1>2, <1>5, <1>8, <2>1
<1>9. CASE d = 3
  <2>1. \A m : Parts(3, m) = Direct(m)
    BY DEF Parts
  <2> QED
    BY <1>1, <1>4, <1>9, <2>1
<1> QED
  BY <1>7, <1>8, <1>9

-------------------------------------------------------------------------------
(* What the calls have done with. *)
LEMMA AheadNext ==
  ASSUME NEW s, NEW d \in 1 .. 3
  PROVE  Ahead(s, d) = Ahead(s, d - 1) \o Before(d, s[d])
<1>1. CASE d = 1
  BY <1>1 DEF Ahead
<1>2. CASE d = 2
  BY <1>2 DEF Ahead
<1>3. CASE d = 3
  BY <1>3 DEF Ahead
<1> QED
  BY <1>1, <1>2, <1>3

LEMMA AheadSame ==
  ASSUME NEW s, NEW t, NEW d \in 0 .. 3, \A k \in 1 .. d : s[k] = t[k]
  PROVE  Ahead(s, d) = Ahead(t, d)
<1>1. CASE d = 0
  BY <1>1 DEF Ahead
<1>2. CASE d = 1
  BY <1>2 DEF Ahead
<1>3. CASE d = 2
  BY <1>3 DEF Ahead
<1>4. CASE d = 3
  BY <1>4 DEF Ahead
<1> QED
  BY <1>1, <1>2, <1>3, <1>4

LEMMA BeforeFacts ==
  ASSUME NEW d \in 1 .. 3, NEW c, IsList(c.list), c.k \in 1 .. Len(c.list) + 1
  PROVE  /\ Before(d, c) \in Seq(Test)
         /\ c.k = 1 => Before(d, c) = <<>>
         /\ c.k = Len(c.list) + 1 => Before(d, c) = Joined(c.list, Parts(d, c.list))
<1> DEFINE l == c.list
           p == Parts(d, c.list)
           n == c.k - 1
<1>1. n \in Nat /\ n <= Len(l) /\ Len(l) \in Nat
  BY InList
<1>2. \A k \in 1 .. Len(l) : p[l[k]] \in Seq(Test)
  BY InList, PartsAre
<1>3. \A k \in 1 .. n : p[l[k]] \in Seq(Test)
  BY <1>1, <1>2
<1>4. Before(d, c) = JoinedTo(l, p, n)
  BY DEF Before
<1> HIDE DEF l, p, n
<1>5. JoinedTo(l, p, n) \in Seq(Test) /\ JoinedTo(l, p, 0) = <<>>
  BY <1>1, <1>3, JoinedToNext
<1>6. c.k = 1 => n = 0
  BY DEF n
<1>7. c.k = Len(c.list) + 1 => n = Len(l)
  BY <1>1 DEF n, l
<1> QED
  BY <1>4, <1>5, <1>6, <1>7 DEF Joined, l, p

LEMMA BeforeNext ==
  ASSUME NEW d \in 1 .. 3, NEW c, IsList(c.list), c.k \in 1 .. Len(c.list),
         NEW b, b.list = c.list, b.k = c.k + 1
  PROVE  Before(d, b) = Before(d, c) \o Parts(d, c.list)[c.list[c.k]]
<1> DEFINE l == c.list
           p == Parts(d, c.list)
           n == c.k
<1>1. n \in Nat /\ n > 0 /\ n <= Len(l) /\ Len(l) \in Nat
  BY InList
<1>2. \A k \in 1 .. Len(l) : p[l[k]] \in Seq(Test)
  BY InList, PartsAre
<1>3. \A k \in 1 .. n : p[l[k]] \in Seq(Test)
  BY <1>1, <1>2
<1>4. Before(d, c) = JoinedTo(l, p, n - 1)
  BY DEF Before
<1>5. Before(d, b) = JoinedTo(l, p, n)
  <2>1. b.k - 1 = n
    BY <1>1
  <2> QED
    BY <2>1 DEF Before
<1> HIDE DEF l, p, n
<1>6. JoinedTo(l, p, n) = JoinedTo(l, p, n - 1) \o p[l[n]]
  BY <1>1, <1>3, JoinedToNext
<1> QED
  BY <1>4, <1>5, <1>6 DEF l, p, n

LEMMA DepthFacts ==
  ASSUME NEW n \in 1 .. 3
  PROVE  /\ n \in Nat /\ n \in 1 .. n /\ n \in 0 .. n /\ n \in 0 .. 3 /\ 1 \in 1 .. n
         /\ n # 3 => n \in 1 .. 2 /\ n + 1 \in 1 .. 3
         /\ n # 1 => n - 1 \in 1 .. 3 /\ n - 1 \in Nat /\ (n - 1) + 1 = n
  OBVIOUS

CallsOn(list) == [list : {list} \cup Range(Aliases), k : Nat]

(* Every call has a list, and the third has no aliases in its own.           *)
LEMMA StackLists ==
  ASSUME NEW list, IsList(list), Stacked(list)
  PROVE  /\ calls \in Seq(CallsOn(list)) /\ Len(calls) \in 1 .. 3
         /\ \A d \in 1 .. Len(calls) :
              /\ calls[d] \in CallsOn(list)
              /\ IsList(calls[d].list) /\ calls[d].k \in 1 .. Len(calls[d].list) + 1
         /\ Len(calls) = 3 => \A e \in Range(calls[3].list) : ~IsAlias(e)
<1> DEFINE m == Len(calls)
<1>1. calls \in Seq(CallsOn(list)) /\ m \in 1 .. 3 /\ calls[1].list = list
  BY DEF Stacked, CallsOn
<1>2. \A d \in 1 .. m : calls[d].k \in 1 .. Len(calls[d].list) + 1 /\ calls[d] \in CallsOn(list)
  BY <1>1 DEF Stacked
<1>3. \A d \in 1 .. m - 1 :
        /\ calls[d].k <= Len(calls[d].list)
        /\ IsAlias(calls[d].list[calls[d].k])
        /\ calls[d + 1].list = Aliases[calls[d].list[calls[d].k].name]
  BY DEF Stacked
<1> HIDE DEF m
<1>4. \A d \in 1 .. m - 1 : IsList(calls[d + 1].list)
  BY <1>3, AliasIsList
<1>5. \A d \in 1 .. m : IsList(calls[d].list)
  <2> SUFFICES ASSUME NEW d \in 1 .. m PROVE IsList(calls[d].list)
    OBVIOUS
  <2>1. CASE d = 1
    BY <1>1, <2>1
  <2>2. CASE d # 1
    <3>1. d - 1 \in 1 .. m - 1 /\ (d - 1) + 1 = d
      BY <1>1, <2>2
    <3> QED
      BY <1>4, <3>1
  <2> QED
    BY <2>1, <2>2
<1>6. ASSUME m = 3 PROVE \A e \in Range(calls[3].list) : ~IsAlias(e)
  <2> DEFINE d1 == calls[1].list[calls[1].k]
             d2 == calls[2].list[calls[2].k]
  <2>1. /\ IsAlias(d1) /\ calls[1 + 1].list = Aliases[d1.name]
        /\ IsAlias(d2) /\ calls[2 + 1].list = Aliases[d2.name]
        /\ calls[2].k <= Len(calls[2].list)
    <3>1. 1 \in 1 .. m - 1 /\ 2 \in 1 .. m - 1
      BY <1>6
    <3> QED
      BY <1>3, <3>1
  <2>2. calls[2].k \in 1 .. Len(calls[2].list) /\ IsList(calls[2].list)
    <3>1. 2 \in 1 .. m
      BY <1>6
    <3>2. calls[2].k \in 1 .. Len(calls[2].list) + 1 /\ IsList(calls[2].list)
      BY <1>2, <1>5, <3>1
    <3>3. Len(calls[2].list) \in Nat
      BY <3>2, InList
    <3> QED
      BY <2>1, <3>2, <3>3
  <2>3. d2 \in Range(calls[2].list)
    BY <2>2, InList
  <2>4. d1.name \in DOMAIN Aliases /\ calls[2].list = Aliases[d1.name]
        /\ calls[3].list = Aliases[d2.name]
    BY <2>1 DEF IsAlias
  <2> HIDE DEF d1, d2
  <2> QED
    BY <2>1, <2>3, <2>4, SelectionAssumption
<1> QED
  BY <1>1, <1>2, <1>5, <1>6 DEF m

LEMMA AheadType ==
  ASSUME NEW list, IsList(list), Stacked(list), NEW d \in 0 .. Len(calls)
  PROVE  Ahead(calls, d) \in Seq(Test)
<1> DEFINE m == Len(calls)
<1>1. /\ m \in 1 .. 3
      /\ \A k \in 1 .. m : IsList(calls[k].list) /\ calls[k].k \in 1 .. Len(calls[k].list) + 1
  BY StackLists
<1> HIDE DEF m
<1>2. \A k \in 1 .. m : Before(k, calls[k]) \in Seq(Test)
  <2> SUFFICES ASSUME NEW k \in 1 .. m PROVE Before(k, calls[k]) \in Seq(Test)
    OBVIOUS
  <2>1. k \in 1 .. 3
    BY <1>1
  <2> QED
    BY <1>1, <2>1, BeforeFacts
<1>3. Ahead(calls, 0) \in Seq(Test)
  BY DEF Ahead
<1>4. \A k \in 1 .. m : Ahead(calls, k - 1) \in Seq(Test) => Ahead(calls, k) \in Seq(Test)
  <2> SUFFICES ASSUME NEW k \in 1 .. m, Ahead(calls, k - 1) \in Seq(Test)
               PROVE  Ahead(calls, k) \in Seq(Test)
    OBVIOUS
  <2>1. k \in 1 .. 3
    BY <1>1
  <2>2. Ahead(calls, k) = Ahead(calls, k - 1) \o Before(k, calls[k])
    BY <2>1, AheadNext
  <2> QED
    BY <1>2, <2>2, ConcatProperties
<1>5. 1 \in 1 .. m => Ahead(calls, 1) \in Seq(Test)
  <2>1. 1 - 1 = 0
    OBVIOUS
  <2> QED
    BY <1>3, <1>4, <2>1
<1>6. 2 \in 1 .. m => Ahead(calls, 2) \in Seq(Test)
  <2>1. 2 - 1 = 1 /\ (2 \in 1 .. m => 1 \in 1 .. m)
    BY <1>1
  <2> QED
    BY <1>4, <1>5, <2>1
<1>7. 3 \in 1 .. m => Ahead(calls, 3) \in Seq(Test)
  <2>1. 3 - 1 = 2 /\ (3 \in 1 .. m => 2 \in 1 .. m)
    BY <1>1
  <2> QED
    BY <1>4, <1>6, <2>1
<1>8. d \in 0 .. m /\ (d = 0 \/ d = 1 \/ d = 2 \/ d = 3)
  <2>1. d \in 0 .. m
    BY DEF m
  <2> QED
    BY <1>1, <2>1
<1> QED
  BY <1>1, <1>3, <1>5, <1>6, <1>7, <1>8

(* The entry in hand. *)
LEMMA EntryFacts ==
  ASSUME NEW list, IsList(list), Stacked(list), Call.k <= Len(Call.list)
  PROVE  /\ Call.k \in 1 .. Len(Call.list)
         /\ Entry \in Range(Call.list) /\ Entry.levels \in Seq(Int)
         /\ Numbers(Entry) \in Seq(Test)
         /\ NamedBy(Entry) = {} => Numbers(Entry) = <<>>
         /\ ~IsAlias(Entry) => Parts(Len(calls), Call.list)[Entry] = Numbers(Entry)
         /\ Len(calls) = 3 => ~IsAlias(Entry)
<1>1. Len(calls) \in 1 .. 3 /\ Len(calls) \in 1 .. Len(calls)
  <2>1. Len(calls) \in 1 .. 3
    BY StackLists
  <2> QED
    BY <2>1, DepthFacts
<1>2. IsList(Call.list) /\ Call.k \in 1 .. Len(Call.list) + 1
  BY <1>1, StackLists DEF Call
<1>3. Len(Call.list) \in Nat
  BY <1>2, InList
<1>4. Call.k \in 1 .. Len(Call.list)
  BY <1>2, <1>3
<1>5. Entry \in Range(Call.list) /\ Entry.levels \in Seq(Int)
  BY <1>2, <1>4, InList DEF Entry
<1>6. Numbers(Entry) \in Seq(Test) /\ (NamedBy(Entry) = {} => Numbers(Entry) = <<>>)
  BY <1>5, NumbersType
<1>7. ~IsAlias(Entry) => Parts(Len(calls), Call.list)[Entry] = Numbers(Entry)
  BY <1>1, <1>2, <1>5, PartsAre
<1>8. Len(calls) = 3 => ~IsAlias(Entry)
  BY <1>5, StackLists DEF Call
<1> QED
  BY <1>4, <1>5, <1>6, <1>7, <1>8

-------------------------------------------------------------------------------
(* One step of the selection. *)
LEMMA SelectInvAt ==
  ASSUME NEW list, IsList(list), SelectInv(list), InEntry
  PROVE  /\ AtEntry /\ Stacked(list) /\ Call.k <= Len(Call.list)
         /\ Entry.levels \in Seq(Int) /\ Numbers(Entry) \in Seq(Test)
         /\ NamedBy(Entry) = {} => Numbers(Entry) = <<>>
         /\ Ahead(calls, Len(calls)) \in Seq(Test)
         /\ ran = Ahead(calls, Len(calls)) \o FirstOf(Numbers(Entry), Begun)
<1>1. AtEntry /\ Stacked(list) /\ Call.k <= Len(Call.list)
  BY DEF SelectInv, AtEntry
<1>2. Ahead(calls, Len(calls)) \in Seq(Test)
  <2>1. Len(calls) \in 1 .. 3
    BY <1>1, StackLists
  <2>2. Len(calls) \in 0 .. Len(calls)
    BY <2>1
  <2> QED
    BY <1>1, <2>2, AheadType
<1> QED
  BY <1>1, <1>2, EntryFacts DEF SelectInv

(* The stack of calls is left alone, and the entry goes on.                  *)
LEMMA SelectKept ==
  ASSUME NEW list, IsList(list), SelectInv(list), calls' = calls, InEntry', AtEntry',
         spc' \in {"test", "next"} =>
           /\ NamedBy(Entry) # {} /\ test'[1] = First(NamedBy(Entry))
           /\ test' \in Test
           /\ Place' \in 1 .. Len(Numbers(Entry)) /\ test' = Numbers(Entry)[Place'],
         ran' = Ahead(calls, Len(calls)) \o FirstOf(Numbers(Entry), Begun')
  PROVE  SelectInv(list)'
<1>1. Stacked(list)'
  BY DEF SelectInv, Stacked
<1>2. /\ Call' = Call /\ Entry' = Entry /\ Ahead(calls, Len(calls))' = Ahead(calls, Len(calls))
      /\ NamedBy(Entry)' = NamedBy(Entry) /\ Numbers(Entry)' = Numbers(Entry)
  BY DEF Call, Entry, NamedBy, Numbers, Ahead, Before
<1>3. spc' # "idle" /\ spc' # "entry"
  BY DEF InEntry
<1>4. ran' = Ahead(calls, Len(calls))' \o FirstOf(Numbers(Entry)', Begun')
  BY <1>2
<1> QED
  BY <1>1, <1>2, <1>3, <1>4 DEF SelectInv, FirstOf

LEMMA ListBegun ==
  ASSUME NEW list, IsList(list), SelectStart(list), ran' = <<>>
  PROVE  SelectInv(list)'
<1> DEFINE c == [list |-> list, k |-> 1]
<1>1. /\ calls' = <<c>> /\ spc' = "entry"
      /\ c \in CallsOn(list) /\ c.list = list /\ c.k = 1
  BY DEF SelectStart, CallsOn
<1> HIDE DEF c
<1>2. /\ calls' \in Seq(CallsOn(list)) /\ Len(calls') = 1 /\ calls'[1] = c
      /\ Len(calls') \in 1 .. 3 /\ 1 .. Len(calls') - 1 = {}
  BY <1>1
<1>3. c.k \in 1 .. Len(list) + 1
  <2>1. Len(list) \in Nat
    BY InList
  <2> QED
    BY <1>1, <2>1
<1>4. Stacked(list)'
  <2>1. \A d \in 1 .. Len(calls') : d = 1
    BY <1>2
  <2> QED
    BY <1>1, <1>2, <1>3, <2>1 DEF Stacked, CallsOn
<1>5. Ahead(calls', 1) = <<>>
  <2>1. Before(1, c) = <<>>
    BY <1>1, <1>3, BeforeFacts
  <2> QED
    BY <1>2, <2>1 DEF Ahead
<1>6. Ahead(calls', Len(calls')) = <<>>
  BY <1>2, <1>5
<1> QED
  BY <1>1, <1>4, <1>6 DEF SelectInv, InEntry, Ahead, Before

LEMMA AliasEntered ==
  ASSUME NEW list, IsList(list), SelectInv(list), EnterAlias, ran' = ran
  PROVE  SelectInv(list)'
<1> DEFINE m == Len(calls)
           c == [list |-> Aliases[Entry.name], k |-> 1]
<1>1. /\ spc = "entry" /\ Call.k <= Len(Call.list) /\ IsAlias(Entry)
      /\ calls' = Append(calls, c) /\ spc' = "entry"
  BY DEF EnterAlias
<1>2. Stacked(list) /\ ran = Ahead(calls, m)
  BY <1>1 DEF SelectInv
<1>3. /\ calls \in Seq(CallsOn(list)) /\ m \in 1 .. 3
      /\ \A d \in 1 .. m : calls[d].k \in 1 .. Len(calls[d].list) + 1
  BY <1>2, StackLists
<1>4. m # 3
  BY <1>1, <1>2, EntryFacts
<1>5. m \in 1 .. 2 /\ m + 1 \in 1 .. 3 /\ m \in Nat /\ 1 \in 1 .. m
  <2> HIDE DEF m
  <2> QED
    BY <1>3, <1>4, DepthFacts
<1>6. Entry.name \in DOMAIN Aliases /\ IsList(Aliases[Entry.name])
  BY <1>1, AliasIsList
<1>7. c \in CallsOn(list) /\ c.list = Aliases[Entry.name] /\ c.k = 1
  BY <1>6 DEF CallsOn, Range
<1>8. c.k \in 1 .. Len(c.list) + 1
  <2>1. Len(c.list) \in Nat
    BY <1>6, <1>7, InList
  <2> QED
    BY <1>7, <2>1
<1> HIDE DEF c
<1>9. /\ calls' \in Seq(CallsOn(list)) /\ Len(calls') = m + 1 /\ calls'[m + 1] = c
      /\ \A k \in 1 .. m : calls'[k] = calls[k]
  BY <1>1, <1>3, <1>7, AppendFacts
<1>10. Call = calls[m] /\ Entry = calls[m].list[calls[m].k]
  BY DEF Call, Entry
<1>11. \A d \in 1 .. m - 1 :
         /\ calls[d].k <= Len(calls[d].list)
         /\ IsAlias(calls[d].list[calls[d].k])
         /\ calls[d + 1].list = Aliases[calls[d].list[calls[d].k].name]
  BY <1>2 DEF Stacked
<1>12. calls[1].list = list
  BY <1>2 DEF Stacked
<1> HIDE DEF m
<1>13. \A d \in 1 .. m + 1 : calls'[d].k \in 1 .. Len(calls'[d].list) + 1
  <2>1. \A d \in 1 .. m + 1 : d = m + 1 \/ d \in 1 .. m
    BY <1>5
  <2> QED
    BY <1>3, <1>8, <1>9, <2>1
<1>14. \A d \in 1 .. (m + 1) - 1 :
         /\ calls'[d].k <= Len(calls'[d].list)
         /\ IsAlias(calls'[d].list[calls'[d].k])
         /\ calls'[d + 1].list = Aliases[calls'[d].list[calls'[d].k].name]
  <2> SUFFICES ASSUME NEW d \in 1 .. (m + 1) - 1
               PROVE  /\ calls'[d].k <= Len(calls'[d].list)
                      /\ IsAlias(calls'[d].list[calls'[d].k])
                      /\ calls'[d + 1].list = Aliases[calls'[d].list[calls'[d].k].name]
    OBVIOUS
  <2>1. CASE d = m
    <3>1. calls'[d] = calls[m] /\ calls'[d + 1] = c
      BY <1>5, <1>9, <2>1
    <3> QED
      BY <1>1, <1>7, <1>10, <3>1
  <2>2. CASE d # m
    <3>1. d \in 1 .. m - 1 /\ d \in 1 .. m /\ d + 1 \in 1 .. m
      BY <1>5, <2>2
    <3> QED
      BY <1>9, <1>11, <3>1
  <2> QED
    BY <2>1, <2>2
<1>15. Stacked(list)'
  <2>1. calls'[1].list = list /\ Len(calls') \in 1 .. 3
    BY <1>5, <1>9, <1>12
  <2> QED
    BY <1>9, <1>13, <1>14, <2>1 DEF Stacked, CallsOn, IsAlias
<1>16. Ahead(calls', m + 1) = Ahead(calls, m)
  <2>1. Ahead(calls', m + 1) = Ahead(calls', (m + 1) - 1) \o Before(m + 1, calls'[m + 1])
    BY <1>5, AheadNext
  <2>2. (m + 1) - 1 = m
    BY <1>5
  <2>3. Before(m + 1, c) = <<>>
    <3>1. IsList(c.list)
      BY <1>6, <1>7
    <3> QED
      BY <1>5, <1>7, <1>8, <3>1, BeforeFacts
  <2>4. Ahead(calls', m) = Ahead(calls, m)
    <3>1. m \in 0 .. 3
      BY <1>5
    <3> QED
      BY <1>9, <3>1, AheadSame
  <2>5. Ahead(calls, m) \in Seq(Test)
    <3>1. Len(calls) \in 0 .. Len(calls)
      BY <1>5 DEF m
    <3> QED
      BY <1>2, <3>1, AheadType DEF m
  <2> QED
    BY <1>9, <2>1, <2>2, <2>3, <2>4, <2>5, ConcatEmptySeq
<1>17. ran' = Ahead(calls', Len(calls'))
  BY <1>2, <1>9, <1>16
<1> QED
  BY <1>1, <1>15, <1>17 DEF SelectInv, InEntry, Ahead, Before

LEMMA NumbersEntered ==
  ASSUME NEW list, IsList(list), SelectInv(list), EnterNumbers, ran' = ran
  PROVE  SelectInv(list)'
<1>1. /\ spc = "entry" /\ Call.k <= Len(Call.list) /\ ~IsAlias(Entry)
      /\ j' = 1 /\ spc' = "number" /\ calls' = calls
  BY DEF EnterNumbers
<1>2. /\ Stacked(list) /\ ran = Ahead(calls, Len(calls))
  BY <1>1 DEF SelectInv
<1>3. Entry.levels \in Seq(Int)
  BY <1>1, <1>2, EntryFacts
<1>4. Call' = Call /\ Entry' = Entry /\ IsAlias(Entry)' = IsAlias(Entry)
  BY <1>1 DEF Call, Entry, IsAlias
<1>5. AtEntry'
  <2>1. Entry.levels # <<>> => 1 <= Len(Entry.levels)
    BY <1>3
  <2> QED
    BY <1>1, <1>4, <2>1 DEF AtEntry
<1>6. Begun' = 0
  BY <1>1 DEF Begun
<1>7. Ahead(calls, Len(calls)) \in Seq(Test)
  <2>1. Len(calls) \in 0 .. Len(calls)
    <3>1. Len(calls) \in 1 .. 3
      BY <1>2, StackLists
    <3> QED
      BY <3>1, DepthFacts
  <2> QED
    BY <1>2, <2>1, AheadType
<1>8. ran' = Ahead(calls, Len(calls)) \o FirstOf(Numbers(Entry), Begun')
  BY <1>2, <1>6, <1>7, FirstOfNone, ConcatEmptySeq
<1> QED
  BY <1>1, <1>5, <1>8, SelectKept DEF InEntry

LEMMA EntryStays ==
  ASSUME calls' = calls
  PROVE  /\ Call' = Call /\ Entry' = Entry /\ IsAlias(Entry)' = IsAlias(Entry)
         /\ NamedBy(Entry)' = NamedBy(Entry) /\ Numbers(Entry)' = Numbers(Entry)
  BY DEF Call, Entry, IsAlias, NamedBy, Numbers

LEMMA AtEntryStays ==
  ASSUME AtEntry, calls' = calls, j' = j
  PROVE  AtEntry'
  BY EntryStays DEF AtEntry

LEMMA TestStarted ==
  ASSUME NEW list, IsList(list), SelectInv(list), StartTest, ran' = ran,
         cpc = "idle", cpc' = "idle"
  PROVE  SelectInv(list)'
<1> DEFINE e == Entry
           i == First(NamedBy(Entry))
           n == Codecs[i].last - Codecs[i].first + 1
           N == Numbers(Entry)
<1>1. /\ spc = "number" /\ NamedBy(e) # {} /\ calls' = calls /\ j' = j
      /\ test' = <<i, IF e.levels = <<>> THEN Codecs[i].first ELSE e.levels[j]>>
      /\ spc' = IF e.levels = <<>> /\ Codecs[i].first > Codecs[i].last
                  THEN "tested" ELSE "test"
  BY DEF StartTest
<1>2. /\ AtEntry /\ e.levels \in Seq(Int)
      /\ ran = Ahead(calls, Len(calls)) \o FirstOf(N, Begun)
  BY <1>1, SelectInvAt DEF InEntry
<1>3. /\ i \in 1 .. Len(Codecs) /\ Codecs[i].last \in Int /\ Codecs[i].first \in Int
      /\ e.levels # <<>> =>
           /\ Len(N) = Len(e.levels)
           /\ \A k \in 1 .. Len(e.levels) : N[k] = <<i, e.levels[k]>>
      /\ e.levels = <<>> /\ n \in Nat =>
           /\ Len(N) = n
           /\ \A k \in 1 .. n : N[k] = <<i, Codecs[i].first + k - 1>>
      /\ e.levels = <<>> /\ n \notin Nat => N = <<>>
  BY <1>1, <1>2, NumbersAre
<1>4. Begun = j - 1 /\ j \in Nat /\ j >= 1
  BY <1>1, <1>2 DEF Begun, AtEntry
<1>5. AtEntry' /\ Entry' = Entry /\ NamedBy(Entry)' = NamedBy(Entry)
      /\ Numbers(Entry)' = N
  BY <1>1, <1>2, AtEntryStays, EntryStays
<1>6. ASSUME InEntry', Begun' = Begun,
             spc' = "test" => /\ test' \in Test /\ Place' \in 1 .. Len(N)
                              /\ test' = N[Place']
      PROVE  SelectInv(list)'
  <2>1. spc' \in {"test", "next"} => spc' = "test"
    BY <1>1
  <2>2. test'[1] = i
    BY <1>1
  <2> HIDE DEF i, n
  <2> QED
    BY <1>1, <1>2, <1>5, <1>6, <2>1, <2>2, SelectKept DEF i
<1>7. CASE e.levels # <<>>
  <2>1. spc' = "test" /\ test' = <<i, e.levels[j]>>
    BY <1>1, <1>7
  <2>2. Place' = j
    BY <1>1, <1>5, <1>7 DEF Place
  <2>3. j \in 1 .. Len(e.levels)
    BY <1>2, <1>4, <1>7 DEF AtEntry
  <2>4. test' \in Test
    BY <1>2, <1>3, <2>1, <2>3 DEF Test
  <2>5. Begun' = Begun
    BY <1>4, <2>1, <2>2 DEF Begun
  <2> HIDE DEF e, i, N, n
  <2> QED
    BY <1>3, <1>6, <1>7, <2>1, <2>2, <2>3, <2>4, <2>5 DEF InEntry
<1>8. CASE e.levels = <<>> /\ Codecs[i].first > Codecs[i].last
  <2>1. spc' = "tested"
    BY <1>1, <1>8
  <2>2. Len(N) = 0
    <3>1. n \in Nat => n = 0
      BY <1>3, <1>8
    <3> HIDE DEF n, i, N
    <3> QED
      BY <1>3, <1>8, <3>1
  <2>3. Begun' = Len(N)
    <3> HIDE DEF n, i
    <3> QED
      BY <1>1, <1>5, <1>8, <2>1 DEF Begun
  <2>4. Begun = 0
    BY <1>2, <1>4, <1>8 DEF AtEntry
  <2> QED
    BY <1>6, <2>1, <2>2, <2>3, <2>4 DEF InEntry
<1>9. CASE e.levels = <<>> /\ ~(Codecs[i].first > Codecs[i].last)
  <2>1. spc' = "test" /\ test' = <<i, Codecs[i].first>>
    BY <1>1, <1>9
  <2>2. n \in Nat /\ 1 \in 1 .. n
    BY <1>3, <1>9
  <2>3. Place' = 1
    <3>1. Place' = test'[2] - Codecs[test'[1]].first + 1
      BY <1>5, <1>9 DEF Place
    <3>2. test'[1] = i /\ test'[2] = Codecs[i].first
      BY <2>1
    <3> HIDE DEF i, n
    <3> QED
      BY <1>3, <3>1, <3>2
  <2>4. test' \in Test
    BY <1>3, <2>1 DEF Test
  <2>5. N[1] = test' /\ Len(N) = n
    <3>1. Codecs[i].first + 1 - 1 = Codecs[i].first
      BY <1>3
    <3> HIDE DEF i, n, N
    <3> QED
      BY <1>3, <1>9, <2>1, <2>2, <3>1
  <2>6. Begun' = 0
    BY <2>1, <2>3 DEF Begun
  <2>7. Begun = 0
    BY <1>2, <1>4, <1>9 DEF AtEntry
  <2> HIDE DEF e, i, N, n
  <2> QED
    BY <1>6, <2>1, <2>2, <2>3, <2>4, <2>5, <2>6, <2>7 DEF InEntry
<1> QED
  BY <1>7, <1>8, <1>9

LEMMA CodecNotFound ==
  ASSUME NEW list, IsList(list), SelectInv(list), NotFound, ran' = ran
  PROVE  SelectInv(list)'
<1>1. /\ spc = "number" /\ NamedBy(Entry) = {} /\ calls' = calls /\ j' = j
      /\ spc' = "tested"
  BY DEF NotFound
<1>2. AtEntry /\ ran = Ahead(calls, Len(calls)) \o FirstOf(Numbers(Entry), Begun)
  BY <1>1, SelectInvAt DEF InEntry
<1>3. AtEntry' /\ NamedBy(Entry)' = NamedBy(Entry)
  BY <1>1, <1>2, AtEntryStays, EntryStays
<1>4. Begun = 0 /\ Begun' = 0
  BY <1>1, <1>3 DEF Begun
<1> QED
  BY <1>1, <1>2, <1>3, <1>4, SelectKept DEF InEntry

LEMMA LevelEnded ==
  ASSUME NEW list, IsList(list), SelectInv(list), NextLevel, ran' = ran,
         cpc = "idle", cpc' = "idle"
  PROVE  SelectInv(list)'
<1> DEFINE e == Entry
           i == First(NamedBy(Entry))
           n == Codecs[i].last - Codecs[i].first + 1
           N == Numbers(Entry)
           more == e.levels = <<>> /\ test[2] < Codecs[i].last
<1>1. spc = "next" /\ calls' = calls /\ j' = j
  BY DEF NextLevel
<1>2. /\ AtEntry /\ e.levels \in Seq(Int)
      /\ ran = Ahead(calls, Len(calls)) \o FirstOf(N, Begun)
  BY <1>1, SelectInvAt DEF InEntry
<1>3. /\ NamedBy(e) # {} /\ test[1] = i /\ test \in Test
      /\ Place \in 1 .. Len(N) /\ test = N[Place]
  BY <1>1 DEF SelectInv
<1>4. IF more THEN test' = <<i, test[2] + 1>> /\ spc' = "test"
              ELSE spc' = "tested"
  BY <1>3 DEF NextLevel
<1>5. /\ i \in 1 .. Len(Codecs) /\ Codecs[i].last \in Int /\ Codecs[i].first \in Int
      /\ e.levels = <<>> /\ n \in Nat =>
           /\ Len(N) = n
           /\ \A k \in 1 .. n : N[k] = <<i, Codecs[i].first + k - 1>>
      /\ e.levels = <<>> /\ n \notin Nat => N = <<>>
  BY <1>2, <1>3, NumbersAre
<1>6. AtEntry' /\ Entry' = Entry /\ NamedBy(Entry)' = NamedBy(Entry)
      /\ Numbers(Entry)' = N
  BY <1>1, <1>2, AtEntryStays, EntryStays
<1>7. Begun = Place
  BY <1>1 DEF Begun
<1>8. ASSUME InEntry', Begun' = Begun,
             spc' = "test" => /\ test' \in Test /\ Place' \in 1 .. Len(N)
                              /\ test' = N[Place'] /\ test'[1] = i
      PROVE  SelectInv(list)'
  <2>1. spc' \in {"test", "next"} => spc' = "test"
    BY <1>4
  <2> HIDE DEF n
  <2> QED
    BY <1>1, <1>2, <1>3, <1>6, <1>8, <2>1, SelectKept DEF i
<1>9. test[2] \in Int
  BY <1>3 DEF Test
<1>10. e.levels = <<>> => Place = test[2] - Codecs[i].first + 1
  BY <1>3 DEF Place
<1>11. ASSUME e.levels = <<>> PROVE n \in Nat /\ Len(N) = n /\ Place \in 1 .. n
  <2> HIDE DEF i, n, N
  <2>1. n \in Nat
    <3> SUFFICES ASSUME n \notin Nat PROVE FALSE
      OBVIOUS
    <3>1. N = <<>>
      BY <1>5, <1>11
    <3> QED
      BY <1>3, <3>1
  <2> QED
    BY <1>3, <1>5, <1>11, <2>1
<1>12. CASE more
  <2>1. spc' = "test" /\ test' = <<i, test[2] + 1>> /\ e.levels = <<>>
    BY <1>4, <1>12
  <2>2. Place' = Place + 1
    <3>1. Place' = test'[2] - Codecs[test'[1]].first + 1
      BY <1>6, <2>1 DEF Place
    <3>2. test'[1] = i /\ test'[2] = test[2] + 1
      BY <2>1
    <3> HIDE DEF i, n
    <3> QED
      BY <1>5, <1>9, <1>10, <2>1, <3>1, <3>2
  <2>3. Place + 1 \in 1 .. n
    <3>1. test[2] < Codecs[i].last
      BY <1>12
    <3>2. Place \in Nat /\ n \in Nat
      BY <1>11, <2>1
    <3>3. Place < n
      <4> HIDE DEF i
      <4> QED
        BY <1>5, <1>9, <1>10, <2>1, <3>1
    <3> HIDE DEF n
    <3> QED
      BY <3>2, <3>3
  <2>4. test' \in Test
    BY <1>5, <1>9, <2>1 DEF Test
  <2>5. Codecs[i].first + (Place + 1) - 1 = test[2] + 1
    <3> HIDE DEF i, n
    <3> QED
      BY <1>5, <1>9, <1>10, <2>1
  <2>6. Begun' = Place
    <3>1. Place \in Int
      BY <1>11, <2>1
    <3> QED
      BY <2>1, <2>2, <3>1 DEF Begun
  <2>7. N[Place + 1] = test' /\ test'[1] = i
    <3> HIDE DEF i, n, N, more
    <3> QED
      BY <1>5, <1>11, <2>1, <2>3, <2>5
  <2> HIDE DEF e, i, N, n, more
  <2> QED
    BY <1>7, <1>8, <1>11, <2>1, <2>2, <2>3, <2>4, <2>6, <2>7 DEF InEntry
<1>13. CASE ~more
  <2>1. spc' = "tested"
    BY <1>4, <1>13
  <2>2. CASE e.levels # <<>>
    <3>1. Place = j /\ Begun' = j
      BY <1>1, <1>3, <1>6, <2>1, <2>2 DEF Begun, Place
    <3> QED
      BY <1>7, <1>8, <2>1, <3>1 DEF InEntry
  <2>3. CASE e.levels = <<>>
    <3>1. ~(test[2] < Codecs[i].last)
      BY <1>13, <2>3
    <3>2. Place = n
      <4> HIDE DEF i
      <4> QED
        BY <1>5, <1>9, <1>10, <1>11, <2>3, <3>1
    <3>3. Begun' = Len(N)
      <4> HIDE DEF i, n
      <4> QED
        BY <1>3, <1>6, <2>1, <2>3 DEF Begun
    <3> HIDE DEF i, n, N
    <3> QED
      BY <1>7, <1>8, <1>11, <2>1, <2>3, <3>2, <3>3 DEF InEntry
  <2> QED
    BY <2>2, <2>3
<1> QED
  BY <1>12, <1>13

(* A test begins: it is the next of the entry's.                             *)
LEMMA TestRuns ==
  ASSUME NEW list, IsList(list), SelectInv(list), spc = "test", cpc = "idle",
         ran' = Append(ran, test), UNCHANGED <<calls, j, test>>,
         \/ spc' = "test" /\ cpc' # "idle"
         \/ spc' = "next"
  PROVE  SelectInv(list)'
<1> DEFINE N == Numbers(Entry)
<1>1. /\ AtEntry /\ N \in Seq(Test) /\ Ahead(calls, Len(calls)) \in Seq(Test)
      /\ ran = Ahead(calls, Len(calls)) \o FirstOf(N, Begun)
  BY SelectInvAt DEF InEntry
<1>2. /\ NamedBy(Entry) # {} /\ test[1] = First(NamedBy(Entry)) /\ test \in Test
      /\ Place \in 1 .. Len(N) /\ test = N[Place]
  BY DEF SelectInv
<1>3. Begun = Place - 1
  BY DEF Begun
<1>4. AtEntry' /\ Place' = Place
  BY <1>1, AtEntryStays, EntryStays DEF Place
<1>5. Begun' = Place
  BY <1>4 DEF Begun
<1>6. ran' = Ahead(calls, Len(calls)) \o FirstOf(N, Place)
  <2> HIDE DEF N
  <2> QED
    BY <1>1, <1>2, <1>3, OneMore
<1> QED
  BY <1>2, <1>4, <1>5, <1>6, SelectKept DEF InEntry

(* A test that has begun goes on, or returns.                                *)
LEMMA TestEnds ==
  ASSUME NEW list, IsList(list), SelectInv(list), spc = "test", cpc # "idle",
         ran' = ran, UNCHANGED <<calls, j, test>>,
         \/ spc' = "test" /\ cpc' # "idle"
         \/ spc' = "next"
  PROVE  SelectInv(list)'
<1>1. /\ AtEntry
      /\ ran = Ahead(calls, Len(calls)) \o FirstOf(Numbers(Entry), Begun)
  BY SelectInvAt DEF InEntry
<1>2. /\ NamedBy(Entry) # {} /\ test[1] = First(NamedBy(Entry)) /\ test \in Test
      /\ Place \in 1 .. Len(Numbers(Entry)) /\ test = Numbers(Entry)[Place]
  BY DEF SelectInv
<1>3. AtEntry' /\ Place' = Place
  BY <1>1, AtEntryStays, EntryStays DEF Place
<1>4. Begun = Place /\ Begun' = Place
  BY <1>3 DEF Begun
<1> QED
  BY <1>1, <1>2, <1>3, <1>4, SelectKept DEF InEntry

(* The topmost of some calls goes on to its next entry.                      *)
LEMMA OnToNext ==
  ASSUME NEW list, NEW s \in Seq(CallsOn(list)), s # <<>>
  PROVE  LET t == [s EXCEPT ![Len(s)].k = @ + 1]
         IN /\ t \in Seq(CallsOn(list)) /\ Len(t) = Len(s)
            /\ \A k \in 1 .. Len(s) - 1 : t[k] = s[k]
            /\ t[Len(s)].list = s[Len(s)].list /\ t[Len(s)].k = s[Len(s)].k + 1
<1> DEFINE n == Len(s)
           c == [s[n] EXCEPT !.k = s[n].k + 1]
           t == [s EXCEPT ![n].k = @ + 1]
<1>1. n \in Nat /\ n >= 1 /\ n \in 1 .. n /\ s[n] \in CallsOn(list)
  <2>1. n \in Nat /\ n >= 1
    OBVIOUS
  <2>2. n \in 1 .. n
    BY <2>1
  <2> QED
    BY <2>1, <2>2
<1>2. c \in CallsOn(list) /\ c.list = s[n].list /\ c.k = s[n].k + 1
  BY <1>1 DEF CallsOn
<1>3. t = [s EXCEPT ![n] = c]
  OBVIOUS
<1> HIDE DEF c
<1>4. /\ t \in Seq(CallsOn(list)) /\ Len(t) = n
      /\ \A k \in 1 .. n - 1 : t[k] = s[k]
      /\ t[n] = c
  BY <1>1, <1>2, <1>3
<1> QED
  BY <1>2, <1>4

LEMMA ThreeParts ==
  ASSUME NEW a \in Seq(Test), NEW b \in Seq(Test), NEW c \in Seq(Test)
  PROVE  (a \o b) \o c = a \o (b \o c)
  BY ConcatAssociative

(* The call at depth p goes on, and is the topmost one now: what it has done *)
(* with is as long as what had been run.                                     *)
LEMMA EntryDone ==
  ASSUME NEW list, IsList(list), Stacked(list), NEW p \in 1 .. Len(calls),
         calls[p].k <= Len(calls[p].list),
         calls' \in Seq(CallsOn(list)), Len(calls') = p,
         \A k \in 1 .. p - 1 : calls'[k] = calls[k],
         calls'[p].list = calls[p].list, calls'[p].k = calls[p].k + 1,
         ran' = Ahead(calls, p) \o Parts(p, calls[p].list)[calls[p].list[calls[p].k]],
         spc' = "entry"
  PROVE  SelectInv(list)'
<1> DEFINE m == Len(calls)
           c == calls[p]
           b == calls'[p]
           A == Ahead(calls, p - 1)
           B == Before(p, calls[p])
           N == Parts(p, calls[p].list)[calls[p].list[calls[p].k]]
<1>1. /\ m \in 1 .. 3
      /\ \A d \in 1 .. m : IsList(calls[d].list) /\ calls[d].k \in 1 .. Len(calls[d].list) + 1
  BY StackLists
<1>2. /\ p \in 1 .. 3 /\ p \in Nat /\ p \in 1 .. p /\ 1 \in 1 .. p
      /\ p - 1 \in 0 .. m /\ p - 1 \in 0 .. 3
      /\ \A d \in 1 .. p : d \in 1 .. m /\ (d = p \/ d \in 1 .. p - 1)
      /\ \A d \in 1 .. p - 1 : d \in 1 .. m - 1 /\ d + 1 \in 1 .. p
  <2>1. p \in 1 .. m
    OBVIOUS
  <2> HIDE DEF m
  <2> QED
    BY <1>1, <2>1
<1>3. IsList(c.list) /\ c.k \in 1 .. Len(c.list) + 1
  BY <1>1, <1>2
<1>4. Len(c.list) \in Nat /\ c.k \in 1 .. Len(c.list) /\ c.list[c.k] \in Range(c.list)
  <2>1. Len(c.list) \in Nat
    BY <1>3, InList
  <2>2. c.k \in 1 .. Len(c.list)
    BY <1>3, <2>1
  <2> QED
    BY <1>3, <2>1, <2>2, InList
<1>5. N \in Seq(Test)
  BY <1>2, <1>3, <1>4, PartsAre
<1>6. A \in Seq(Test)
  BY <1>2, AheadType
<1>7. B \in Seq(Test)
  <2> HIDE DEF c
  <2>1. Before(p, c) \in Seq(Test)
    BY <1>2, <1>3, BeforeFacts
  <2> QED
    BY <2>1 DEF c
<1>8. Before(p, b) = B \o N
  <2>1. IsList(c.list) /\ c.k \in 1 .. Len(c.list) /\ b.list = c.list /\ b.k = c.k + 1
    BY <1>3, <1>4
  <2> HIDE DEF b, c, m, A, B, N
  <2>2. p \in 1 .. 3
    BY <1>2
  <2>3. Before(p, b) = Before(p, c) \o Parts(p, c.list)[c.list[c.k]]
    BY ONLY <2>1, <2>2, BeforeNext
  <2> QED
    BY <2>3 DEF b, c, B, N
<1>9. Ahead(calls', p) = A \o (B \o N) /\ Ahead(calls, p) = A \o B
  <2>1. /\ Ahead(calls', p) = Ahead(calls', p - 1) \o Before(p, calls'[p])
        /\ Ahead(calls, p) = Ahead(calls, p - 1) \o Before(p, calls[p])
    BY <1>2, AheadNext
  <2>2. Ahead(calls', p - 1) = Ahead(calls, p - 1)
    BY <1>2, AheadSame
  <2> QED
    BY <1>8, <2>1, <2>2
<1>10. ran' = Ahead(calls', Len(calls'))
  <2>1. ran' = Ahead(calls, p) \o N
    OBVIOUS
  <2> HIDE DEF A, B, N
  <2>2. (A \o B) \o N = A \o (B \o N)
    BY <1>5, <1>6, <1>7, ThreeParts
  <2> QED
    BY <1>9, <2>1, <2>2
<1>11. calls[1].list = list
       /\ \A d \in 1 .. m - 1 :
            /\ calls[d].k <= Len(calls[d].list)
            /\ IsAlias(calls[d].list[calls[d].k])
            /\ calls[d + 1].list = Aliases[calls[d].list[calls[d].k].name]
  BY DEF Stacked
<1>12. \A d \in 1 .. p : calls'[d].list = calls[d].list
  BY <1>2
<1>13. \A d \in 1 .. p : calls'[d].k \in 1 .. Len(calls'[d].list) + 1
  <2> SUFFICES ASSUME NEW d \in 1 .. p
               PROVE  calls'[d].k \in 1 .. Len(calls'[d].list) + 1
    OBVIOUS
  <2>1. CASE d = p
    BY <1>4, <2>1
  <2>2. CASE d \in 1 .. p - 1
    BY <1>1, <1>2, <2>2
  <2> QED
    BY <1>2, <2>1, <2>2
<1>14. \A d \in 1 .. p - 1 :
         /\ calls'[d].k <= Len(calls'[d].list)
         /\ IsAlias(calls'[d].list[calls'[d].k])
         /\ calls'[d + 1].list = Aliases[calls'[d].list[calls'[d].k].name]
  <2> HIDE DEF m
  <2> QED
    BY <1>2, <1>11, <1>12
<1>15. Stacked(list)'
  <2>1. calls'[1].list = list
    BY <1>2, <1>11, <1>12
  <2> QED
    BY <1>2, <1>13, <1>14, <2>1 DEF Stacked, CallsOn, IsAlias
<1> QED
  BY <1>10, <1>15 DEF SelectInv, InEntry, Ahead, Before

LEMMA NumberDone ==
  ASSUME NEW list, IsList(list), SelectInv(list), NextNumber, ran' = ran
  PROVE  SelectInv(list)'
<1> DEFINE N == Numbers(Entry)
<1>1. spc = "tested"
  BY DEF NextNumber
<1>2. /\ AtEntry /\ Stacked(list) /\ Entry.levels \in Seq(Int) /\ N \in Seq(Test)
      /\ NamedBy(Entry) = {} => N = <<>>
      /\ ran = Ahead(calls, Len(calls)) \o FirstOf(N, Begun)
  BY <1>1, SelectInvAt DEF InEntry
<1>3. CASE j < Len(Entry.levels)
  <2>1. j' = j + 1 /\ spc' = "number" /\ calls' = calls
    BY <1>3 DEF NextNumber
  <2>2. j \in Nat /\ j >= 1 /\ Entry.levels # <<>>
    BY <1>2, <1>3 DEF AtEntry
  <2>3. /\ Call' = Call /\ Entry' = Entry /\ IsAlias(Entry)' = IsAlias(Entry)
        /\ NamedBy(Entry)' = NamedBy(Entry)
    BY <2>1, EntryStays
  <2>4. AtEntry'
    <3>1. j + 1 <= Len(Entry.levels) /\ j + 1 \in Nat \ {0}
      BY <1>2, <1>3, <2>2
    <3> QED
      BY <1>2, <2>1, <2>2, <2>3, <3>1 DEF AtEntry
  <2>5. Begun' = Begun
    <3>1. (j + 1) - 1 = j
      BY <2>2
    <3>2. Begun = IF NamedBy(Entry) = {} THEN 0 ELSE j
      BY <1>1, <2>2 DEF Begun
    <3>3. Begun' = IF NamedBy(Entry) = {} THEN 0 ELSE (j + 1) - 1
      BY <2>1, <2>3 DEF Begun
    <3> QED
      BY <3>1, <3>2, <3>3
  <2> QED
    BY <1>2, <2>1, <2>4, <2>5, SelectKept DEF InEntry
<1>4. CASE ~(j < Len(Entry.levels))
  <2>1. spc' = "entry" /\ calls' = NextEntry
    BY <1>4 DEF NextNumber
  <2>2. Begun = Len(N)
    <3>1. CASE NamedBy(Entry) = {}
      BY <1>1, <1>2, <3>1 DEF Begun
    <3>2. CASE NamedBy(Entry) # {} /\ Entry.levels = <<>>
      BY <1>1, <3>2 DEF Begun
    <3>3. CASE NamedBy(Entry) # {} /\ Entry.levels # <<>>
      <4>1. j = Len(Entry.levels)
        BY <1>2, <1>4, <3>3 DEF AtEntry
      <4>2. Len(N) = Len(Entry.levels)
        BY <1>2, <3>3, NumbersAre
      <4> QED
        BY <1>1, <3>3, <4>1, <4>2 DEF Begun
    <3> QED
      BY <3>1, <3>2, <3>3
  <2>3. FirstOf(N, Begun) = N
    <3> HIDE DEF N
    <3> QED
      BY <1>2, <2>2, FirstOfAll
  <2>4. Call.k <= Len(Call.list) /\ ~IsAlias(Entry)
    BY <1>2 DEF AtEntry
  <2> DEFINE m == Len(calls)
  <2>5. /\ calls \in Seq(CallsOn(list)) /\ m \in 1 .. 3 /\ m \in 1 .. m /\ calls # <<>>
    <3>1. calls \in Seq(CallsOn(list)) /\ m \in 1 .. 3
      BY <1>2, StackLists
    <3>2. m \in 1 .. m
      BY <3>1, DepthFacts
    <3>3. Len(<<>>) = 0 /\ 0 \notin 1 .. 3
      OBVIOUS
    <3> QED
      BY <3>1, <3>2, <3>3
  <2>6. /\ calls' \in Seq(CallsOn(list)) /\ Len(calls') = m
        /\ \A k \in 1 .. m - 1 : calls'[k] = calls[k]
        /\ calls'[m].list = calls[m].list /\ calls'[m].k = calls[m].k + 1
    BY <2>1, <2>5, OnToNext DEF NextEntry
  <2>7. Parts(m, calls[m].list)[calls[m].list[calls[m].k]] = N
        /\ calls[m].k <= Len(calls[m].list)
    BY <1>2, <2>4, EntryFacts DEF Call, Entry
  <2>8. ran' = Ahead(calls, m) \o N
    BY <1>2, <2>3
  <2> HIDE DEF N, m
  <2>9. m \in 1 .. Len(calls)
    BY <2>5 DEF m
  <2> QED
    BY <1>2, <2>1, <2>6, <2>7, <2>8, <2>9, EntryDone
<1> QED
  BY <1>3, <1>4


(* A list that an alias stands for has been gone through.                    *)
LEMMA AliasLeft ==
  ASSUME NEW list, IsList(list), SelectInv(list), LeaveList, Len(calls) # 1, ran' = ran
  PROVE  SelectInv(list)'
<1> DEFINE m == Len(calls)
           p == m - 1
           s == SubSeq(calls, 1, p)
           e == calls[p].list[calls[p].k]
<1>1. /\ spc = "entry" /\ Call.k > Len(Call.list) /\ spc' = "entry"
      /\ calls' = [s EXCEPT ![p].k = @ + 1]
  BY DEF LeaveList
<1>2. Stacked(list) /\ ran = Ahead(calls, m)
  BY <1>1 DEF SelectInv
<1>3. /\ calls \in Seq(CallsOn(list)) /\ m \in 1 .. 3
      /\ \A d \in 1 .. m : IsList(calls[d].list) /\ calls[d].k \in 1 .. Len(calls[d].list) + 1
  BY <1>2, StackLists
<1>4. /\ m \in Nat /\ m \in 1 .. m /\ p \in 1 .. m /\ p \in 1 .. 3 /\ p < 3 /\ p + 1 = m
      /\ p \in 1 .. m - 1 /\ p \in Nat /\ p >= 1 /\ m - 1 = p
  <2>1. m # 1
    OBVIOUS
  <2> HIDE DEF m
  <2> QED
    BY <1>3, <2>1, DepthFacts
<1>5. /\ calls[p].k <= Len(calls[p].list) /\ IsAlias(e)
      /\ calls[m].list = Aliases[e.name]
  <2>1. \A d \in 1 .. m - 1 :
          /\ calls[d].k <= Len(calls[d].list)
          /\ IsAlias(calls[d].list[calls[d].k])
          /\ calls[d + 1].list = Aliases[calls[d].list[calls[d].k].name]
    BY <1>2 DEF Stacked
  <2> HIDE DEF m, p
  <2> QED
    BY <1>4, <2>1
<1>6. Call = calls[m]
  BY DEF Call
<1>7. s \in Seq(CallsOn(list)) /\ Len(s) = p /\ \A k \in 1 .. p : s[k] = calls[k]
  <2> HIDE DEF m, p
  <2>1. p <= Len(calls)
    BY <1>4 DEF m
  <2>2. \A k \in 1 .. p : k \in 1 .. Len(calls)
    BY <1>4, <2>1
  <2>3. \A k \in 1 .. p : calls[k] \in CallsOn(list)
    BY <1>3, <2>2
  <2>4. 1 \in Int /\ p \in Int /\ p - 1 + 1 = p /\ 1 <= p
    BY <1>4
  <2>5. /\ s \in Seq(CallsOn(list)) /\ Len(s) = p - 1 + 1
        /\ \A k \in 1 .. p - 1 + 1 : s[k] = calls[1 + k - 1]
    BY <2>3, <2>4, SubSeqProperties
  <2>6. \A k \in 1 .. p : 1 + k - 1 = k
    OBVIOUS
  <2> HIDE DEF s
  <2> QED
    BY <2>4, <2>5, <2>6
<1> HIDE DEF s
<1>8. s # <<>>
  <2>1. Len(<<>>) = 0
    OBVIOUS
  <2> QED
    BY <1>4, <1>7, <2>1
<1>9. /\ calls' \in Seq(CallsOn(list)) /\ Len(calls') = p
      /\ \A k \in 1 .. p - 1 : calls'[k] = s[k]
      /\ calls'[p].list = s[p].list /\ calls'[p].k = s[p].k + 1
  <2>1. calls' = [s EXCEPT ![Len(s)].k = @ + 1]
    BY <1>1, <1>7
  <2>2. /\ calls' \in Seq(CallsOn(list)) /\ Len(calls') = Len(s)
        /\ \A k \in 1 .. Len(s) - 1 : calls'[k] = s[k]
        /\ calls'[Len(s)].list = s[Len(s)].list /\ calls'[Len(s)].k = s[Len(s)].k + 1
    BY <1>7, <1>8, <2>1, OnToNext
  <2> QED
    BY <1>7, <2>2
<1>10. /\ \A k \in 1 .. p - 1 : calls'[k] = calls[k]
       /\ calls'[p].list = calls[p].list /\ calls'[p].k = calls[p].k + 1
  <2> HIDE DEF m, p
  <2>1. p \in 1 .. p /\ \A k \in 1 .. p - 1 : k \in 1 .. p
    BY <1>4
  <2> QED
    BY <1>7, <1>9, <2>1
<1>11. Ahead(calls, m) = Ahead(calls, p) \o Parts(p, calls[p].list)[e]
  <2> DEFINE c == calls[m]
             l == calls[p].list
  <2>1. IsList(c.list) /\ c.k \in 1 .. Len(c.list) + 1 /\ c.k > Len(c.list)
        /\ c.list = Aliases[e.name]
    BY <1>1, <1>3, <1>4, <1>5, <1>6
  <2>2. IsList(l) /\ e \in Range(l)
    <3>1. IsList(l) /\ calls[p].k \in 1 .. Len(l) + 1
      BY <1>3, <1>4
    <3>2. Len(l) \in Nat
      BY <3>1, InList
    <3>3. calls[p].k \in 1 .. Len(l)
      BY <1>5, <3>1, <3>2
    <3> QED
      BY <3>1, <3>3, InList
  <2> HIDE DEF p, m, c, l, e
  <2>3. c.k = Len(c.list) + 1
    <3>1. Len(c.list) \in Nat
      BY <2>1, InList
    <3> QED
      BY <2>1, <3>1
  <2>4. Before(m, c) = Joined(c.list, Parts(m, c.list))
    BY <1>3, <2>1, <2>3, BeforeFacts
  <2>5. Parts(p, l)[e] = Joined(Aliases[e.name], Parts(p + 1, Aliases[e.name]))
    BY <1>4, <1>5, <2>2, PartsAre
  <2>6. Ahead(calls, m) = Ahead(calls, m - 1) \o Before(m, calls[m])
    BY <1>3, AheadNext
  <2> QED
    BY <1>4, <2>1, <2>4, <2>5, <2>6 DEF c, l
<1>12. p \in 1 .. Len(calls)
  BY <1>4
<1>13. ran' = Ahead(calls, p) \o Parts(p, calls[p].list)[e]
  BY <1>2, <1>11
<1> HIDE DEF m, p
<1> QED
  BY <1>1, <1>2, <1>5, <1>9, <1>10, <1>12, <1>13, EntryDone DEF e

(* The list asked for has been gone through.                                 *)
LEMMA ListDone ==
  ASSUME NEW list, IsList(list), SelectInv(list), LeaveList, Len(calls) = 1
  PROVE  ran = Expanded(list) /\ calls' = <<>> /\ spc' = "idle"
<1>1. /\ spc = "entry" /\ Call.k > Len(Call.list) /\ calls' = <<>> /\ spc' = "idle"
  BY DEF LeaveList
<1>2. Stacked(list) /\ ran = Ahead(calls, 1)
  BY <1>1 DEF SelectInv
<1> DEFINE c == calls[1]
<1>3. c.list = list /\ c.k \in 1 .. Len(list) + 1 /\ c.k > Len(list)
  <2>1. 1 \in 1 .. Len(calls)
    OBVIOUS
  <2> QED
    BY <1>1, <1>2, <2>1 DEF Stacked, Call
<1>4. c.k = Len(list) + 1
  <2>1. Len(list) \in Nat
    BY InList
  <2> QED
    BY <1>3, <2>1
<1> HIDE DEF c
<1>5. Before(1, c) = Joined(list, Parts(1, list)) /\ Before(1, c) \in Seq(Test)
  BY <1>3, <1>4, BeforeFacts
<1>6. Ahead(calls, 1) = <<>> \o Before(1, c)
  BY DEF Ahead, c
<1>7. Joined(list, Parts(1, list)) = Expanded(list)
  BY DEF Parts, Whole, Expanded
<1>8. <<>> \o Before(1, c) = Before(1, c)
  BY <1>5, ConcatEmptySeq
<1> QED
  BY <1>1, <1>2, <1>5, <1>6, <1>7, <1>8

-------------------------------------------------------------------------------
(* What holds of main, part by part. *)
PartsInv ==
  /\ OptionsInv /\ ListInv /\ SplitInv
  /\ names \in Seq(Path)

(* The list of codecs is gone through only while main is selecting, and the  *)
(* split into chunks is at work only for a test.                             *)
PhaseInv ==
  /\ phase \in {"options", "list", "inputs", "memcpy", "select", "selecting",
                "selected", "crashed", "end"}
  /\ spc \in {"idle", "entry", "number", "test", "next", "tested"}
  /\ at \in Nat /\ at >= 1 /\ at <= Len(names) + 2
  /\ phase \in {"options", "list"} => at = 1
  /\ phase \in {"memcpy", "select", "selecting", "selected"} => at <= Len(names) + 1
  /\ rest \in Nat /\ job \in Seq(Nat)
  /\ phase # "selecting" => spc = "idle"
  /\ phase # "memcpy" /\ ~(phase = "selecting" /\ spc = "test") => cpc = "idle"

WalkedInv ==
  /\ phase = "options" =>
       /\ lpc = "idle"
       /\ inputs = <<>> /\ stack = <<>> /\ found = <<>> /\ nbFiles = 0 /\ table = <<>>
  /\ phase = "list" => \A args : args = names => FoundInv(args)

TestedInv ==
  /\ phase = "selecting" => \A list : list = Asked => SelectInv(list)
  /\ phase = "selected" => ran = Expanded(Asked)

MainInv == PartsInv /\ PhaseInv /\ WalkedInv /\ TestedInv

-------------------------------------------------------------------------------
LEMMA AskedIsList ==
  ASSUME OptionsInv
  PROVE  IsList(Asked)
<1>1. params.encoders = None \/ \E l \in Letters : l.letter = "e" /\ params.encoders = l.list
  BY DEF OptionsInv, ParamsOK
<1>2. CASE params.encoders = None
  BY <1>2, CommandLineAssumption, SelectionAssumption DEF Asked
<1>3. CASE params.encoders # None
  BY <1>1, <1>3, CommandLineAssumption DEF Asked
<1> QED
  BY <1>2, <1>3

LEMMA NameTaken ==
  ASSUME OptionsInv, names \in Seq(Path), OptionsNext
  PROVE  names' \in Seq(Path)
<1>1. CASE TakeName
  <2>1. argv \in Seq(Arguments) /\ argv # <<>> /\ names' = Append(names, Head(argv).path)
    BY <1>1 DEF OptionsInv, TakeName
  <2>2. Head(argv) \in Arguments
    BY <2>1, HeadAndTail
  <2>3. Head(argv).path \in Path
    BY <2>2, CommandLineAssumption
  <2> QED
    BY <2>1, <2>3
<1>2. CASE names' = names
  BY <1>2
<1> QED
  BY <1>1, <1>2 DEF OptionsNext, TakeOptions, ObeyLetter, EndOfArgument, AskUsage,
     ListCodecs, UnknownOption, EndOfLine

LEMMA ListSame ==
  ASSUME ListInv, UNCHANGED listVars
  PROVE  ListInv'
  BY ListInvStep

LEMMA SplitSame ==
  ASSUME SplitInv, UNCHANGED chunkVars
  PROVE  SplitInv'
  BY SplitInvStep

LEMMA SplitMoves ==
  ASSUME SplitInv, SplitNext \/ SplitUsed
  PROVE  SplitInv'
  BY SplitInvStep DEF ChunkingNext

LEMMA SumNatural ==
  ASSUME NEW s \in Seq(Nat)
  PROVE  Sum(s) \in Nat
<1>1. Len(s) \in Nat /\ \A k \in 1 .. Len(s) : s[k] \in Nat
  OBVIOUS
<1> QED
  BY <1>1, SumToNext DEF Sum

LEMMA WordsOfSplit ==
  ASSUME OptionsInv
  PROVE  params.chunkSize \in Nat /\ params.memLimit \in Nat
<1>1. {params.chunkSize, params.memLimit} \subseteq 0 .. Word - 1
  BY DEF OptionsInv, ParamsOK
<1> QED
  BY <1>1

LEMMA SplitBegins ==
  ASSUME PartsInv, job \in Seq(Nat), NEW maxBlock \in Nat, Split(maxBlock)
  PROVE  SplitInv'
<1>1. Sum(job) \in Nat /\ params.chunkSize \in Nat
  BY SumNatural, WordsOfSplit DEF PartsInv
<1> QED
  BY <1>1, SplitInvStart DEF Split, PartsInv

(* The codec being tested is one of the table. *)
LEMMA CodecInHand ==
  ASSUME MainInv, phase = "selecting", spc = "test"
  PROVE  Codecs[test[1]].maxBlock \in Nat
<1>1. PICK list : list = Asked
  OBVIOUS
<1>2. SelectInv(list)
  BY <1>1 DEF MainInv, TestedInv
<1>3. test \in Test
  BY <1>2 DEF SelectInv
<1>4. test[1] \in 1 .. Len(Codecs)
  BY <1>3 DEF Test
<1>5. Codecs[test[1]] \in Range(Codecs)
  BY <1>4, SelectionAssumption DEF Range
<1> QED
  BY <1>5, SelectionAssumption DEF IsCodec

(* A step of main takes a step of at most one part.                          *)
LEMMA PartsStep ==
  ASSUME MainInv, Next
  PROVE  PartsInv'
<1>0. PartsInv /\ PhaseInv
  BY DEF MainInv
<1>a. ASSUME UNCHANGED optionVars PROVE OptionsInv' /\ names' \in Seq(Path)
  BY <1>0, <1>a, OptionsInvKept DEF optionVars, PartsInv
<1>b. ASSUME UNCHANGED listVars PROVE ListInv'
  BY <1>0, <1>b, ListSame DEF PartsInv
<1>c. ASSUME UNCHANGED chunkVars PROVE SplitInv'
  BY <1>0, <1>c, SplitSame DEF PartsInv
<1>1. CASE Parse
  <2>1. OptionsInv'
    BY <1>0, <1>1, OptionsInvStep DEF Parse, PartsInv
  <2>2. names' \in Seq(Path)
    BY <1>0, <1>1, NameTaken DEF Parse, PartsInv
  <2> QED
    BY <1>1, <1>b, <1>c, <2>1, <2>2 DEF Parse, PartsInv
<1>2. CASE Walk
  <2>1. [ListNext]_listVars
    BY <1>0, <1>2 DEF Walk, ListNext, PartsInv
  <2>2. ListInv'
    BY <1>0, <2>1, ListInvStep DEF PartsInv
  <2> QED
    BY <1>2, <1>a, <1>c, <2>2 DEF Walk, PartsInv
<1>3. CASE UseList
  <2>1. OptionsInv'
    BY <1>0, <1>3, OptionsInvKept DEF UseList, PartsInv
  <2>2. table \in Seq(Path)
    BY <1>0 DEF PartsInv, ListInv, ListTypeOK
  <2>3. names' \in Seq(Path)
    BY <1>0, <1>3, <2>2 DEF UseList, PartsInv
  <2> QED
    BY <1>3, <1>b, <1>c, <2>1, <2>3 DEF UseList, PartsInv
<1>4. CASE TestMemcpy
  <2>1. SplitInv'
    <3>1. CASE Split(0)
      BY <1>0, <3>1, SplitBegins DEF PhaseInv
    <3>2. CASE SplitNext \/ SplitUsed
      BY <1>0, <3>2, SplitMoves DEF PartsInv
    <3> QED
      BY <1>4, <3>1, <3>2 DEF TestMemcpy
  <2> QED
    BY <1>4, <1>a, <1>b, <2>1 DEF TestMemcpy, PartsInv
<1>5. CASE StartCodec
  <2>1. Codecs[test[1]].maxBlock \in Nat
    BY <1>5, CodecInHand DEF StartCodec
  <2>2. SplitInv'
    BY <1>0, <1>5, <2>1, SplitBegins DEF StartCodec, PhaseInv
  <2> QED
    BY <1>5, <1>a, <1>b, <2>2 DEF StartCodec, PartsInv
<1>6. CASE CutCodec
  <2>1. SplitInv'
    BY <1>0, <1>6, SplitMoves DEF CutCodec, PartsInv
  <2> QED
    BY <1>6, <1>a, <1>b, <2>1 DEF CutCodec, PartsInv
<1>7. CASE UNCHANGED <<optionVars, listVars, chunkVars>>
  BY <1>7, <1>a, <1>b, <1>c DEF PartsInv
<1> QED
  BY <1>1, <1>2, <1>3, <1>4, <1>5, <1>6, <1>7 DEF Next, MainStep, StopEarly, GoOn,
     JoinInputs, OpenInput, SkipInput, Select, Selecting, DropCodec, NextPart, EndMain,
     Finished, vars

-------------------------------------------------------------------------------
LEMMA LimitNatural ==
  ASSUME OptionsInv, NEW n \in Nat
  PROVE  Limit(n) \in Nat
  BY WordsOfSplit DEF Limit, Smaller

LEMMA OneOf ==
  ASSUME NEW n \in Nat
  PROVE  <<n>> \in Seq(Nat)
  OBVIOUS

LEMMA InputsJoined ==
  ASSUME PartsInv, JoinInputs
  PROVE  job' \in Seq(Nat) /\ rest' \in Nat
<1> DEFINE parts == [p \in Path |-> IF p \in DOMAIN FileSize THEN <<FileSize[p]>> ELSE <<>>]
<1>1. job' = Joined(names, parts) /\ rest' = Sum(job')
  BY DEF JoinInputs
<1>2. \A p \in Path : parts[p] \in Seq(Nat)
  BY CommandLineAssumption
<1>3. Len(names) \in Nat /\ \A k \in 1 .. Len(names) : names[k] \in Path
  BY DEF PartsInv
<1> HIDE DEF parts
<1>4. \A k \in 1 .. Len(names) : parts[names[k]] \in Seq(Nat)
  BY <1>2, <1>3
<1>5. JoinedTo(names, parts, Len(names)) \in Seq(Nat)
  BY <1>3, <1>4, JoinedToNext
<1>6. job' \in Seq(Nat)
  BY <1>1, <1>5 DEF Joined
<1> QED
  BY <1>1, <1>6, SumNatural

(* Where main, the walk through the codecs and the split are.                *)
LEMMA PhaseStep ==
  ASSUME MainInv, Next
  PROVE  PhaseInv'
<1>0. PartsInv /\ PhaseInv
  BY DEF MainInv
<1>a. names \in Seq(Path) /\ Len(names) \in Nat /\ OptionsInv
  BY <1>0 DEF PartsInv
<1>1. CASE Parse
  <2>1. names' \in Seq(Path)
    BY <1>a, <1>1, NameTaken DEF Parse
  <2>2. Len(names') \in Nat
    BY <2>1
  <2> QED
    BY <1>0, <1>1, <2>2 DEF Parse, mainVars, selectVars, chunkVars, PhaseInv
<1>2. CASE StopEarly
  BY <1>0, <1>2 DEF StopEarly, selectVars, chunkVars, optionVars, PhaseInv
<1>3. CASE GoOn
  BY <1>0, <1>3 DEF GoOn, selectVars, chunkVars, optionVars, PhaseInv
<1>4. CASE Walk
  BY <1>0, <1>4 DEF Walk, mainVars, selectVars, chunkVars, optionVars, PhaseInv
<1>5. CASE UseList
  <2>1. table \in Seq(Path)
    BY <1>0 DEF PartsInv, ListInv, ListTypeOK
  <2>2. Len(names') \in Nat
    BY <1>a, <1>5, <2>1 DEF UseList
  <2> QED
    BY <1>0, <1>5, <2>2 DEF UseList, selectVars, chunkVars, PhaseInv
<1>6. CASE JoinInputs
  BY <1>0, <1>a, <1>6, InputsJoined
     DEF JoinInputs, selectVars, chunkVars, optionVars, PhaseInv
<1>7. CASE OpenInput
  <2> DEFINE size == FileSize[names[at]]
  <2>1. size \in Nat
    BY <1>7, CommandLineAssumption DEF OpenInput, Readable
  <2>2. rest' = size /\ job' = <<Limit(size)>>
    BY <1>7 DEF OpenInput
  <2>3. phase' \in {"crashed", "memcpy", "select"} /\ at <= Len(names) /\ phase = "inputs"
    BY <1>7 DEF OpenInput
  <2>4. UNCHANGED <<names, spc, cpc, at>>
    BY <1>7 DEF OpenInput, selectVars, chunkVars, optionVars
  <2> HIDE DEF size
  <2>5. job' \in Seq(Nat)
    BY <1>a, <2>1, <2>2, LimitNatural, OneOf
  <2> QED
    BY <1>0, <1>a, <2>1, <2>2, <2>3, <2>4, <2>5 DEF PhaseInv
<1>8. CASE SkipInput
  BY <1>0, <1>a, <1>8 DEF SkipInput, selectVars, chunkVars, optionVars, PhaseInv
<1>9. CASE TestMemcpy
  <2>1. UNCHANGED <<names, spc, at, rest, job>> /\ phase = "memcpy"
    BY <1>9 DEF TestMemcpy, selectVars, optionVars
  <2>2. phase' = "memcpy" \/ (phase' = "select" /\ cpc' = "idle")
    BY <1>9 DEF TestMemcpy, SplitUsed
  <2> QED
    BY <1>0, <2>1, <2>2 DEF PhaseInv
<1>10. CASE Select
  BY <1>0, <1>10 DEF Select, SelectStart, chunkVars, optionVars, PhaseInv
<1>11. CASE Selecting
  <2>1. UNCHANGED <<names, cpc, at, rest, job>> /\ phase = "selecting"
    BY <1>11 DEF Selecting, chunkVars, optionVars
  <2>2. phase' = IF spc' = "idle" THEN "selected" ELSE "selecting"
    BY <1>11 DEF Selecting
  <2>3. spc' \in {"idle", "entry", "number", "test", "next", "tested"} /\ spc # "test"
    BY <1>0, <1>11 DEF Selecting, SelectNext, EnterAlias, LeaveList, EnterNumbers,
       StartTest, NotFound, NextLevel, NextNumber, PhaseInv
  <2> QED
    BY <1>0, <2>1, <2>2, <2>3 DEF PhaseInv
<1>12. CASE StartCodec
  BY <1>0, <1>12 DEF StartCodec, selectVars, optionVars, PhaseInv
<1>13. CASE DropCodec
  BY <1>0, <1>13 DEF DropCodec, TestReturns, chunkVars, optionVars, PhaseInv
<1>14. CASE CutCodec
  <2>1. UNCHANGED <<names, phase, at, rest, job>> /\ phase = "selecting" /\ spc = "test"
    BY <1>14 DEF CutCodec, mainVars, optionVars
  <2>2. spc' = "test" \/ (spc' = "next" /\ cpc' = "idle")
    BY <1>14, <2>1 DEF CutCodec, selectVars, SplitUsed, TestReturns
  <2> QED
    BY <1>0, <2>1, <2>2 DEF PhaseInv
<1>15. CASE NextPart
  <2> DEFINE left_ == rest - Sum(job)
             again == left_ > 0 /\ ~params.randomRead
  <2>1. /\ rest' = IF again THEN left_ ELSE 0
        /\ job' = IF again THEN <<Limit(left_)>> ELSE <<>>
        /\ phase' = IF again THEN "select" ELSE "inputs"
        /\ at' = IF again THEN at ELSE at + 1
        /\ phase = "selected" /\ UNCHANGED <<names, spc, cpc>>
    BY <1>15 DEF NextPart, selectVars, chunkVars, optionVars
  <2>2. rest \in Nat /\ Sum(job) \in Nat
    BY <1>0, SumNatural DEF PhaseInv
  <2>3. again => left_ \in Nat
    BY <2>2
  <2> HIDE DEF left_, again
  <2>4. job' \in Seq(Nat) /\ rest' \in Nat
    BY <1>a, <2>1, <2>3, LimitNatural, OneOf
  <2> QED
    BY <1>0, <1>a, <2>1, <2>4 DEF PhaseInv
<1>16. CASE EndMain
  BY <1>0, <1>16 DEF EndMain, selectVars, chunkVars, optionVars, PhaseInv
<1>17. CASE Finished
  BY <1>0, <1>17 DEF Finished, vars, mainVars, selectVars, chunkVars, optionVars, PhaseInv
<1> QED
  BY <1>1, <1>2, <1>3, <1>4, <1>5, <1>6, <1>7, <1>8, <1>9, <1>10, <1>11, <1>12, <1>13,
     <1>14, <1>15, <1>16, <1>17 DEF Next, MainStep

(* The list is made from the names that main was given.                      *)
LEMMA WalkedStep ==
  ASSUME MainInv, Next
  PROVE  WalkedInv'
<1>0. PartsInv /\ PhaseInv /\ WalkedInv
  BY DEF MainInv
<1>1. CASE Parse
  BY <1>0, <1>1 DEF Parse, mainVars, listVars, WalkedInv
<1>2. CASE GoOn
  <2>1. UNCHANGED <<names, inputs, stack, found, nbFiles, table, lpc, faults>>
        /\ phase = "options" /\ phase' # "options"
    BY <1>2 DEF GoOn, optionVars, listVars
  <2>2. \A args : FoundInv(args)'
    BY <1>0, <2>1 DEF WalkedInv, FoundInv
  <2> QED
    BY <2>1, <2>2 DEF WalkedInv
<1>3. CASE Walk
  <2>1. names' = names /\ phase' = phase /\ phase = "list"
    BY <1>3 DEF Walk, optionVars, mainVars
  <2>2. ASSUME NEW args, args = names PROVE FoundInv(args)'
    <3>1. ListInv /\ args \in Seq(Path) /\ FoundInv(args)
      BY <1>0, <2>1, <2>2 DEF PartsInv, WalkedInv
    <3>2. CreateList(args) \/ WalkNext
      BY <1>3, <2>2 DEF Walk
    <3> QED
      BY <3>1, <3>2, FoundStep
  <2> QED
    BY <2>1, <2>2 DEF WalkedInv
<1>4. CASE phase' \notin {"options", "list"}
  BY <1>4 DEF WalkedInv
<1>5. CASE UNCHANGED <<phase, names, listVars>>
  <2>1. \A args : FoundInv(args)' <=> FoundInv(args)
    BY <1>5 DEF listVars, FoundInv, WalkInv, FoundOnce, ListFound, RestOf, OnceOf,
       FoundPaths, Separate
  <2> QED
    BY <1>0, <1>5, <2>1 DEF listVars, WalkedInv
<1> QED
  BY <1>0, <1>1, <1>2, <1>3, <1>4, <1>5 DEF Next, MainStep, StopEarly, UseList, JoinInputs,
     OpenInput, SkipInput, TestMemcpy, Select, Selecting, StartCodec, DropCodec, CutCodec,
     NextPart, EndMain, Finished, vars, optionVars, mainVars

LEMMA AskedStays ==
  ASSUME UNCHANGED optionVars
  PROVE  Asked' = Asked /\ Expanded(Asked)' = Expanded(Asked)
<1>1. Asked' = Asked
  BY DEF optionVars, Asked
<1> QED
  BY <1>1 DEF Expanded, Within, Direct, Numbers, IsAlias, NamedBy

LEMMA SelectSame ==
  ASSUME NEW list, SelectInv(list), UNCHANGED <<selectVars, ran, cpc>>
  PROVE  SelectInv(list)'
<1>1. UNCHANGED <<calls, j, test, spc, ran, cpc>>
  BY DEF selectVars
<1>2. /\ Call' = Call /\ Entry' = Entry /\ IsAlias(Entry)' = IsAlias(Entry)
      /\ NamedBy(Entry)' = NamedBy(Entry) /\ Numbers(Entry)' = Numbers(Entry)
  BY <1>1, EntryStays
<1>3. Place' = Place
  BY <1>1, <1>2 DEF Place
<1>4. Begun' = Begun
  BY <1>1, <1>2, <1>3 DEF Begun
<1>5. Ahead(calls, Len(calls))' = Ahead(calls, Len(calls))
  BY <1>1 DEF Ahead, Before, Parts, Whole, Within, Direct, Numbers, NamedBy, IsAlias
<1>6. FirstOf(Numbers(Entry), Begun)' = FirstOf(Numbers(Entry), Begun)
  BY <1>2, <1>4 DEF FirstOf
<1>7. Stacked(list)'
  BY <1>1 DEF SelectInv, Stacked, IsAlias
<1>8. InEntry' = InEntry /\ (AtEntry => AtEntry')
  BY <1>1, AtEntryStays DEF InEntry
<1> QED
  BY <1>1, <1>2, <1>3, <1>5, <1>6, <1>7, <1>8 DEF SelectInv

(* A step of the walk itself, while main is selecting.                       *)
LEMMA SelectStep ==
  ASSUME MainInv, Selecting, NEW list, list = Asked
  PROVE  /\ spc' # "idle" => SelectInv(list)'
         /\ spc' = "idle" => ran' = Expanded(list)
<1>1. IsList(list) /\ SelectInv(list) /\ spc # "test" /\ cpc = "idle"
  <2>1. spc # "test"
    BY DEF Selecting, SelectNext, EnterAlias, LeaveList, EnterNumbers, StartTest, NotFound,
       NextLevel, NextNumber
  <2> QED
    BY <2>1, AskedIsList DEF MainInv, PartsInv, PhaseInv, TestedInv, Selecting
<1>2. ran' = ran /\ cpc' = "idle" /\ SelectNext
  BY <1>1 DEF Selecting, chunkVars
<1>3. spc # "idle" /\ Len(calls) \in 1 .. 3
  BY <1>1 DEF SelectInv, Stacked
<1>4. CASE EnterAlias
  BY <1>1, <1>2, <1>3, <1>4, AliasEntered DEF EnterAlias
<1>5. CASE LeaveList
  <2>1. CASE Len(calls) = 1
    <3>1. ran = Expanded(list) /\ spc' = "idle"
      BY <1>1, <1>5, <2>1, ListDone
    <3> QED
      BY <1>2, <3>1
  <2>2. CASE Len(calls) # 1
    <3>1. spc' = spc
      BY <1>5, <2>2 DEF LeaveList
    <3> QED
      BY <1>1, <1>2, <1>3, <1>5, <2>2, <3>1, AliasLeft
  <2> QED
    BY <2>1, <2>2
<1>6. CASE EnterNumbers
  BY <1>1, <1>2, <1>6, NumbersEntered DEF EnterNumbers
<1>7. CASE StartTest
  <2>1. spc' # "idle"
    BY <1>7 DEF StartTest
  <2> QED
    BY <1>1, <1>2, <1>7, <2>1, TestStarted
<1>8. CASE NotFound
  BY <1>1, <1>2, <1>8, CodecNotFound DEF NotFound
<1>9. CASE NextLevel
  <2>1. spc' # "idle"
    BY <1>9 DEF NextLevel
  <2> QED
    BY <1>1, <1>2, <1>9, <2>1, LevelEnded
<1>10. CASE NextNumber
  <2>1. spc' # "idle"
    BY <1>10 DEF NextNumber
  <2> QED
    BY <1>1, <1>2, <1>10, <2>1, NumberDone
<1> QED
  BY <1>2, <1>4, <1>5, <1>6, <1>7, <1>8, <1>9, <1>10 DEF SelectNext

(* A step of lzbench_test: it begins, cuts its input, or returns.            *)
LEMMA CodecStep ==
  ASSUME MainInv, StartCodec \/ DropCodec \/ CutCodec, NEW list, list = Asked
  PROVE  SelectInv(list)'
<1>1. IsList(list) /\ SelectInv(list) /\ spc = "test"
  BY AskedIsList
     DEF MainInv, PartsInv, TestedInv, StartCodec, DropCodec, CutCodec
<1>2. CASE StartCodec
  <2>1. cpc = "idle" /\ ran' = Append(ran, test) /\ UNCHANGED <<calls, j, test>>
        /\ spc' = "test" /\ cpc' # "idle"
    BY <1>1, <1>2 DEF StartCodec, Split, SplitStart, selectVars
  <2> QED
    BY <1>1, <2>1, TestRuns
<1>3. CASE DropCodec
  <2>1. cpc = "idle" /\ ran' = Append(ran, test) /\ UNCHANGED <<calls, j, test>>
        /\ spc' = "next"
    BY <1>3 DEF DropCodec, TestReturns
  <2> QED
    BY <1>1, <2>1, TestRuns
<1>4. CASE CutCodec
  <2>1. cpc # "idle" /\ ran' = ran /\ UNCHANGED <<calls, j, test>>
    BY <1>4 DEF CutCodec, mainVars, selectVars, TestReturns, SplitNext, NextFile, CutChunk,
       OutOfMemory, FileCut, SplitDone, SplitUsed
  <2>2. (spc' = "test" /\ cpc' # "idle") \/ spc' = "next"
    BY <1>1, <1>4 DEF CutCodec, selectVars, TestReturns, SplitNext, NextFile, CutChunk,
       OutOfMemory, FileCut, SplitDone
  <2> QED
    BY <1>1, <2>1, <2>2, TestEnds
<1> QED
  BY <1>2, <1>3, <1>4

(* The tests that have run are those the list asked for, so far.             *)
LEMMA TestedStep ==
  ASSUME MainInv, Next
  PROVE  TestedInv'
<1>0. PhaseInv /\ TestedInv /\ IsList(Asked)
  BY AskedIsList DEF MainInv, PartsInv
<1>1. CASE Select
  <2>1. Asked' = Asked /\ phase' = "selecting"
    BY <1>1, AskedStays DEF Select
  <2>2. ASSUME NEW list, list = Asked PROVE SelectInv(list)'
    BY <1>0, <1>1, <2>2, ListBegun DEF Select
  <2> QED
    BY <2>1, <2>2 DEF TestedInv
<1>2. CASE Selecting
  <2>1. Asked' = Asked /\ Expanded(Asked)' = Expanded(Asked)
    BY <1>2, AskedStays DEF Selecting
  <2>2. /\ phase' = "selecting" => spc' # "idle"
        /\ phase' = "selected" => spc' = "idle"
    BY <1>2 DEF Selecting
  <2>3. ASSUME NEW list, list = Asked, phase' = "selecting" PROVE SelectInv(list)'
    BY <1>2, <2>2, <2>3, SelectStep
  <2>4. phase' = "selected" => ran' = Expanded(Asked)
    BY <1>2, <2>2, SelectStep
  <2> QED
    BY <2>1, <2>3, <2>4 DEF TestedInv
<1>3. CASE StartCodec \/ DropCodec \/ CutCodec
  <2>1. Asked' = Asked /\ phase' = "selecting"
    BY <1>3, AskedStays DEF StartCodec, DropCodec, CutCodec, mainVars
  <2>2. ASSUME NEW list, list = Asked PROVE SelectInv(list)'
    BY <1>3, <2>2, CodecStep
  <2> QED
    BY <2>1, <2>2 DEF TestedInv
<1>4. CASE phase' \notin {"selecting", "selected"}
  BY <1>4 DEF TestedInv
<1>5. CASE Finished
  <2>1. Asked' = Asked /\ Expanded(Asked)' = Expanded(Asked)
    BY <1>5, AskedStays DEF Finished, vars
  <2>2. UNCHANGED <<selectVars, ran, cpc, phase>>
    BY <1>5 DEF Finished, vars, chunkVars, mainVars
  <2>3. ASSUME NEW list, list = Asked, phase' = "selecting" PROVE SelectInv(list)'
    BY <1>0, <2>2, <2>3, SelectSame DEF TestedInv
  <2> QED
    BY <1>0, <2>1, <2>2, <2>3 DEF TestedInv
<1>6. CASE Parse \/ Walk
  BY <1>4, <1>6 DEF Parse, Walk, mainVars
<1>7. CASE TestMemcpy
  BY <1>4, <1>7 DEF TestMemcpy
<1>8. CASE NextPart
  BY <1>4, <1>8 DEF NextPart
<1> QED
  BY <1>1, <1>2, <1>3, <1>4, <1>5, <1>6, <1>7, <1>8
     DEF Next, MainStep, StopEarly, GoOn, UseList, JoinInputs, OpenInput, SkipInput, EndMain

-------------------------------------------------------------------------------
LEMMA MainInvInit ==
  Init => MainInv
<1> SUFFICES ASSUME Init PROVE MainInv
  OBVIOUS
<1>1. OptionsInit /\ ListInit /\ SelectInit /\ ChunkingInit /\ names = <<>>
      /\ phase = "options" /\ at = 1 /\ rest = 0 /\ job = <<>>
  BY DEF Init, OptionsInit
<1>2. PartsInv
  BY <1>1, OptionsInvInit, ListInvInit, SplitInvInit DEF PartsInv
<1>3. PhaseInv
  BY <1>1 DEF SelectInit, ChunkingInit, PhaseInv
<1>4. WalkedInv /\ TestedInv
  BY <1>1 DEF ListInit, WalkedInv, TestedInv
<1> QED
  BY <1>2, <1>3, <1>4 DEF MainInv

LEMMA MainInvKept ==
  ASSUME MainInv, UNCHANGED vars
  PROVE  MainInv'
<1>0. PartsInv /\ PhaseInv /\ WalkedInv /\ TestedInv
  BY DEF MainInv
<1>1. UNCHANGED optionVars /\ UNCHANGED listVars /\ UNCHANGED chunkVars
      /\ UNCHANGED selectVars /\ UNCHANGED mainVars
  BY DEF vars
<1>2. names' = names /\ phase' = phase
  BY <1>1 DEF optionVars, mainVars
<1>3. PartsInv'
  <2>1. OptionsInv'
    BY <1>0, <1>1, OptionsInvKept DEF optionVars, PartsInv
  <2> QED
    BY <1>0, <1>1, <1>2, <2>1, ListSame, SplitSame DEF PartsInv
<1>4. PhaseInv'
  BY <1>0, <1>1 DEF optionVars, mainVars, selectVars, chunkVars, PhaseInv
<1>5. WalkedInv'
  <2>1. \A args : FoundInv(args)' <=> FoundInv(args)
    BY <1>1 DEF listVars, FoundInv, WalkInv, FoundOnce, ListFound, RestOf, OnceOf,
       FoundPaths, Separate
  <2> QED
    BY <1>0, <1>1, <1>2, <2>1 DEF listVars, WalkedInv
<1>6. TestedInv'
  <2>1. Asked' = Asked /\ Expanded(Asked)' = Expanded(Asked)
    BY <1>1, AskedStays
  <2>2. UNCHANGED <<selectVars, ran, cpc, phase>>
    BY <1>1 DEF chunkVars, mainVars
  <2>3. ASSUME NEW list, list = Asked, phase' = "selecting" PROVE SelectInv(list)'
    BY <1>0, <2>2, <2>3, SelectSame DEF TestedInv
  <2> QED
    BY <1>0, <2>1, <2>2, <2>3 DEF TestedInv
<1> QED
  BY <1>3, <1>4, <1>5, <1>6 DEF MainInv

LEMMA MainInvAlways ==
  Spec => []MainInv
<1>1. MainInv /\ [Next]_vars => MainInv'
  <2> SUFFICES ASSUME MainInv, [Next]_vars PROVE MainInv'
    OBVIOUS
  <2>1. CASE Next
    BY <2>1, PartsStep, PhaseStep, WalkedStep, TestedStep DEF MainInv
  <2>2. CASE UNCHANGED vars
    BY <2>2, MainInvKept
  <2> QED
    BY <2>1, <2>2
<1> QED
  BY <1>1, MainInvInit, PTL DEF Spec

(* main and all that it calls keep their variables within their types,       *)
(* whatever the command line, the directories and the table of codecs.       *)
THEOREM CommandLineTypes ==
  Spec => []TypeOK
<1>1. MainInv => TypeOK
  <2> SUFFICES ASSUME MainInv PROVE TypeOK
    OBVIOUS
  <2>1. OptionsInv /\ ListInv /\ SplitInv /\ names \in Seq(Path) /\ PhaseInv
    BY DEF MainInv, PartsInv
  <2>2. OptionsTypeOK
    BY <2>1 DEF OptionsInv, ParamsOK, OptionsTypeOK
  <2>3. ListTypeOK /\ ChunkingTypeOK
    BY <2>1 DEF ListInv, SplitInv
  <2>4. at \in 1 .. Len(names) + 1 \cup {Len(names) + 2}
    BY <2>1 DEF PhaseInv
  <2> QED
    BY <2>1, <2>2, <2>3, <2>4 DEF PhaseInv, TypeOK
<1> QED
  BY <1>1, MainInvAlways, PTL

(* In main too the parameters are what the letters obeyed so far mean: no    *)
(* later part of it writes them.                                             *)
THEOREM MainObeysLastWord ==
  Spec => []LastWordWins
<1>1. MainInv => LastWordWins
  BY DEF MainInv, PartsInv, OptionsInv
<1> QED
  BY <1>1, MainInvAlways, PTL

(* The walk of -r writes no name, with its terminator, beyond the end of the *)
(* buffer or over another name, when main calls it (util.h:242, 260-266).    *)
THEOREM MainNamesInBuffer ==
  Spec => []NamesInBuffer
<1>1. MainInv => NamesInBuffer
  BY DEF MainInv, PartsInv, ListInv, Adjacent, NamesInBuffer
<1> QED
  BY <1>1, MainInvAlways, PTL

(* -r finds every file under the arguments with a name shorter than a step   *)
(* of the buffer, and nothing else, once if no two arguments share a file,   *)
(* unless a call to the system fails (UTIL_createFileList).                  *)
THEOREM MainFindsFiles ==
  Spec => []ListIsFound
<1>1. MainInv => ListIsFound
  <2> SUFFICES ASSUME MainInv, phase = "list", faults = 0, lpc \in {"built", "null"}
               PROVE  ListFound(names)
    BY DEF ListIsFound, ListFound, Apart
  <2> QED
    BY DEF MainInv, WalkedInv, FoundInv
<1> QED
  BY <1>1, MainInvAlways, PTL

(* When a part of the input has been gone through, the tests that ran are    *)
(* those that the list and the aliases in it ask for, each level once and in *)
(* their order (lzbench_test_with_params).                                   *)
THEOREM MainRunsEveryLevelOnce ==
  Spec => []EveryLevelOnce
<1>1. MainInv => EveryLevelOnce
  BY DEF MainInv, TestedInv, EveryLevelOnce
<1> QED
  BY <1>1, MainInvAlways, PTL

(* The chunks of every test that main runs follow each other to the end of   *)
(* the input, and none holds bytes of two files (lzbench_test, 345-363).     *)
THEOREM MainSplitCovers ==
  Spec => []SplitCovers
<1>1. MainInv => SplitCovers
  BY DEF MainInv, PartsInv, SplitInv, Progress, Increasing, CutAtEnds, SplitCovers
<1> QED
  BY <1>1, MainInvAlways, PTL
===============================================================================
