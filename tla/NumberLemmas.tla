------------------------------ MODULE NumberLemmas -----------------------------
(***************************************************************************)
(* Facts about numbers that the proofs share: the division of              *)
(* GET_COMPRESS_BOUND, sums such as the position after a read, indices of  *)
(* rings, and induction, for sums, joined lists and texts.                 *)
(***************************************************************************)
EXTENDS Integers, Totals, WellFoundedInduction, TLAPS

(* Division as the code uses it, on natural numbers. *)
LEMMA DivNat ==
  ASSUME NEW a \in Nat, NEW d \in Nat \ {0}
  PROVE  a \div d \in Nat
OBVIOUS

LEMMA DivMonotone ==
  ASSUME NEW a \in Nat, NEW b \in Nat, NEW d \in Nat \ {0}, a <= b
  PROVE  a \div d <= b \div d
<1>1. PICK q \in Nat : q = a \div d
  BY DivNat
<1>2. PICK r \in Nat : r = b \div d
  BY DivNat
<1>3. d * q <= a
  BY <1>1
<1>4. b < d * (r + 1)
  BY <1>2
<1>5. SUFFICES ASSUME r + 1 <= q PROVE FALSE
  BY <1>1, <1>2
<1>6. d * (r + 1) <= d * q
  BY <1>5
<1> QED
  BY <1>3, <1>4, <1>6

(* A sum of natural numbers is one, and gives back what it was made from.    *)
LEMMA SumNat ==
  ASSUME NEW a \in Nat, NEW b \in Nat, NEW c, c = a + b
  PROVE  c \in Nat /\ b <= c /\ c - b = a
OBVIOUS

LEMMA Excess ==
  ASSUME NEW a \in Nat, NEW b \in Nat, a > b
  PROVE  a - b \in Nat \ {0}
OBVIOUS

-------------------------------------------------------------------------------
(* Indices of a ring of n slots: one step round at most, in either          *)
(* direction.                                                               *)
LEMMA ModSum ==
  ASSUME NEW n \in Nat \ {0}, NEW a \in 0 .. 2 * n - 1
  PROVE  a % n = IF a < n THEN a ELSE a - n
OBVIOUS

LEMMA ModDifference ==
  ASSUME NEW n \in Nat \ {0}, NEW a \in 0 .. n - 1, NEW b \in 0 .. n - 1
  PROVE  (a - b) % n = IF a >= b THEN a - b ELSE a - b + n
OBVIOUS

LEMMA ModPlus ==
  ASSUME NEW n \in Nat \ {0}, NEW a \in 0 .. n - 1, NEW b \in 0 .. n
  PROVE  (a + b) % n = IF a + b < n THEN a + b ELSE a + b - n
OBVIOUS

(* In a ring of n slots, how far y is from x, and the slot m after x.       *)
Distance(n, x, y) == (y - x) % n
Onward(n, x, m) == (x + m) % n

LEMMA RingRange ==
  ASSUME NEW n \in Nat \ {0}, NEW x \in 0 .. n - 1, NEW y \in 0 .. n - 1
  PROVE  Distance(n, x, y) \in 0 .. n - 1 /\ (Distance(n, x, y) = 0 <=> x = y)
BY ModDifference DEF Distance

LEMMA RingSelf ==
  ASSUME NEW n \in Nat \ {0}, NEW x \in 0 .. n - 1
  PROVE  Distance(n, x, x) = 0
BY DEF Distance

(* Seen from p, the slot k after x.                                         *)
LEMMA RingSlot ==
  ASSUME NEW n \in Nat \ {0}, NEW x \in 0 .. n - 1, NEW p \in 0 .. n - 1,
         NEW k \in 0 .. n - 1
  PROVE  /\ Onward(n, x, k) \in 0 .. n - 1
         /\ Distance(n, p, Onward(n, x, k))
              = IF k < Distance(n, x, p) THEN n - Distance(n, x, p) + k
                                         ELSE k - Distance(n, x, p)
<1> USE DEF Distance, Onward
<1>1. k \in 0 .. n
  OBVIOUS
<1>2. (x + k) % n = IF x + k < n THEN x + k ELSE x + k - n
  BY <1>1, ModPlus
<1>3. (x + k) % n \in 0 .. n - 1
  BY <1>2
<1>4. (p - x) % n = IF p >= x THEN p - x ELSE p - x + n
  BY ModDifference
<1>5. (((x + k) % n) - p) % n
        = IF (x + k) % n >= p THEN ((x + k) % n) - p ELSE (((x + k) % n) - p) + n
  BY <1>3, ModDifference
<1> QED
  BY <1>2, <1>3, <1>4, <1>5

(* The distance to p, with m more slots.                                    *)
LEMMA RingLonger ==
  ASSUME NEW n \in Nat \ {0}, NEW x \in 0 .. n - 1, NEW p \in 0 .. n - 1,
         NEW m \in Nat, Distance(n, x, p) + m < n
  PROVE  /\ Onward(n, p, m) \in 0 .. n - 1
         /\ Distance(n, x, Onward(n, p, m)) = Distance(n, x, p) + m
<1> USE DEF Distance, Onward
<1>1. (p - x) % n = IF p >= x THEN p - x ELSE p - x + n
  BY ModDifference
<1>2. m \in 0 .. n
  BY <1>1
<1>3. (p + m) % n = IF p + m < n THEN p + m ELSE p + m - n
  BY <1>2, ModPlus
<1>4. (p + m) % n \in 0 .. n - 1
  BY <1>2, <1>3
<1>5. (((p + m) % n) - x) % n
        = IF (p + m) % n >= x THEN ((p + m) % n) - x ELSE (((p + m) % n) - x) + n
  BY <1>4, ModDifference
<1> QED
  BY <1>1, <1>3, <1>4, <1>5

LEMMA RingReach ==
  ASSUME NEW n \in Nat \ {0}, NEW x \in 0 .. n - 1, NEW p \in 0 .. n - 1
  PROVE  Onward(n, x, Distance(n, x, p)) = p /\ Onward(n, x, 0) = x
<1> USE DEF Distance, Onward
<1>1. (p - x) % n = IF p >= x THEN p - x ELSE p - x + n
  BY ModDifference
<1>2. (p - x) % n \in 0 .. n /\ 0 \in 0 .. n
  BY <1>1
<1>3. (x + ((p - x) % n)) % n
        = IF x + ((p - x) % n) < n THEN x + ((p - x) % n) ELSE x + ((p - x) % n) - n
  BY <1>2, ModPlus
<1>4. (x + 0) % n = x
  BY <1>2, ModPlus
<1> QED
  BY <1>1, <1>3, <1>4

(* The distance from the slot m after x.                                    *)
LEMMA RingShorter ==
  ASSUME NEW n \in Nat \ {0}, NEW x \in 0 .. n - 1, NEW p \in 0 .. n - 1,
         NEW m \in 0 .. Distance(n, x, p)
  PROVE  /\ Onward(n, x, m) \in 0 .. n - 1
         /\ Distance(n, Onward(n, x, m), p) = Distance(n, x, p) - m
         /\ \A k \in 0 .. Distance(n, x, p) - m :
              Onward(n, Onward(n, x, m), k) = Onward(n, x, m + k)
<1> USE DEF Distance, Onward
<1>1. (p - x) % n = IF p >= x THEN p - x ELSE p - x + n
  BY ModDifference
<1>2. m \in 0 .. n
  BY <1>1
<1>3. (x + m) % n = IF x + m < n THEN x + m ELSE x + m - n
  BY <1>2, ModPlus
<1>4. (x + m) % n \in 0 .. n - 1
  BY <1>2, <1>3
<1>5. (p - ((x + m) % n)) % n
        = IF p >= (x + m) % n THEN p - ((x + m) % n) ELSE p - ((x + m) % n) + n
  BY <1>4, ModDifference
<1>6. ASSUME NEW k \in 0 .. ((p - x) % n) - m
      PROVE  (((x + m) % n) + k) % n = (x + (m + k)) % n
  <2>1. k \in 0 .. n /\ m + k \in 0 .. n
    BY <1>1, <1>4
  <2>2. /\ (((x + m) % n) + k) % n
             = IF ((x + m) % n) + k < n THEN ((x + m) % n) + k ELSE ((x + m) % n) + k - n
        /\ (x + (m + k)) % n = IF x + (m + k) < n THEN x + (m + k) ELSE x + (m + k) - n
    BY <2>1, <1>4, ModPlus
  <2> QED
    BY <2>1, <2>2, <1>1, <1>3
<1>7. (p - ((x + m) % n)) % n = ((p - x) % n) - m
  BY <1>1, <1>3, <1>4, <1>5
<1> QED
  BY <1>4, <1>6, <1>7

(* From a slot y between x and z.                                           *)
LEMMA RingBetween ==
  ASSUME NEW n \in Nat \ {0}, NEW x \in 0 .. n - 1, NEW y \in 0 .. n - 1,
         NEW z \in 0 .. n - 1, Distance(n, x, y) <= Distance(n, x, z)
  PROVE  Distance(n, y, z) = Distance(n, x, z) - Distance(n, x, y)
<1> USE DEF Distance
<1>1. (z - y) % n = IF z >= y THEN z - y ELSE z - y + n
  BY ModDifference
<1>2. (z - x) % n = IF z >= x THEN z - x ELSE z - x + n
  BY ModDifference
<1>3. (y - x) % n = IF y >= x THEN y - x ELSE y - x + n
  BY ModDifference
<1> QED
  BY <1>1, <1>2, <1>3

(* Room in a ring of two halves: where the next n slots touch the beginning *)
(* of a half, at least half of the ring is free with them; elsewhere there  *)
(* is room up to the end of the half.                                       *)
LEMMA RoomAfter ==
  ASSUME NEW h \in Nat \ {0}, NEW p \in 0 .. 2 * h - 1, NEW r \in 0 .. 2 * h - 1,
         NEW n \in 1 .. h,
         p % h # 0 => Distance(2 * h, r, p) < h + (p % h),
         (p + n - 1) % h < n => Distance(2 * h, r, p) <= h - n
  PROVE  LET q == Onward(2 * h, p, n)
         IN /\ Distance(2 * h, r, p) + n < 2 * h /\ q # p
            /\ q % h # 0 => Distance(2 * h, r, p) + n < h + (q % h)
<1> DEFINE q == (p + n) % (2 * h)
<1> USE DEF Distance, Onward
<1>1. p % h = IF p < h THEN p ELSE p - h
  BY ModSum
<1>2. (p + n - 1) % h = IF p + n - 1 < h THEN p + n - 1
                        ELSE IF p + n - 1 < 2 * h THEN p + n - 1 - h
                        ELSE p + n - 1 - 2 * h
  OBVIOUS
<1>3. q = IF p + n < 2 * h THEN p + n ELSE p + n - 2 * h
  <2>1. 2 * h \in Nat \ {0} /\ p \in 0 .. 2 * h - 1 /\ n \in 0 .. 2 * h
    OBVIOUS
  <2> QED
    BY <2>1, ModPlus
<1>4. q \in 0 .. 2 * h - 1 /\ q # p
  BY <1>3
<1> HIDE DEF q
<1>5. q % h = IF q < h THEN q ELSE q - h
  BY <1>4, ModSum
<1>6. (p - r) % (2 * h) = IF p >= r THEN p - r ELSE p - r + 2 * h
  <2>1. 2 * h \in Nat \ {0}
    OBVIOUS
  <2> QED
    BY <2>1, ModDifference
<1>7. ((p - r) % (2 * h)) + n < 2 * h
  BY <1>1, <1>2, <1>6
<1>8. q % h # 0 => ((p - r) % (2 * h)) + n < h + (q % h)
  BY <1>1, <1>2, <1>3, <1>5, <1>6
<1> QED
  BY <1>4, <1>7, <1>8 DEF q

-------------------------------------------------------------------------------
(* Every set of natural numbers has a least element ...                     *)
LEMMA LeastNat ==
  ASSUME NEW S \in SUBSET Nat, S # {}
  PROVE  \E m \in S : \A k \in S : m <= k
<1>1. PICK m \in S : \A k \in S : <<k, m>> \notin OpToRel(<, Nat)
  BY NatLessThanWellFounded, WFMin
<1>2. ASSUME NEW k \in S, k < m PROVE FALSE
  <2>1. <<k, m>> \in OpToRel(<, Nat)
    BY <1>2 DEF OpToRel
  <2> QED
    BY <2>1, <1>1
<1> QED
  BY <1>2

(* ... and so a set with 0 and the successor of each of its elements has    *)
(* them all.                                                                *)
LEMMA NatSet ==
  ASSUME NEW S, 0 \in S, \A n \in Nat : n \in S => n + 1 \in S
  PROVE  Nat \subseteq S
<1> SUFFICES ASSUME Nat \ S # {} PROVE FALSE
  OBVIOUS
<1>1. PICK m \in Nat \ S : \A k \in Nat \ S : m <= k
  BY LeastNat
<1>2. m # 0 /\ m - 1 \in Nat
  BY <1>1
<1>3. m - 1 \in S
  BY <1>1, <1>2
<1> QED
  BY <1>1, <1>2, <1>3

-------------------------------------------------------------------------------
(* What the loop adds up is defined for every table of numbers, and each     *)
(* turn adds one.                                                            *)
IsTotal(s, n, g) ==
  /\ g \in [0 .. n -> Nat]
  /\ \A k \in 0 .. n : g[k] = IF k = 0 THEN 0 ELSE g[k - 1] + s[k]

LEMMA TotalExists ==
  ASSUME NEW s, NEW n \in Nat, \A k \in 1 .. n : s[k] \in Nat
  PROVE  \E g : IsTotal(s, n, g)
<1> DEFINE S == {m \in Nat : m <= n => \E g : IsTotal(s, m, g)}
<1>1. 0 \in S
  <2>1. PICK g : g = [k \in 0 .. 0 |-> 0]
    OBVIOUS
  <2>2. g \in [0 .. 0 -> Nat] /\ \A k \in 0 .. 0 : k = 0 /\ g[k] = 0
    BY <2>1
  <2>3. IsTotal(s, 0, g)
    BY <2>2 DEF IsTotal
  <2> QED
    BY <2>3
<1>2. ASSUME NEW m \in Nat, m \in S PROVE m + 1 \in S
  <2>1. SUFFICES ASSUME m + 1 <= n PROVE \E g : IsTotal(s, m + 1, g)
    OBVIOUS
  <2>2. PICK g : IsTotal(s, m, g)
    BY <1>2, <2>1
  <2> DEFINE h == [k \in 0 .. m + 1 |-> IF k = m + 1 THEN g[m] + s[m + 1] ELSE g[k]]
  <2>3. g[m] \in Nat /\ s[m + 1] \in Nat
    BY <2>1, <2>2 DEF IsTotal
  <2>4. h \in [0 .. m + 1 -> Nat]
    BY <2>2, <2>3 DEF IsTotal
  <2>5. h[m + 1] = g[m] + s[m + 1] /\ \A k \in 0 .. m : h[k] = g[k]
    OBVIOUS
  <2> HIDE DEF h
  <2>6. \A k \in 0 .. m + 1 : h[k] = IF k = 0 THEN 0 ELSE h[k - 1] + s[k]
    <3>1. ASSUME NEW k \in 0 .. m
          PROVE  h[k] = IF k = 0 THEN 0 ELSE h[k - 1] + s[k]
      <4>1. g[k] = IF k = 0 THEN 0 ELSE g[k - 1] + s[k]
        BY <2>2 DEF IsTotal
      <4> QED
        BY <4>1, <2>5
    <3> QED
      BY <3>1, <2>5
  <2>7. IsTotal(s, m + 1, h)
    BY <2>4, <2>6 DEF IsTotal
  <2> QED
    BY <2>7
<1> HIDE DEF S
<1>3. n \in S
  BY <1>1, <1>2, NatSet
<1> QED
  BY <1>3 DEF S

LEMMA TotalAfterIs ==
  ASSUME NEW s, NEW n \in Nat, \A k \in 1 .. n : s[k] \in Nat
  PROVE  IsTotal(s, n, TotalAfter(s, n))
<1> DEFINE P(g) == g = [k \in 0 .. n |-> IF k = 0 THEN 0 ELSE g[k - 1] + s[k]]
<1>1. PICK g : IsTotal(s, n, g)
  BY TotalExists
<1>2. P(g)
  BY <1>1 DEF IsTotal
<1>3. P(CHOOSE f : P(f))
  BY <1>2
<1>4. TotalAfter(s, n) = CHOOSE f : P(f)
  BY DEF TotalAfter
<1> HIDE DEF P
<1>5. PICK c : c = TotalAfter(s, n)
  OBVIOUS
<1>6. P(c)
  BY <1>3, <1>4, <1>5
<1>7. /\ DOMAIN c = 0 .. n
      /\ \A k \in 0 .. n : c[k] = IF k = 0 THEN 0 ELSE c[k - 1] + s[k]
      /\ c = [k \in 0 .. n |-> c[k]]
  BY <1>6 DEF P
<1> DEFINE S == {k \in Nat : k <= n => c[k] \in Nat}
<1>8. 0 \in S
  <2>1. 0 \in 0 .. n
    OBVIOUS
  <2>2. c[0] = 0
    BY <1>7, <2>1
  <2> QED
    BY <2>2
<1>9. ASSUME NEW k \in Nat, k \in S PROVE k + 1 \in S
  <2>1. SUFFICES ASSUME k + 1 <= n PROVE c[k + 1] \in Nat
    OBVIOUS
  <2>2. k + 1 \in 0 .. n /\ k + 1 \in 1 .. n /\ k + 1 # 0 /\ k + 1 - 1 = k
    BY <2>1
  <2>3. c[k + 1] = c[k] + s[k + 1]
    <3>1. PICK j \in 0 .. n : j = k + 1
      BY <2>2
    <3>2. j # 0 /\ j - 1 = k
      BY <3>1
    <3>3. c[j] = IF j = 0 THEN 0 ELSE c[j - 1] + s[j]
      BY <1>7
    <3>4. c[j] = c[j - 1] + s[j]
      BY <3>2, <3>3
    <3> QED
      BY <3>1, <3>2, <3>4
  <2>4. c[k] \in Nat /\ s[k + 1] \in Nat
    BY <1>9, <2>1, <2>2
  <2> QED
    BY <2>3, <2>4
<1>10. Nat \subseteq S
  <2> HIDE DEF S
  <2> QED
    BY <1>8, <1>9, NatSet
<1>11. \A k \in 0 .. n : c[k] \in Nat
  BY <1>10
<1> QED
  BY <1>5, <1>7, <1>11 DEF IsTotal

LEMMA TotalsAgree ==
  ASSUME NEW s, NEW t, NEW n \in Nat, NEW g, NEW h, NEW m \in Nat, m <= n,
         IsTotal(s, m, g), IsTotal(t, n, h), \A k \in 1 .. m : s[k] = t[k]
  PROVE  g[m] = h[m]
<1> DEFINE S == {k \in Nat : k <= m => g[k] = h[k]}
<1>1. 0 \in S
  <2>1. 0 \in 0 .. m /\ 0 \in 0 .. n
    OBVIOUS
  <2> QED
    BY <2>1 DEF IsTotal
<1>2. ASSUME NEW k \in Nat, k \in S PROVE k + 1 \in S
  <2>1. SUFFICES ASSUME k + 1 <= m PROVE g[k + 1] = h[k + 1]
    OBVIOUS
  <2>2. k + 1 \in 0 .. m /\ k + 1 \in 0 .. n /\ k + 1 \in 1 .. m /\ k + 1 - 1 = k
    BY <2>1
  <2>3. g[k] = h[k]
    BY <1>2, <2>1
  <2> QED
    BY <2>2, <2>3 DEF IsTotal
<1> HIDE DEF S
<1>3. m \in S
  BY <1>1, <1>2, NatSet
<1> QED
  BY <1>3 DEF S

LEMMA SumToNext ==
  ASSUME NEW s, NEW n \in Nat, \A k \in 1 .. n : s[k] \in Nat
  PROVE  /\ SumTo(s, n) \in Nat
         /\ SumTo(s, 0) = 0
         /\ n > 0 => SumTo(s, n) = SumTo(s, n - 1) + s[n]
<1>1. IsTotal(s, n, TotalAfter(s, n)) /\ IsTotal(s, 0, TotalAfter(s, 0))
  BY TotalAfterIs
<1>2. ASSUME n > 0 PROVE SumTo(s, n) = SumTo(s, n - 1) + s[n]
  <2>1. n - 1 \in Nat /\ n - 1 <= n /\ n \in 0 .. n
    BY <1>2
  <2>2. PICK m \in Nat : m = n - 1
    BY <2>1
  <2>3. IsTotal(s, m, TotalAfter(s, m))
    <3>1. \A k \in 1 .. m : s[k] \in Nat
      BY <2>2
    <3> QED
      BY <3>1, TotalAfterIs
  <2>4. TotalAfter(s, m)[m] = TotalAfter(s, n)[m]
    BY <2>1, <2>2, <2>3, <1>1, TotalsAgree
  <2>5. TotalAfter(s, n)[n] = TotalAfter(s, n)[n - 1] + s[n]
    BY <1>1, <1>2, <2>1 DEF IsTotal
  <2> QED
    BY <2>2, <2>4, <2>5 DEF SumTo
<1> QED
  BY <1>1, <1>2 DEF IsTotal, SumTo

LEMMA SumToSame ==
  ASSUME NEW s, NEW t, NEW n \in Nat, \A k \in 1 .. n : s[k] \in Nat /\ t[k] = s[k]
  PROVE  SumTo(t, n) = SumTo(s, n)
<1>1. IsTotal(s, n, TotalAfter(s, n)) /\ IsTotal(t, n, TotalAfter(t, n))
  BY TotalAfterIs
<1> QED
  BY <1>1, TotalsAgree DEF SumTo

(* A longer piece of the table has the larger total.                        *)
LEMMA SumToMonotone ==
  ASSUME NEW s, NEW n \in Nat, \A k \in 1 .. n : s[k] \in Nat, NEW m \in 0 .. n
  PROVE  SumTo(s, m) <= SumTo(s, n)
<1> DEFINE S == {k \in Nat : m + k <= n => SumTo(s, m) <= SumTo(s, m + k)}
<1>1. 0 \in S
  <2>1. SumTo(s, m) \in Nat /\ m + 0 = m
    BY SumToNext
  <2> QED
    BY <2>1
<1>2. ASSUME NEW k \in Nat, k \in S PROVE k + 1 \in S
  <2>1. SUFFICES ASSUME m + (k + 1) <= n PROVE SumTo(s, m) <= SumTo(s, m + (k + 1))
    OBVIOUS
  <2>2. PICK q \in Nat : q = m + (k + 1)
    OBVIOUS
  <2>3. /\ q > 0 /\ q - 1 = m + k /\ q - 1 \in Nat /\ s[q] \in Nat
        /\ \A j \in 1 .. q : s[j] \in Nat
        /\ \A j \in 1 .. q - 1 : s[j] \in Nat
        /\ \A j \in 1 .. m : s[j] \in Nat
    BY <2>1, <2>2
  <2>4. SumTo(s, q) = SumTo(s, q - 1) + s[q]
    BY <2>3, SumToNext
  <2>5. SumTo(s, q - 1) \in Nat /\ SumTo(s, m) \in Nat
    BY <2>3, SumToNext
  <2>6. SumTo(s, m) <= SumTo(s, q - 1)
    BY <1>2, <2>1, <2>3
  <2> QED
    BY <2>2, <2>3, <2>4, <2>5, <2>6
<1> HIDE DEF S
<1>3. n - m \in S
  BY <1>1, <1>2, NatSet
<1> QED
  BY <1>3 DEF S

-------------------------------------------------------------------------------
(* Lists are joined as sums are made, one after the other.                   *)
IsJoined(s, parts, n, T, g) ==
  /\ g \in [0 .. n -> Seq(T)]
  /\ \A k \in 0 .. n : g[k] = IF k = 0 THEN <<>> ELSE g[k - 1] \o parts[s[k]]

LEMMA JoinedExists ==
  ASSUME NEW s, NEW parts, NEW T, NEW n \in Nat, \A k \in 1 .. n : parts[s[k]] \in Seq(T)
  PROVE  \E g : IsJoined(s, parts, n, T, g)
<1> DEFINE S == {m \in Nat : m <= n => \E g : IsJoined(s, parts, m, T, g)}
<1>1. 0 \in S
  <2>1. PICK g : g = [k \in 0 .. 0 |-> <<>>]
    OBVIOUS
  <2>2. g \in [0 .. 0 -> Seq(T)] /\ \A k \in 0 .. 0 : k = 0 /\ g[k] = <<>>
    BY <2>1
  <2>3. IsJoined(s, parts, 0, T, g)
    BY <2>2 DEF IsJoined
  <2> QED
    BY <2>3
<1>2. ASSUME NEW m \in Nat, m \in S PROVE m + 1 \in S
  <2>1. SUFFICES ASSUME m + 1 <= n PROVE \E g : IsJoined(s, parts, m + 1, T, g)
    OBVIOUS
  <2>2. PICK g : IsJoined(s, parts, m, T, g)
    BY <1>2, <2>1
  <2> DEFINE next == g[m] \o parts[s[m + 1]]
             h == [k \in 0 .. m + 1 |-> IF k = m + 1 THEN next ELSE g[k]]
  <2>3. next \in Seq(T)
    <3>1. g[m] \in Seq(T)
      BY <2>2 DEF IsJoined
    <3>2. parts[s[m + 1]] \in Seq(T)
      BY <2>1
    <3> QED
      BY <3>1, <3>2
  <2>4. h \in [0 .. m + 1 -> Seq(T)]
    <3> HIDE DEF next
    <3> QED
      BY <2>2, <2>3 DEF IsJoined
  <2>5. h[m + 1] = g[m] \o parts[s[m + 1]] /\ \A k \in 0 .. m : h[k] = g[k]
    <3>1. PICK v : v = g[m] \o parts[s[m + 1]]
      OBVIOUS
    <3>2. h = [k \in 0 .. m + 1 |-> IF k = m + 1 THEN v ELSE g[k]]
      BY <3>1
    <3> HIDE DEF h, next
    <3>3. PICK j : j = m + 1
      OBVIOUS
    <3>4. h = [k \in 0 .. j |-> IF k = j THEN v ELSE g[k]] /\ j \in 0 .. j
      BY <3>2, <3>3
    <3>5. h[j] = v
      BY <3>4
    <3>6. ASSUME NEW k \in 0 .. m PROVE h[k] = g[k]
      <4>1. k \in 0 .. j /\ k # j
        BY <3>3
      <4> QED
        BY <3>4, <4>1
    <3> QED
      BY <3>1, <3>3, <3>5, <3>6
  <2> HIDE DEF h, next
  <2>6. \A k \in 0 .. m + 1 : h[k] = IF k = 0 THEN <<>> ELSE h[k - 1] \o parts[s[k]]
    <3>1. ASSUME NEW k \in 0 .. m
          PROVE  h[k] = IF k = 0 THEN <<>> ELSE h[k - 1] \o parts[s[k]]
      <4>1. g[k] = IF k = 0 THEN <<>> ELSE g[k - 1] \o parts[s[k]]
        BY <2>2 DEF IsJoined
      <4>2. h[k] = g[k] /\ (k # 0 => h[k - 1] = g[k - 1])
        BY <2>5
      <4> QED
        BY <4>1, <4>2
    <3>2. ASSUME NEW k, k = m + 1
          PROVE  h[k] = IF k = 0 THEN <<>> ELSE h[k - 1] \o parts[s[k]]
      <4>1. k # 0 /\ k - 1 = m /\ h[m] = g[m]
        BY <2>5, <3>2
      <4> QED
        BY <2>5, <3>2, <4>1
    <3>3. ASSUME NEW k \in 0 .. m + 1 PROVE k \in 0 .. m \/ k = m + 1
      OBVIOUS
    <3> QED
      BY <3>1, <3>2, <3>3
  <2>7. IsJoined(s, parts, m + 1, T, h)
    BY <2>4, <2>6 DEF IsJoined
  <2> QED
    BY <2>7
<1> HIDE DEF S
<1>3. n \in S
  BY <1>1, <1>2, NatSet
<1> QED
  BY <1>3 DEF S

LEMMA JoinedAfterIs ==
  ASSUME NEW s, NEW parts, NEW T, NEW n \in Nat, \A k \in 1 .. n : parts[s[k]] \in Seq(T)
  PROVE  IsJoined(s, parts, n, T, JoinedAfter(s, parts, n))
<1> DEFINE P(g) == g = [k \in 0 .. n |-> IF k = 0 THEN <<>> ELSE g[k - 1] \o parts[s[k]]]
<1>1. PICK g : IsJoined(s, parts, n, T, g)
  BY JoinedExists
<1>2. P(g)
  BY <1>1 DEF IsJoined
<1>3. P(CHOOSE f : P(f))
  BY <1>2
<1>4. JoinedAfter(s, parts, n) = CHOOSE f : P(f)
  BY DEF JoinedAfter
<1> HIDE DEF P
<1>5. PICK c : c = JoinedAfter(s, parts, n)
  OBVIOUS
<1>6. P(c)
  BY <1>3, <1>4, <1>5
<1>7. /\ DOMAIN c = 0 .. n
      /\ \A k \in 0 .. n : c[k] = IF k = 0 THEN <<>> ELSE c[k - 1] \o parts[s[k]]
      /\ c = [k \in 0 .. n |-> c[k]]
  BY <1>6 DEF P
<1> DEFINE S == {k \in Nat : k <= n => c[k] \in Seq(T)}
<1>8. 0 \in S
  <2>1. 0 \in 0 .. n
    OBVIOUS
  <2>2. c[0] = <<>>
    BY <1>7, <2>1
  <2>3. c[0] \in Seq(T)
    BY <2>2
  <2> QED
    BY <2>3
<1>9. ASSUME NEW k \in Nat, k \in S PROVE k + 1 \in S
  <2>1. SUFFICES ASSUME k + 1 <= n PROVE c[k + 1] \in Seq(T)
    OBVIOUS
  <2>2. PICK j \in 0 .. n : j = k + 1
    BY <2>1
  <2>3. j # 0 /\ j - 1 = k /\ j \in 1 .. n
    BY <2>2
  <2>4. c[j] = c[j - 1] \o parts[s[j]]
    BY <1>7, <2>3
  <2>5. c[k] \in Seq(T) /\ parts[s[j]] \in Seq(T)
    BY <1>9, <2>1, <2>3
  <2>6. c[k] \o parts[s[j]] \in Seq(T)
    BY <2>5
  <2> QED
    BY <2>2, <2>3, <2>4, <2>6
<1>10. Nat \subseteq S
  <2> HIDE DEF S
  <2> QED
    BY <1>8, <1>9, NatSet
<1>11. \A k \in 0 .. n : c[k] \in Seq(T)
  BY <1>10
<1> QED
  BY <1>5, <1>7, <1>11 DEF IsJoined

LEMMA JoinsAgree ==
  ASSUME NEW s, NEW parts, NEW T, NEW n \in Nat, NEW g, NEW h, NEW m \in Nat, m <= n,
         IsJoined(s, parts, m, T, g), IsJoined(s, parts, n, T, h)
  PROVE  g[m] = h[m]
<1> DEFINE S == {k \in Nat : k <= m => g[k] = h[k]}
<1>1. 0 \in S
  <2>1. 0 \in 0 .. m /\ 0 \in 0 .. n
    OBVIOUS
  <2> QED
    BY <2>1 DEF IsJoined
<1>2. ASSUME NEW k \in Nat, k \in S PROVE k + 1 \in S
  <2>1. SUFFICES ASSUME k + 1 <= m PROVE g[k + 1] = h[k + 1]
    OBVIOUS
  <2>2. PICK j : j = k + 1
    OBVIOUS
  <2>3. j \in 0 .. m /\ j \in 0 .. n /\ j # 0 /\ j - 1 = k
    BY <2>1, <2>2
  <2>4. g[k] = h[k]
    BY <1>2, <2>1
  <2>5. g[j] = h[j]
    BY <2>3, <2>4 DEF IsJoined
  <2> QED
    BY <2>2, <2>5
<1> HIDE DEF S
<1>3. m \in S
  BY <1>1, <1>2, NatSet
<1> QED
  BY <1>3 DEF S

LEMMA JoinedToNext ==
  ASSUME NEW s, NEW parts, NEW T, NEW n \in Nat, \A k \in 1 .. n : parts[s[k]] \in Seq(T)
  PROVE  /\ JoinedTo(s, parts, n) \in Seq(T)
         /\ JoinedTo(s, parts, 0) = <<>>
         /\ n > 0 => JoinedTo(s, parts, n) = JoinedTo(s, parts, n - 1) \o parts[s[n]]
<1>1. /\ IsJoined(s, parts, n, T, JoinedAfter(s, parts, n))
      /\ IsJoined(s, parts, 0, T, JoinedAfter(s, parts, 0))
  BY JoinedAfterIs
<1>2. ASSUME n > 0 PROVE JoinedTo(s, parts, n) = JoinedTo(s, parts, n - 1) \o parts[s[n]]
  <2>1. PICK m \in Nat : m = n - 1
    BY <1>2
  <2>2. m <= n /\ n \in 0 .. n
    BY <2>1
  <2>3. IsJoined(s, parts, m, T, JoinedAfter(s, parts, m))
    <3>1. \A k \in 1 .. m : parts[s[k]] \in Seq(T)
      BY <2>1
    <3> QED
      BY <3>1, JoinedAfterIs
  <2>4. JoinedAfter(s, parts, m)[m] = JoinedAfter(s, parts, n)[m]
    BY <2>2, <2>3, <1>1, JoinsAgree
  <2>5. JoinedAfter(s, parts, n)[n] = JoinedAfter(s, parts, n)[n - 1] \o parts[s[n]]
    <3>1. PICK g : g = JoinedAfter(s, parts, n)
      OBVIOUS
    <3>2. IsJoined(s, parts, n, T, g) /\ n # 0
      BY <1>1, <1>2, <3>1
    <3>3. g[n] = g[n - 1] \o parts[s[n]]
      BY <2>2, <3>2 DEF IsJoined
    <3> QED
      BY <3>1, <3>3
  <2> QED
    BY <2>1, <2>4, <2>5 DEF JoinedTo
<1>3. 0 \in 0 .. 0 /\ n \in 0 .. n
  OBVIOUS
<1> QED
  BY <1>1, <1>2, <1>3 DEF IsJoined, JoinedTo
===============================================================================
