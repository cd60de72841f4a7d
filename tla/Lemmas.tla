-------------------------------- MODULE Lemmas --------------------------------
(***************************************************************************)
(* Lemmas that several proofs need: least and greatest elements, sequences *)
(* with an element taken out, sums, and remainders.                        *)
(*                                                                         *)
(* A sum of a finite table of naturals is characterised without recursion: *)
(* s is the sum of f over 1..n when some table of partial sums leads from  *)
(* 0 to s.  This is enough to prove what an update of one entry does, and  *)
(* it is the total that Totals computes.                                   *)
(***************************************************************************)
EXTENDS Totals, Sequences, WellFoundedInduction, FiniteSetTheorems, TLAPS

(* Least and greatest elements.  A nonempty set of naturals has a least    *)
(* element, a nonempty set of naturals up to n a greatest: the step of an  *)
(* induction.                                                              *)
LEMMA LeastNat ==
  ASSUME NEW T \in SUBSET Nat, T # {}
  PROVE  \E m \in T : \A k \in T : m <= k
<1>1. PICK m \in T : \A y \in Nat : <<y, m>> \in OpToRel(<, Nat) => ~(y \in T)
  BY NatLessThanWellFounded, WFMin
<1>2. \A k \in T : ~(k < m)
  BY <1>1 DEF OpToRel
<1> QED BY <1>2

LEMMA GreatestNat ==
  ASSUME NEW n \in Nat, NEW T \in SUBSET (0..n), T # {}
  PROVE  \E m \in T : \A k \in T : k <= m
<1> DEFINE U == {n - k : k \in T}
<1>1. U \in SUBSET Nat /\ U # {}
  <2>1. \A k \in T : n - k \in Nat
    OBVIOUS
  <2> QED BY <2>1
<1>2. PICK u \in U : \A v \in U : u <= v
  <2> HIDE DEF U
  <2> QED BY <1>1, LeastNat
<1>3. PICK m \in T : u = n - m
  OBVIOUS
<1>4. ASSUME NEW k \in T PROVE k <= m
  <2>1. n - m <= n - k
    BY <1>2, <1>3
  <2> QED BY <2>1
<1> QED BY <1>4

(* A finite nonempty set of integers has a greatest element and a least:   *)
(* the one with the fewest beyond it.                                      *)
LEMMA FewestAbove ==
  ASSUME NEW S \in SUBSET Int, IsFiniteSet(S), S # {},
         NEW B, \A x \in S : B[x] \in SUBSET S,
         \A x, y \in S : y \in B[x] => /\ B[y] \subseteq B[x]
                                      /\ y \notin B[y]
  PROVE  \E m \in S : B[m] = {}
<1>. DEFINE T == {Cardinality(B[x]) : x \in S}
<1>1. \A x \in S : IsFiniteSet(B[x]) /\ Cardinality(B[x]) \in Nat
  BY FS_Subset, FS_CardinalityType
<1>2. T \in SUBSET Nat /\ T # {}
  <2>1. PICK x : x \in S
    OBVIOUS
  <2>2. Cardinality(B[x]) \in T
    BY <2>1
  <2>. QED  BY <1>1, <2>2
<1>3. PICK k \in T : \A j \in T : k <= j
  <2>. HIDE DEF T
  <2>. QED  BY <1>2, LeastNat
<1>4. PICK m \in S : k = Cardinality(B[m])
  OBVIOUS
<1>5. ASSUME NEW y \in B[m] PROVE FALSE
  <2>1. y \in S /\ B[y] \subseteq B[m] /\ B[y] # B[m]
    OBVIOUS
  <2>2. Cardinality(B[y]) <= Cardinality(B[m])
        /\ Cardinality(B[y]) # Cardinality(B[m])
    BY <1>1, <2>1, FS_Subset
  <2>3. k <= Cardinality(B[y])
    BY <1>3, <2>1
  <2>. QED  BY <1>1, <1>4, <2>1, <2>2, <2>3
<1>. QED  BY <1>5

LEMMA FiniteBounds ==
  ASSUME NEW S \in SUBSET Int, IsFiniteSet(S), S # {}
  PROVE  /\ \E m \in S : \A y \in S : m >= y
         /\ \E m \in S : \A y \in S : m <= y
<1>1. PICK m \in S : {y \in S : y > m} = {}
  <2>. DEFINE B == [x \in S |-> {y \in S : y > x}]
  <2>1. \A x \in S : B[x] = {y \in S : y > x}
    OBVIOUS
  <2>. HIDE DEF B
  <2>2. \A x \in S : B[x] \in SUBSET S
    BY <2>1
  <2>3. \A x, y \in S : y \in B[x] => B[y] \subseteq B[x] /\ y \notin B[y]
    <3>1. \A x, y, z \in S : (y > x /\ z > y => z > x) /\ ~(y > y)
      OBVIOUS
    <3>. QED  BY <2>1, <3>1
  <2>4. \E m \in S : B[m] = {}
    BY <2>2, <2>3, FewestAbove
  <2>. QED  BY <2>1, <2>4
<1>2. PICK n \in S : {y \in S : y < n} = {}
  <2>. DEFINE B == [x \in S |-> {y \in S : y < x}]
  <2>1. \A x \in S : B[x] = {y \in S : y < x}
    OBVIOUS
  <2>. HIDE DEF B
  <2>2. \A x \in S : B[x] \in SUBSET S
    BY <2>1
  <2>3. \A x, y \in S : y \in B[x] => B[y] \subseteq B[x] /\ y \notin B[y]
    <3>1. \A x, y, z \in S : (y < x /\ z < y => z < x) /\ ~(y < y)
      OBVIOUS
    <3>. QED  BY <2>1, <3>1
  <2>4. \E l \in S : B[l] = {}
    BY <2>2, <2>3, FewestAbove
  <2>. QED  BY <2>1, <2>4
<1>3. (\A y \in S : m >= y) /\ (\A y \in S : n <= y)
  BY <1>1, <1>2
<1>. QED  BY <1>3

-----------------------------------------------------------------------------
(* Sequences: two in a row, and one without the element at a place.        *)
Cut(l, a) == SubSeq(l, 1, a - 1) \o SubSeq(l, a + 1, Len(l))

LEMMA ConcatAt ==
  ASSUME NEW S, NEW x \in Seq(S), NEW y \in Seq(S)
  PROVE  /\ x \o y \in Seq(S) /\ Len(x \o y) = Len(x) + Len(y)
         /\ \A j \in 1..(Len(x) + Len(y)) :
              (x \o y)[j] = IF j <= Len(x) THEN x[j] ELSE y[j - Len(x)]
OBVIOUS

LEMMA PairIs ==
  ASSUME NEW x, NEW y
  PROVE  <<x>> \o <<y>> = <<x, y>>
<1>1. PICK S : S = {x, y}
  OBVIOUS
<1>2. <<x>> \in Seq(S) /\ <<y>> \in Seq(S) /\ <<x, y>> \in Seq(S)
  BY <1>1
<1>3. /\ <<x>> \o <<y>> \in Seq(S) /\ Len(<<x>> \o <<y>>) = 2
      /\ (<<x>> \o <<y>>)[1] = x /\ (<<x>> \o <<y>>)[2] = y
  BY <1>2, ConcatAt
<1>4. PICK z : z = <<x>> \o <<y>>
  OBVIOUS
<1>5. z = [i \in 1..2 |-> z[i]]
  BY <1>3, <1>4
<1>6. <<x, y>> = [i \in 1..2 |-> IF i = 1 THEN x ELSE y]
  OBVIOUS
<1>7. [i \in 1..2 |-> z[i]] = [i \in 1..2 |-> IF i = 1 THEN x ELSE y]
  <2>1. \A i \in 1..2 : z[i] = IF i = 1 THEN x ELSE y
    <3>1. z[1] = x /\ z[2] = y
      BY <1>3, <1>4
    <3>2. \A i \in 1..2 : i = 1 \/ i = 2
      OBVIOUS
    <3>. QED  BY <3>1, <3>2
  <2>. QED  BY <2>1
<1>. QED  BY <1>4, <1>5, <1>6, <1>7

LEMMA CutIs ==
  ASSUME NEW S, NEW l \in Seq(S), NEW a \in 1..Len(l)
  PROVE  /\ Cut(l, a) \in Seq(S)
         /\ Len(Cut(l, a)) = Len(l) - 1
         /\ \A j \in 1..(Len(l) - 1) :
              Cut(l, a)[j] = IF j < a THEN l[j] ELSE l[j + 1]
<1>. DEFINE x == SubSeq(l, 1, a - 1)
            y == SubSeq(l, a + 1, Len(l))
            w == x \o y
<1>0. Len(l) \in Nat /\ a \in Nat
  OBVIOUS
<1>1. /\ x \in Seq(S) /\ Len(x) = a - 1
      /\ \A j \in 1..(a - 1) : x[j] = l[j]
  OBVIOUS
<1>2. /\ y \in Seq(S) /\ Len(y) = Len(l) - a
      /\ \A j \in 1..(Len(l) - a) : y[j] = l[a + j]
  OBVIOUS
<1>3. Cut(l, a) = w
  BY DEF Cut
<1>. HIDE DEF x, y
<1>4. /\ w \in Seq(S) /\ Len(w) = Len(l) - 1
      /\ \A j \in 1..(Len(l) - 1) :
           w[j] = IF j <= a - 1 THEN x[j] ELSE y[j - (a - 1)]
  <2>1. /\ x \o y \in Seq(S) /\ Len(x \o y) = Len(x) + Len(y)
        /\ \A j \in 1..(Len(x) + Len(y)) :
             (x \o y)[j] = IF j <= Len(x) THEN x[j] ELSE y[j - Len(x)]
    BY <1>1, <1>2, ConcatAt
  <2>2. Len(x) + Len(y) = Len(l) - 1
    BY <1>0, <1>1, <1>2
  <2>. QED  BY <2>1, <2>2, <1>1
<1>. HIDE DEF w
<1>5. ASSUME NEW j \in 1..(Len(l) - 1)
      PROVE  w[j] = IF j < a THEN l[j] ELSE l[j + 1]
  <2>1. CASE j < a
    BY <2>1, <1>0, <1>1, <1>4
  <2>2. CASE j >= a
    <3>1. /\ j - (a - 1) \in 1..(Len(l) - a) /\ a + (j - (a - 1)) = j + 1
          /\ ~(j <= a - 1) /\ ~(j < a)
      BY <2>2, <1>0
    <3>2. w[j] = y[j - (a - 1)]
      BY <3>1, <1>4
    <3>3. y[j - (a - 1)] = l[j + 1]
      BY <3>1, <1>2
    <3>. QED  BY <3>1, <3>2, <3>3
  <2>. QED  BY <2>1, <2>2, <1>0
<1>. QED  BY <1>3, <1>4, <1>5

-----------------------------------------------------------------------------
(* Sums. *)

PartialSums(f, n, g) ==
  /\ g \in [0..n -> Nat]
  /\ g[0] = 0
  /\ \A i \in 1..n : g[i] = g[i-1] + f[i]
  /\ \A i, j \in 0..n : i <= j => g[i] <= g[j]

IsSum(f, n, s) == \E g \in [0..n -> Nat] : PartialSums(f, n, g) /\ g[n] = s

(* The table of zeros sums to zero. *)
LEMMA ZeroSum ==
  ASSUME NEW n \in Nat, NEW f, \A i \in 1..n : f[i] = 0
  PROVE  IsSum(f, n, 0)
<1> DEFINE g == [i \in 0..n |-> 0]
<1>1. g \in [0..n -> Nat]
  OBVIOUS
<1>2. PartialSums(f, n, g)
  BY DEF PartialSums
<1>3. g[n] = 0
  OBVIOUS
<1> QED BY <1>1, <1>2, <1>3 DEF IsSum

(* A sum of naturals is a natural. *)
LEMMA SumIsNat ==
  ASSUME NEW n \in Nat, NEW f, NEW s, IsSum(f, n, s)
  PROVE  s \in Nat
BY DEF IsSum, PartialSums

(* Changing one entry changes the sum by the difference. *)
LEMMA SumUpdate ==
  ASSUME NEW n \in Nat, NEW f \in [1..n -> Nat], NEW h \in [1..n -> Nat],
         NEW s, NEW k \in 1..n,
         \A i \in 1..n : i # k => h[i] = f[i],
         IsSum(f, n, s)
  PROVE  IsSum(h, n, s - f[k] + h[k])
<1>1. PICK g \in [0..n -> Nat] : PartialSums(f, n, g) /\ g[n] = s
  BY DEF IsSum
<1> DEFINE d == h[k] - f[k]
           g2 == [i \in 0..n |-> IF i < k THEN g[i] ELSE g[i] + d]
<1>2. \A i \in 0..n : g[i] \in Nat
  BY <1>1
<1>3. g[k] = g[k-1] + f[k] /\ k \in 0..n /\ k-1 \in 0..n /\ n \in 0..n
  BY <1>1 DEF PartialSums
<1>4. \A i \in 0..n : i >= k => g[i] >= g[k-1] + f[k]
  BY <1>1, <1>3 DEF PartialSums
<1>5. g2 \in [0..n -> Nat]
  <2>1. ASSUME NEW i \in 0..n PROVE (IF i < k THEN g[i] ELSE g[i] + d) \in Nat
    BY SMTT(30), <1>2, <1>3, <1>4
  <2> QED BY <2>1
<1>6. g2[0] = 0
  BY <1>1 DEF PartialSums
<1>7. \A i \in 1..n : g2[i] = g2[i-1] + h[i]
  <2> SUFFICES ASSUME NEW i \in 1..n PROVE g2[i] = g2[i-1] + h[i]
    OBVIOUS
  <2>1. g[i] = g[i-1] + f[i] /\ i \in 0..n /\ i-1 \in 0..n
    BY <1>1 DEF PartialSums
  <2>2. CASE i < k
    BY <2>1, <2>2
  <2>3. CASE i = k
    BY <2>1, <2>3, <1>2
  <2>4. CASE i > k
    <3>1. h[i] = f[i] BY <2>4
    <3>2. g2[i] = g[i] + d /\ g2[i-1] = g[i-1] + d BY <2>1, <2>4
    <3>3. g[i] \in Nat /\ g[i-1] \in Nat /\ d \in Int BY <2>1, <1>2
    <3>4. f[i] \in Int /\ g[i] = g[i-1] + f[i] BY <2>1
    <3> HIDE DEF g2, d
    <3> QED BY <3>1, <3>2, <3>3, <3>4
  <2> QED BY <2>2, <2>3, <2>4
<1>8. \A i, j \in 0..n : i <= j => g2[i] <= g2[j]
  <2> SUFFICES ASSUME NEW i \in 0..n, NEW j \in 0..n, i <= j
               PROVE g2[i] <= g2[j]
    OBVIOUS
  <2>1. g[i] <= g[j] /\ (i < k => g[i] <= g[k-1])
    BY SMTT(30), <1>1, <1>3 DEF PartialSums
  <2>2. g[i] \in Nat /\ g[j] \in Nat /\ g[k-1] \in Nat /\ d \in Int
    BY <1>2, <1>3
  <2>3. CASE j < k
    BY <2>1, <2>3
  <2>4. CASE i < k /\ ~(j < k)
    <3>1. g[j] >= g[k-1] + f[k] BY <1>4, <2>4
    <3>2. g2[i] = g[i] /\ g2[j] = g[j] + h[k] - f[k] BY <2>2, <2>4
    <3> QED BY SMTT(30), <2>1, <2>2, <2>4, <3>1, <3>2
  <2>5. CASE ~(i < k)
    BY <2>1, <2>2, <2>5
  <2> QED BY <2>3, <2>4, <2>5
<1>9. g2[n] = s - f[k] + h[k]
  BY <1>1, <1>2
<1> QED BY <1>5, <1>6, <1>7, <1>8, <1>9 DEF IsSum, PartialSums

(* Partial sums end in the total. *)
LEMMA SumUpToIs ==
  ASSUME NEW n \in Nat, NEW f, NEW g \in [0..n -> Int],
         g[0] = 0, \A i \in 1..n : g[i] = g[i-1] + f[i]
  PROVE  SumUpTo(f, n) = g[n]
<1> DEFINE Step(h) == [i \in 0..n |-> IF i = 0 THEN 0 ELSE h[i-1] + f[i]]
           sum == CHOOSE h : h = Step(h)
<1>1. g = Step(g)
  OBVIOUS
<1>2. sum = Step(sum)
  <2> HIDE DEF Step
  <2> QED BY <1>1
<1>3. SumUpTo(f, n) = sum[n]
  BY DEF SumUpTo
<1> HIDE DEF sum
<1>4. \A i \in 0..n : sum[i] = IF i = 0 THEN 0 ELSE sum[i-1] + f[i]
  BY <1>2
<1>5. ASSUME NEW k \in 0..n, sum[k] # g[k] PROVE FALSE
  <2> DEFINE T == {i \in 0..n : sum[i] # g[i]}
  <2>1. PICK m \in T : \A i \in T : m <= i
    <3>1. T \in SUBSET Nat /\ k \in T
      BY <1>5
    <3> HIDE DEF T
    <3> QED BY <3>1, LeastNat
  <2>2. m \in 0..n /\ sum[m] # g[m]
    OBVIOUS
  <2>3. m # 0
    BY <1>4, <2>2
  <2>4. m-1 \in 0..n /\ sum[m-1] = g[m-1]
    <3>1. m-1 \in 0..n
      BY <2>2, <2>3
    <3> QED BY <2>1, <3>1
  <2> QED BY <1>4, <2>2, <2>3, <2>4
<1> QED BY <1>3, <1>5

LEMMA SumIsTotal ==
  ASSUME NEW n \in Nat, NEW f, NEW s, IsSum(f, n, s)
  PROVE  SumUpTo(f, n) = s
<1>1. PICK g \in [0..n -> Nat] : PartialSums(f, n, g) /\ g[n] = s
  BY DEF IsSum
<1>2. g \in [0..n -> Int] /\ g[0] = 0 /\ \A i \in 1..n : g[i] = g[i-1] + f[i]
  BY <1>1 DEF PartialSums
<1>3. SumUpTo(f, n) = g[n]
  BY <1>2, SumUpToIs
<1> QED BY <1>1, <1>3

-----------------------------------------------------------------------------
(* Remainders *)

(* Quotient and remainder make up the number. *)
LEMMA DivMod ==
  ASSUME NEW x \in Int, NEW n \in Nat, n > 0
  PROVE  /\ x \div n \in Int /\ x % n \in 0..(n - 1)
         /\ x = n * (x \div n) + (x % n)
OBVIOUS

(* A multiple that is small is nothing. *)
LEMMA SmallMultiple ==
  ASSUME NEW n \in Nat, NEW k \in Int, n > 0, -n < n * k, n * k < n
  PROVE  n * k = 0 /\ k = 0
<1>1. k >= 1 => n * k >= n
  OBVIOUS
<1>2. k <= -1 => n * k <= -n
  OBVIOUS
<1>. QED  BY <1>1, <1>2

(* A factor can be taken out of a sum. *)
LEMMA Distribute ==
  ASSUME NEW n \in Int, NEW a \in Int, NEW b \in Int
  PROVE  n * a - n * b = n * (a - b) /\ n * a + n * b = n * (a + b)
OBVIOUS

(* Two numbers with one remainder are equal or a multiple apart. *)
LEMMA SameRemainder ==
  ASSUME NEW x \in Int, NEW y \in Int, NEW n \in Nat, n > 0,
         x % n = y % n, x - y < n, y - x < n
  PROVE  x = y
<1>. DEFINE a == x \div n
            b == y \div n
            r == x % n
<1>1. /\ a \in Int /\ b \in Int /\ r \in Int
      /\ x = n * a + r /\ y = n * b + r
  BY DivMod
<1>. HIDE DEF a, b, r
<1>2. n * a \in Int /\ n * b \in Int /\ n * (a - b) \in Int /\ a - b \in Int
  BY <1>1
<1>3. n * a - n * b = n * (a - b)
  BY <1>1, Distribute
<1>4. n * (a - b) = 0
  <2>1. -n < n * (a - b) /\ n * (a - b) < n
    BY <1>1, <1>2, <1>3
  <2>. QED  BY <2>1, <1>2, SmallMultiple
<1>. QED  BY <1>1, <1>2, <1>3, <1>4

(* A remainder is determined by its equation. *)
LEMMA RemainderIs ==
  ASSUME NEW x \in Int, NEW n \in Nat, n > 0,
         NEW q \in Int, NEW r \in 0..(n - 1), x = n * q + r
  PROVE  x % n = r
<1>. DEFINE b == x \div n
            s == x % n
<1>1. b \in Int /\ s \in 0..(n - 1) /\ x = n * b + s
  BY DivMod
<1>. HIDE DEF b, s
<1>2. n * q \in Int /\ n * b \in Int /\ n * (q - b) \in Int /\ q - b \in Int
  BY <1>1
<1>3. n * q - n * b = n * (q - b)
  BY <1>1, Distribute
<1>4. n * (q - b) = 0
  <2>1. -n < n * (q - b) /\ n * (q - b) < n
    BY <1>1, <1>2, <1>3
  <2>. QED  BY <2>1, <1>2, SmallMultiple
<1>5. s = r
  BY <1>1, <1>2, <1>3, <1>4
<1>. QED  BY <1>5 DEF s

(* Adding a multiple keeps the remainder. *)
LEMMA PlusMultiple ==
  ASSUME NEW x \in Int, NEW w \in Int, NEW n \in Nat, n > 0, w % n = 0
  PROVE  (x + w) % n = x % n
<1>. DEFINE a == x \div n
            b == w \div n
            r == x % n
<1>1. /\ a \in Int /\ b \in Int /\ r \in 0..(n - 1)
      /\ x = n * a + r /\ w = n * b
  <2>1. w = n * b + (w % n) /\ n * b \in Int
    BY DivMod
  <2>2. w = n * b
    BY <2>1
  <2>. QED  BY <2>2, DivMod
<1>. HIDE DEF a, b, r
<1>2. a + b \in Int /\ x + w \in Int
  BY <1>1
<1>3. x + w = n * (a + b) + r
  <2>1. /\ n * a + n * b = n * (a + b)
        /\ n * a \in Int /\ n * b \in Int
    BY <1>1, Distribute
  <2>. QED  BY <1>1, <2>1
<1>4. (x + w) % n = r
  BY <1>1, <1>2, <1>3, RemainderIs
<1>. QED  BY <1>4 DEF r

===============================================================================
