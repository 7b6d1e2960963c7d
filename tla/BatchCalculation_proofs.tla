-------------------------- MODULE BatchCalculation_proofs -------------------------
(***************************************************************************)
(* The batch calculation, for every queue, line, budget and size of the    *)
(* calls: it ends with the longest payable prefix of the open requests,    *)
(* cut into the right batches, and prefinalize asks for what was taken off *)
(* the budget.                                                             *)
(*                                                                         *)
(* The first part is about one queue q with the requests up to fin         *)
(* finalized, the line rate, the time limit ts and the budget bud: what    *)
(* one turn of the loop keeps (TurnFinds), hence what a call keeps         *)
(* (CallFinds).                                                            *)
(***************************************************************************)
EXTENDS BatchCalculation, Foundations

\* What the calculation is given: every request asks for some stETH and some
\* shares, and is worth a wei at the line.
Given(q, fin, rate, ts) ==
  /\ Len(q) \in Nat \ {0} /\ fin \in 0..Len(q) - 1
  /\ rate \in Nat \ {0} /\ ts \in Nat
  /\ \A i \in 1..Len(q) :
       /\ q[i].cumulativeStETH \in Nat /\ q[i].cumulativeShares \in Nat
       /\ q[i].timestamp \in Nat
       /\ StETHIn(q, i - 1, i) \in Nat \ {0}
       /\ SharesIn(q, i - 1, i) \in Nat \ {0}
       /\ SharesIn(q, i - 1, i) * rate >= E27_PRECISION_BASE

\* No part of the queue asks for more shares than a rate has digits.
Few(q) == \A i \in 1..Len(q) : Len(q) * SharesIn(q, i - 1, i) <= E27_PRECISION_BASE

\* The operators of BatchCalculation for given values of its variables.

Price(q, rate, i) == EtherFor(q, i - 1, i, rate)

Prices(q, fin, rate, k) == Sum([n \in 1..k - fin |-> Price(q, rate, fin + n)])

Ends(q, fin, rate, k) == {i \in fin + 1..k : i = k \/ ~SameBatch(q, i + 1, rate)}

Fits(q, fin, rate, ts, bud, k) ==
  /\ \A i \in fin + 1..k : q[i].timestamp <= ts
  /\ Prices(q, fin, rate, k) <= bud
  /\ Cardinality(Ends(q, fin, rate, k)) <= MAX_BATCHES_LENGTH

\* The sequence b lists the set T in ascending order.
Lists(b, T) == /\ Range(b) = T
               /\ \A m, n \in DOMAIN b : m < n => b[m] < b[n]

-------------------------------------------------------------------------------
\* Prices of ranges

\* A discounted range is worth its shares at the line, rounded down, another one
\* its stETH; no range is worth more than its stETH.
LEMMA RangePrice ==
  ASSUME NEW q, NEW pre, NEW end, NEW rate \in Nat,
         StETHIn(q, pre, end) \in Nat, SharesIn(q, pre, end) \in Nat \ {0}
  PROVE  LET E == E27_PRECISION_BASE
             S == SharesIn(q, pre, end)
             A == StETHIn(q, pre, end)
             w == EtherFor(q, pre, end, rate)
         IN /\ w \in Nat /\ w <= A
            /\ IsDiscounted(q, pre, end, rate)
                 => /\ w = (S * rate) \div E
                    /\ E * w <= S * rate /\ S * rate < E * w + E
                    /\ S * (rate + 1) <= A * E
            /\ ~IsDiscounted(q, pre, end, rate) => w = A /\ A * E < S * (rate + 1)
<1> DEFINE E == E27_PRECISION_BASE
           S == SharesIn(q, pre, end)
           A == StETHIn(q, pre, end)
           w == EtherFor(q, pre, end, rate)
           a == A * E
           b == S * rate
           r == a \div S
           v == b \div E
           d == IsDiscounted(q, pre, end, rate)
<1>1. E \in Nat \ {0} /\ S \in Nat \ {0} /\ A \in Nat
  BY BatchesAssumption
<1>2. /\ d <=> r > rate
      /\ w = IF d THEN v ELSE A
  BY DEF IsDiscounted, ShareRate, EtherFor
<1> HIDE DEF E, S, A, w, d
<1>3. a \in Nat /\ b \in Nat
  BY <1>1
<1> HIDE DEF a, b
<1>4. /\ r \in Nat /\ S * r <= a /\ a < S * r + S
      /\ v \in Nat /\ E * v <= b /\ b < E * v + E
  BY <1>1, <1>3, Quotient
<1> HIDE DEF r, v
<1>5. ASSUME d PROVE S * (rate + 1) <= a /\ v <= A
  <2>1. rate + 1 <= r
    BY <1>2, <1>4, <1>5
  <2>2. S * (rate + 1) <= S * r
    BY <1>1, <1>4, <2>1
  <2>3. S * (rate + 1) <= a
    BY <1>1, <1>3, <1>4, <2>2, S * (rate + 1) \in Nat, S * r \in Nat
  <2>4. S * rate <= S * (rate + 1)
    BY <1>1
  <2>5. E * v <= E * A
    BY <1>1, <1>3, <1>4, <2>3, <2>4, S * (rate + 1) \in Nat, E * v \in Nat, E * A = A * E
       DEF a, b
  <2>6. v <= A
    BY <1>1, <1>4, <2>5
  <2> QED
    BY <2>3, <2>6
<1>6. ASSUME ~d PROVE a < S * (rate + 1)
  <2>1. r + 1 <= rate + 1
    BY <1>2, <1>4, <1>6
  <2>2. S * (r + 1) <= S * (rate + 1)
    BY <1>1, <1>4, <2>1
  <2>3. S * (r + 1) = S * r + S
    BY <1>1, <1>4
  <2> QED
    BY <1>1, <1>3, <1>4, <2>2, <2>3, S * (rate + 1) \in Nat, S * r \in Nat
<1>7. CASE d
  BY <1>2, <1>4, <1>5, <1>7, <1>1 DEF a, b, E, S, A, w, d, v
<1>8. CASE ~d
  BY <1>2, <1>6, <1>8, <1>1 DEF a, E, S, A, w, d
<1> QED
  BY <1>7, <1>8

\* A request has a positive price.
LEMMA PriceTyped ==
  ASSUME NEW q, NEW fin, NEW rate, NEW ts, Given(q, fin, rate, ts), NEW i \in 1..Len(q)
  PROVE  Price(q, rate, i) \in Nat \ {0}
<1> DEFINE E == E27_PRECISION_BASE
           h == i - 1
           S == SharesIn(q, h, i)
           A == StETHIn(q, h, i)
           w == EtherFor(q, h, i, rate)
<1>1. /\ E \in Nat \ {0} /\ rate \in Nat \ {0}
      /\ A \in Nat \ {0} /\ S \in Nat \ {0} /\ S * rate >= E
  BY BatchesAssumption DEF Given
<1> HIDE DEF h
<1>2. /\ w \in Nat
      /\ IsDiscounted(q, h, i, rate) => S * rate < E * w + E
      /\ ~IsDiscounted(q, h, i, rate) => w = A
  BY <1>1, RangePrice
<1> HIDE DEF E, S, A, w
<1>3. ASSUME S * rate < E * w + E PROVE w # 0
  BY <1>1, <1>2, <1>3, S * rate \in Nat
<1>4. w \in Nat \ {0}
  BY <1>1, <1>2, <1>3
<1> QED
  BY <1>4 DEF w, h, Price

\* The prices of a prefix, request by request.
LEMMA PricesGrow ==
  ASSUME NEW q, NEW fin, NEW rate, NEW ts, Given(q, fin, rate, ts), NEW k \in fin..Len(q)
  PROVE  /\ Prices(q, fin, rate, k) \in Nat
         /\ k = fin => Prices(q, fin, rate, k) = 0
         /\ k < Len(q) => Prices(q, fin, rate, k + 1)
                            = Prices(q, fin, rate, k) + Price(q, rate, k + 1)
<1> DEFINE p(m) == [n \in 1..m |-> Price(q, rate, fin + n)]
           l == k - fin
<1>1. fin \in Nat /\ Len(q) \in Nat /\ k \in Nat /\ l \in Nat /\ fin + l = k
  BY DEF Given
<1>2. ASSUME NEW n \in 1..Len(q) - fin PROVE Price(q, rate, fin + n) \in Nat \ {0}
  <2>1. fin + n \in 1..Len(q)
    BY <1>1
  <2> QED
    BY <2>1, PriceTyped
<1>3. p(l) \in [1..l -> Int] /\ \A n \in 1..l : p(l)[n] >= 0
  <2>1. ASSUME NEW n \in 1..l PROVE Price(q, rate, fin + n) \in Nat
    <3>1. n \in 1..Len(q) - fin
      BY <1>1
    <3> QED
      BY <1>2, <3>1
  <2> QED
    BY <2>1
<1>4. Prices(q, fin, rate, k) = Sum(p(l))
  BY DEF Prices
<1>5. Sum(p(l)) \in Nat
  <2> DEFINE s == p(l)
  <2>1. s \in [1..l -> Int] /\ \A n \in 1..l : s[n] >= 0
    BY <1>3
  <2> HIDE DEF s
  <2>2. Sum(s) \in Nat
    BY <1>1, <2>1, SumNat
  <2> QED
    BY <2>2 DEF s
<1>6. ASSUME k = fin PROVE Sum(p(l)) = 0
  <2> DEFINE s == p(l)
  <2>1. l = 0 /\ s \in [1..l -> Int] /\ \A n \in 1..l : s[n] = 0
    BY <1>1, <1>3, <1>6
  <2> HIDE DEF s
  <2>2. Sum(s) = 0
    BY <1>1, <2>1, SumZero
  <2> QED
    BY <2>2 DEF s
<1>7. ASSUME k < Len(q)
      PROVE  Prices(q, fin, rate, k + 1) = Sum(p(l)) + Price(q, rate, k + 1)
  <2> DEFINE s == p(l)
             t == p(l + 1)
  <2>1. l + 1 \in 1..Len(q) - fin /\ (k + 1) - fin = l + 1 /\ fin + (l + 1) = k + 1
    BY <1>1, <1>7
  <2>2. s \in [1..l -> Int] /\ t \in [1..l + 1 -> Int] /\ \A n \in 1..l : t[n] = s[n]
    <3>1. ASSUME NEW n \in 1..l + 1 PROVE Price(q, rate, fin + n) \in Nat
      <4>1. n \in 1..Len(q) - fin
        BY <1>1, <2>1
      <4> QED
        BY <1>2, <4>1
    <3>2. t \in [1..l + 1 -> Int]
      BY <3>1
    <3>3. \A n \in 1..l : n \in 1..l + 1 /\ t[n] = s[n]
      BY <1>1
    <3> QED
      BY <1>3, <3>2, <3>3
  <2>3. t[l + 1] = Price(q, rate, k + 1)
    BY <1>1, <2>1
  <2>4. Prices(q, fin, rate, k + 1) = Sum(t)
    BY <2>1 DEF Prices
  <2> HIDE DEF s, t
  <2>5. Sum(t) = Sum(s) + t[l + 1]
    BY <1>1, <2>2, SumAppend
  <2> QED
    BY <2>3, <2>4, <2>5 DEF s
<1> QED
  BY <1>4, <1>5, <1>6, <1>7

-------------------------------------------------------------------------------
\* Batches of a prefix

\* The batches of a prefix end in it, the last one at its end.
LEMMA EndsTyped ==
  ASSUME NEW q, NEW fin \in Nat, NEW rate, NEW k \in Nat, fin <= k
  PROVE  /\ IsFiniteSet(Ends(q, fin, rate, k)) /\ Ends(q, fin, rate, k) \subseteq fin + 1..k
         /\ Cardinality(Ends(q, fin, rate, k)) \in Nat
<1> DEFINE B == Ends(q, fin, rate, k)
<1>1. B \subseteq fin + 1..k
  BY DEF Ends
<1>2. IsFiniteSet(fin + 1..k)
  BY FS_Interval
<1> HIDE DEF B
<1>3. IsFiniteSet(B) /\ B \subseteq fin + 1..k /\ Cardinality(B) \in Nat
  BY <1>1, <1>2, FS_Subset, FS_CardinalityType
<1> QED
  BY <1>3 DEF B

LEMMA EndsStart ==
  ASSUME NEW q, NEW fin \in Nat, NEW rate
  PROVE  Ends(q, fin, rate, fin) = {} /\ Cardinality(Ends(q, fin, rate, fin)) = 0
<1>1. Ends(q, fin, rate, fin) = {}
  BY DEF Ends
<1> QED
  BY <1>1, FS_EmptySet

LEMMA EndsAtEnd ==
  ASSUME NEW q, NEW fin \in Nat, NEW rate, NEW k \in Nat, fin < k
  PROVE  k \in Ends(q, fin, rate, k)
BY DEF Ends

\* One request more makes a new batch ...
LEMMA EndsNew ==
  ASSUME NEW q, NEW fin \in Nat, NEW rate, NEW k \in Nat, fin <= k,
         k = fin \/ ~SameBatch(q, k + 1, rate)
  PROVE  /\ Ends(q, fin, rate, k + 1) = Ends(q, fin, rate, k) \cup {k + 1}
         /\ Cardinality(Ends(q, fin, rate, k + 1)) = Cardinality(Ends(q, fin, rate, k)) + 1
<1> DEFINE B == Ends(q, fin, rate, k)
           C == Ends(q, fin, rate, k + 1)
<1>1. ASSUME NEW i PROVE i \in C <=> i \in B \cup {k + 1}
  <2>1. CASE i = k + 1
    BY <2>1 DEF Ends
  <2>2. CASE i \in fin + 1..k
    <3>1. i # k + 1 /\ i \in fin + 1..k + 1 /\ (i = k => k # fin)
      BY <2>2
    <3>2. i \in C <=> ~SameBatch(q, i + 1, rate)
      BY <3>1 DEF Ends
    <3>3. i \in B <=> (i = k \/ ~SameBatch(q, i + 1, rate))
      BY <2>2 DEF Ends
    <3> QED
      BY <3>1, <3>2, <3>3
  <2>3. CASE i # k + 1 /\ i \notin fin + 1..k
    <3>1. i \notin fin + 1..k + 1
      BY <2>3
    <3> QED
      BY <2>3, <3>1 DEF Ends
  <2> QED
    BY <2>1, <2>2, <2>3
<1>2. C = B \cup {k + 1}
  BY <1>1
<1>3. IsFiniteSet(B) /\ B \subseteq fin + 1..k /\ k + 1 \notin fin + 1..k
  BY EndsTyped
<1> HIDE DEF B, C
<1>4. Cardinality(C) = Cardinality(B) + 1
  BY <1>2, <1>3, FS_AddElement
<1> QED
  BY <1>2, <1>4 DEF B, C

\* ... or extends the last one.
LEMMA EndsSame ==
  ASSUME NEW q, NEW fin \in Nat, NEW rate, NEW k \in Nat, fin < k, SameBatch(q, k + 1, rate)
  PROVE  /\ Ends(q, fin, rate, k + 1) = (Ends(q, fin, rate, k) \ {k}) \cup {k + 1}
         /\ Cardinality(Ends(q, fin, rate, k + 1)) = Cardinality(Ends(q, fin, rate, k))
<1> DEFINE B == Ends(q, fin, rate, k)
           C == Ends(q, fin, rate, k + 1)
           D == B \ {k}
<1>1. ASSUME NEW i PROVE i \in C <=> i \in D \cup {k + 1}
  <2>1. CASE i = k + 1
    BY <2>1 DEF Ends
  <2>2. CASE i \in fin + 1..k
    <3>1. i # k + 1 /\ i \in fin + 1..k + 1
      BY <2>2
    <3>2. i \in C <=> ~SameBatch(q, i + 1, rate)
      BY <3>1 DEF Ends
    <3>3. i \in B <=> (i = k \/ ~SameBatch(q, i + 1, rate))
      BY <2>2 DEF Ends
    <3> QED
      BY <3>1, <3>2, <3>3
  <2>3. CASE i # k + 1 /\ i \notin fin + 1..k
    <3>1. i \notin fin + 1..k + 1
      BY <2>3
    <3> QED
      BY <2>3, <3>1 DEF Ends
  <2> QED
    BY <2>1, <2>2, <2>3
<1>2. C = D \cup {k + 1}
  BY <1>1
<1>3. IsFiniteSet(B) /\ Cardinality(B) \in Nat /\ k + 1 \notin D
  BY EndsTyped
<1>4. k \in B
  BY EndsAtEnd
<1> HIDE DEF B, C
<1>5. IsFiniteSet(D) /\ Cardinality(D) = Cardinality(B) - 1
  BY <1>3, <1>4, FS_RemoveElement
<1> HIDE DEF D
<1>6. Cardinality(C) = Cardinality(D) + 1
  BY <1>2, <1>3, <1>5, FS_AddElement
<1>7. Cardinality(C) = Cardinality(B)
  BY <1>3, <1>5, <1>6
<1> QED
  BY <1>2, <1>7 DEF B, C, D

\* What fits with one request more fits without it.
LEMMA FitsBefore ==
  ASSUME NEW q, NEW fin, NEW rate, NEW ts, Given(q, fin, rate, ts), NEW bud \in Nat,
         NEW k \in fin..Len(q), k < Len(q), Fits(q, fin, rate, ts, bud, k + 1)
  PROVE  Fits(q, fin, rate, ts, bud, k)
<1>1. fin \in Nat /\ Len(q) \in Nat /\ k \in Nat /\ fin <= k
  BY DEF Given
<1>2. \A i \in fin + 1..k : q[i].timestamp <= ts
  BY <1>1 DEF Fits
<1>3. Prices(q, fin, rate, k) <= bud
  <2> DEFINE P == Prices(q, fin, rate, k)
             R == Prices(q, fin, rate, k + 1)
             w == Price(q, rate, k + 1)
  <2>1. k + 1 \in 1..Len(q)
    BY <1>1
  <2>2. P \in Nat /\ R = P + w /\ w \in Nat
    BY <2>1, PricesGrow, PriceTyped
  <2>3. R <= bud
    BY DEF Fits
  <2> HIDE DEF P, R, w
  <2>4. P <= bud
    BY <2>2, <2>3
  <2> QED
    BY <2>4 DEF P
<1>4. Cardinality(Ends(q, fin, rate, k)) <= MAX_BATCHES_LENGTH
  <2> DEFINE m == Cardinality(Ends(q, fin, rate, k))
             n == Cardinality(Ends(q, fin, rate, k + 1))
  <2>1. m \in Nat
    BY <1>1, EndsTyped
  <2>2. n = m \/ n = m + 1
    <3>1. CASE k = fin \/ ~SameBatch(q, k + 1, rate)
      <4>1. n = m + 1
        <5>1. k = fin \/ ~SameBatch(q, k + 1, rate)
          BY <3>1
        <5>2. k \in Nat /\ fin \in Nat /\ fin <= k
          BY <1>1
        <5>3. /\ Ends(q, fin, rate, k + 1) = Ends(q, fin, rate, k) \cup {k + 1}
              /\ Cardinality(Ends(q, fin, rate, k + 1))
                   = Cardinality(Ends(q, fin, rate, k)) + 1
          BY <5>1, <5>2, EndsNew
        <5> QED
          BY <5>3
      <4> QED
        BY <4>1
    <3>2. CASE k # fin /\ SameBatch(q, k + 1, rate)
      <4>1. fin < k /\ SameBatch(q, k + 1, rate)
        BY <1>1, <3>2
      <4>2. n = m
        BY <1>1, <4>1, EndsSame
      <4> QED
        BY <4>2
    <3> QED
      BY <3>1, <3>2
  <2>3. n <= MAX_BATCHES_LENGTH
    BY DEF Fits
  <2> HIDE DEF m, n
  <2>4. m <= MAX_BATCHES_LENGTH
    BY <2>1, <2>2, <2>3, BatchesAssumption
  <2> QED
    BY <2>4 DEF m
<1> QED
  BY <1>2, <1>3, <1>4 DEF Fits

\* What fits has prefixes that fit.
LEMMA PrefixFits ==
  ASSUME NEW q, NEW fin, NEW rate, NEW ts, Given(q, fin, rate, ts), NEW bud \in Nat,
         NEW k \in fin..Len(q), Fits(q, fin, rate, ts, bud, k), NEW j \in fin..k
  PROVE  Fits(q, fin, rate, ts, bud, j)
<1> DEFINE S == {d \in 0..k - j : Fits(q, fin, rate, ts, bud, k - d)}
<1>1. fin \in Nat /\ Len(q) \in Nat /\ k \in Nat /\ j \in Nat /\ j <= k /\ k - j \in Nat
  BY DEF Given
<1>2. 0 \in S
  <2>1. k - 0 = k
    BY <1>1
  <2> QED
    BY <1>1, <2>1
<1>3. ASSUME NEW d \in 0..(k - j) - 1, d \in S PROVE d + 1 \in S
  <2> DEFINE m == k - (d + 1)
  <2>1. m \in fin..Len(q) /\ m < Len(q) /\ m + 1 = k - d /\ d + 1 \in 0..k - j
    BY <1>1
  <2>2. Fits(q, fin, rate, ts, bud, m + 1)
    BY <1>3, <2>1
  <2> HIDE DEF m
  <2>3. Fits(q, fin, rate, ts, bud, m)
    BY <2>1, <2>2, FitsBefore
  <2> QED
    BY <2>1, <2>3 DEF m
<1>4. 0..k - j \subseteq S
  <2> DEFINE n == k - j
  <2> HIDE DEF S, n
  <2>1. 0 \in S /\ n \in Nat /\ \A d \in 0..n - 1 : d \in S => d + 1 \in S
    BY <1>1, <1>2, <1>3 DEF n
  <2> QED
    BY <2>1, SetInduction DEF n
<1>5. k - j \in S /\ k - (k - j) = j
  <2>1. k - j \in 0..k - j /\ k - (k - j) = j
    BY <1>1
  <2> HIDE DEF S
  <2> QED
    BY <1>4, <2>1
<1> QED
  BY <1>5

-------------------------------------------------------------------------------
\* Lists

LEMMA ListAppend ==
  ASSUME NEW b \in Seq(Nat), NEW T \in SUBSET Nat, Lists(b, T), NEW e \in Nat,
         \A x \in T : x < e
  PROVE  Lists(Append(b, e), T \cup {e})
<1> DEFINE n == Len(b)
           c == Append(b, e)
<1>1. n \in Nat /\ DOMAIN b = 1..n /\ DOMAIN c = 1..n + 1
      /\ c[n + 1] = e /\ \A k \in 1..n : c[k] = b[k]
  BY LenProperties, AppendProperties
<1>2. Range(b) = {b[k] : k \in 1..n} /\ Range(c) = {c[k] : k \in 1..n + 1}
  BY <1>1 DEF Range
<1>3. \A k, m \in 1..n : k < m => b[k] < b[m]
  BY <1>1 DEF Lists
<1>4. Range(b) = T
  BY DEF Lists
<1> HIDE DEF n, c
<1>5. Range(c) = T \cup {e}
  <2>1. ASSUME NEW k \in 1..n + 1 PROVE c[k] \in T \cup {e}
    <3>1. CASE k = n + 1
      BY <1>1, <3>1
    <3>2. CASE k # n + 1
      <4>1. k \in 1..n
        BY <1>1, <3>2
      <4> QED
        BY <1>1, <1>2, <1>4, <4>1
    <3> QED
      BY <3>1, <3>2
  <2>2. ASSUME NEW x \in T \cup {e} PROVE \E k \in 1..n + 1 : c[k] = x
    <3>1. CASE x = e
      BY <1>1, <3>1
    <3>2. CASE x \in T
      <4>1. PICK k \in 1..n : b[k] = x
        BY <1>2, <1>4, <3>2
      <4>2. k \in 1..n + 1 /\ c[k] = x
        BY <1>1, <4>1
      <4> QED
        BY <4>2
    <3> QED
      BY <3>1, <3>2
  <2> QED
    BY <1>2, <2>1, <2>2
<1>6. ASSUME NEW k \in 1..n + 1, NEW m \in 1..n + 1, k < m PROVE c[k] < c[m]
  <2>1. k \in 1..n
    BY <1>1, <1>6
  <2>2. CASE m = n + 1
    <3>1. b[k] \in T
      BY <1>2, <1>4, <2>1
    <3> QED
      BY <1>1, <2>1, <2>2, <3>1
  <2>3. CASE m # n + 1
    <3>1. m \in 1..n
      BY <1>1, <2>3
    <3> QED
      BY <1>1, <1>3, <1>6, <2>1, <3>1
  <2> QED
    BY <2>2, <2>3
<1> QED
  BY <1>1, <1>5, <1>6 DEF Lists, c

\* The last element gives way to a larger one.
LEMMA ListReplace ==
  ASSUME NEW b \in Seq(Nat), NEW T \in SUBSET Nat, Lists(b, T), Len(b) # 0, NEW e \in Nat,
         \A x \in T : x < e
  PROVE  Lists([b EXCEPT ![Len(b)] = e], (T \ {b[Len(b)]}) \cup {e})
<1> DEFINE n == Len(b)
           c == [b EXCEPT ![n] = e]
           z == b[n]
<1>1. n \in Nat /\ n \in 1..n /\ DOMAIN b = 1..n /\ DOMAIN c = 1..n
  BY LenProperties
<1>2. c[n] = e /\ \A k \in 1..n : k # n => c[k] = b[k]
  BY <1>1
<1>3. Range(b) = {b[k] : k \in 1..n} /\ Range(c) = {c[k] : k \in 1..n}
  BY <1>1 DEF Range
<1>4. \A k, m \in 1..n : k < m => b[k] < b[m]
  BY <1>1 DEF Lists
<1>5. Range(b) = T
  BY DEF Lists
<1> HIDE DEF n, c, z
<1>6. ASSUME NEW k \in 1..n, k # n PROVE b[k] \in T /\ b[k] # z /\ c[k] = b[k]
  <2>1. k < n
    BY <1>1, <1>6
  <2>2. b[k] < b[n] /\ b[k] \in T
    BY <1>1, <1>3, <1>4, <1>5, <2>1
  <2>3. b[k] \in Nat
    BY <2>2
  <2> QED
    BY <1>2, <1>6, <2>2, <2>3 DEF z
<1>7. Range(c) = (T \ {z}) \cup {e}
  <2>1. ASSUME NEW k \in 1..n PROVE c[k] \in (T \ {z}) \cup {e}
    BY <1>2, <1>6
  <2>2. ASSUME NEW x \in (T \ {z}) \cup {e} PROVE \E k \in 1..n : c[k] = x
    <3>1. CASE x = e
      BY <1>1, <1>2, <3>1
    <3>2. CASE x \in T /\ x # z
      <4>1. PICK k \in 1..n : b[k] = x
        BY <1>3, <1>5, <3>2
      <4>2. k # n
        BY <3>2, <4>1 DEF z
      <4> QED
        BY <1>6, <4>1, <4>2
    <3> QED
      BY <3>1, <3>2
  <2> QED
    BY <1>3, <2>1, <2>2
<1>8. ASSUME NEW k \in 1..n, NEW m \in 1..n, k < m PROVE c[k] < c[m]
  <2>1. k # n
    BY <1>1, <1>8
  <2>2. CASE m = n
    BY <1>2, <1>6, <2>1, <2>2
  <2>3. CASE m # n
    BY <1>4, <1>6, <1>8, <2>1, <2>3
  <2> QED
    BY <2>2, <2>3
<1>9. Lists(c, (T \ {z}) \cup {e})
  BY <1>1, <1>7, <1>8 DEF Lists
<1> QED
  BY <1>9 DEF c, z, n

-------------------------------------------------------------------------------
\* The loop

\* The batches b are those of the requests up to c, which fit.
Reached(q, fin, rate, ts, bud, b, c) ==
  /\ b \in Seq(Nat) /\ c \in fin..Len(q)
  /\ Lists(b, Ends(q, fin, rate, c))
  /\ Len(b) = Cardinality(Ends(q, fin, rate, c))
  /\ Fits(q, fin, rate, ts, bud, c)

\* What the loop keeps: the batches of the requests taken, what is left of the
\* budget, and that it stops only where one request more does not fit.
Found(q, fin, rate, ts, bud) ==
  {s \in [budget : Int, batches : Seq(Nat), stopped : BOOLEAN] :
     LET c == CurrentId(fin, s) - 1
     IN /\ Reached(q, fin, rate, ts, bud, s.batches, c)
        /\ s.stopped => c = Len(q) \/ ~Fits(q, fin, rate, ts, bud, c + 1)
        /\ ~s.stopped => s.budget = bud - Prices(q, fin, rate, c)}

\* The last batch ends with the request taken last.
LEMMA LastEnd ==
  ASSUME NEW q, NEW fin \in Nat, NEW rate, NEW ts, NEW bud, NEW b, NEW c,
         Reached(q, fin, rate, ts, bud, b, c), Len(q) \in Nat
  PROVE  /\ Len(b) \in Nat /\ c \in Nat /\ Ends(q, fin, rate, c) \in SUBSET Nat
         /\ b = << >> <=> Len(b) = 0
         /\ c = fin <=> Len(b) = 0
         /\ Len(b) # 0 => b[Len(b)] = c
<1> DEFINE T == Ends(q, fin, rate, c)
           n == Len(b)
<1>1. b \in Seq(Nat) /\ c \in Nat /\ fin <= c /\ Lists(b, T) /\ n = Cardinality(T)
  BY DEF Reached
<1>2. n \in Nat /\ (b = << >> <=> n = 0) /\ DOMAIN b = 1..n
  BY <1>1, LenProperties, EmptySeq
<1>3. /\ IsFiniteSet(T) /\ T \subseteq fin + 1..c
      /\ c = fin => n = 0
      /\ c # fin => c \in T
  <2>1. IsFiniteSet(T) /\ T \subseteq fin + 1..c
    BY <1>1, EndsTyped
  <2>2. c = fin => Cardinality(T) = 0
    BY EndsStart
  <2>3. ASSUME c # fin PROVE c \in T
    <3>1. fin < c
      BY <1>1, <2>3
    <3> QED
      BY <1>1, <3>1, EndsAtEnd
  <2> QED
    BY <1>1, <2>1, <2>2, <2>3
<1> HIDE DEF T
<1>4. c # fin => n # 0
  BY <1>1, <1>3, FS_EmptySet
<1>5. ASSUME n # 0 PROVE b[n] = c
  <2>1. c \in T
    BY <1>3, <1>5
  <2>2. Range(b) = T /\ \A k, m \in 1..n : k < m => b[k] < b[m]
    BY <1>1, <1>2 DEF Lists
  <2>3. PICK k \in 1..n : b[k] = c
    BY <1>2, <2>1, <2>2 DEF Range
  <2>4. n \in 1..n /\ b[n] \in T
    BY <1>2, <1>5, <2>2 DEF Range
  <2>5. b[n] \in Nat /\ b[n] <= c
    BY <1>1, <1>3, <2>4
  <2>6. k < n => c < b[n]
    BY <2>2, <2>3, <2>4
  <2> HIDE DEF n
  <2> QED
    BY <1>1, <1>2, <2>3, <2>5, <2>6
<1>6. T \in SUBSET Nat
  BY <1>3
<1> QED
  BY <1>1, <1>2, <1>3, <1>4, <1>5, <1>6 DEF T

\* The request that is looked at is the one after those taken.
LEMMA CurrentIsNext ==
  ASSUME NEW q, NEW fin \in Nat, NEW rate, NEW ts, NEW bud, NEW s, NEW b, NEW c \in Nat,
         Reached(q, fin, rate, ts, bud, b, c), s.batches = b, Len(q) \in Nat
  PROVE  CurrentId(fin, s) = c + 1
<1>1. /\ Len(b) \in Nat /\ c \in Nat
      /\ b = << >> <=> Len(b) = 0
      /\ c = fin <=> Len(b) = 0
      /\ Len(b) # 0 => b[Len(b)] = c
  BY LastEnd
<1>2. CurrentId(fin, s) = 1 + (IF b = << >> THEN fin ELSE b[Len(b)])
  BY DEF CurrentId
<1>3. (IF b = << >> THEN fin ELSE b[Len(b)]) = c
  BY <1>1
<1> QED
  BY <1>1, <1>2, <1>3

\* States in which the loop stops, or has taken one request more.
LEMMA FoundIf ==
  ASSUME NEW q, NEW fin, NEW rate, NEW ts, Given(q, fin, rate, ts), NEW bud,
         NEW s \in [budget : Int, batches : Seq(Nat), stopped : BOOLEAN], NEW b, NEW c,
         Reached(q, fin, rate, ts, bud, b, c), s.batches = b,
         s.stopped => c = Len(q) \/ ~Fits(q, fin, rate, ts, bud, c + 1),
         ~s.stopped => s.budget = bud - Prices(q, fin, rate, c)
  PROVE  s \in Found(q, fin, rate, ts, bud)
<1>1. fin \in Nat /\ Len(q) \in Nat /\ c \in Nat
  BY DEF Reached, Given
<1>2. CurrentId(fin, s) = c + 1
  BY <1>1, CurrentIsNext
<1>3. CurrentId(fin, s) - 1 = c
  BY <1>1, <1>2
<1> QED
  BY <1>3 DEF Found

\* One request more is taken if it is old enough, within the budget, and in one
\* of at most MAX_BATCHES_LENGTH batches.
LEMMA FitsAfter ==
  ASSUME NEW q, NEW fin, NEW rate, NEW ts, Given(q, fin, rate, ts), NEW bud \in Nat,
         NEW c \in fin..Len(q), c < Len(q), Fits(q, fin, rate, ts, bud, c)
  PROVE  Fits(q, fin, rate, ts, bud, c + 1)
           <=> /\ q[c + 1].timestamp <= ts
               /\ Prices(q, fin, rate, c) + Price(q, rate, c + 1) <= bud
               /\ Cardinality(Ends(q, fin, rate, c + 1)) <= MAX_BATCHES_LENGTH
<1>1. fin \in Nat /\ c \in Nat /\ fin <= c
  BY DEF Given
<1>2. Prices(q, fin, rate, c + 1) = Prices(q, fin, rate, c) + Price(q, rate, c + 1)
  BY PricesGrow
<1>3. (\A i \in fin + 1..c + 1 : q[i].timestamp <= ts) <=> q[c + 1].timestamp <= ts
  <2>1. \A i \in fin + 1..c : q[i].timestamp <= ts
    BY DEF Fits
  <2>2. fin + 1..c + 1 = (fin + 1..c) \cup {c + 1}
    BY <1>1
  <2> QED
    BY <2>1, <2>2
<1> QED
  BY <1>2, <1>3 DEF Fits

\* One turn of the loop.
LEMMA TurnFinds ==
  ASSUME NEW q, NEW fin, NEW rate, NEW ts, Given(q, fin, rate, ts), NEW bud \in Nat,
         NEW s \in Found(q, fin, rate, ts, bud)
  PROVE  TakeRequest(q, fin, rate, ts, s) \in Found(q, fin, rate, ts, bud)
<1> DEFINE F     == Found(q, fin, rate, ts, bud)
           i     == CurrentId(fin, s)
           c     == i - 1
           cost  == EtherFor(q, i - 1, i, rate)
           b     == s.batches
           n     == Len(b)
           T     == Ends(q, fin, rate, c)
           P     == Prices(q, fin, rate, c)
           x     == s.budget - cost
           Type  == [budget : Int, batches : Seq(Nat), stopped : BOOLEAN]
           end   == [s EXCEPT !.stopped = TRUE]
           spent == [s EXCEPT !.budget = x]
           same  == [spent EXCEPT !.batches = [b EXCEPT ![n] = i]]
           more  == [spent EXCEPT !.batches = Append(b, i)]
           full  == [spent EXCEPT !.stopped = TRUE]
<1>1. fin \in Nat /\ Len(q) \in Nat \ {0} /\ ts \in Nat
  BY DEF Given
<1>2. /\ s \in [budget : Int, batches : Seq(Nat), stopped : BOOLEAN]
      /\ Reached(q, fin, rate, ts, bud, b, c)
      /\ s.stopped => c = Len(q) \/ ~Fits(q, fin, rate, ts, bud, c + 1)
      /\ ~s.stopped => s.budget = bud - P
  BY DEF Found
<1>3. /\ b \in Seq(Nat) /\ c \in fin..Len(q) /\ Lists(b, T) /\ n = Cardinality(T)
      /\ Fits(q, fin, rate, ts, bud, c)
      /\ s.budget \in Int /\ s.stopped \in BOOLEAN
  BY <1>2 DEF Reached
<1>4. /\ n \in Nat /\ c \in Nat /\ T \in SUBSET Nat
      /\ c = fin <=> n = 0
      /\ n # 0 => b[n] = c
  <2> HIDE DEF b, c, T
  <2>1. /\ Len(b) \in Nat /\ c \in Nat /\ Ends(q, fin, rate, c) \in SUBSET Nat
        /\ c = fin <=> Len(b) = 0
        /\ Len(b) # 0 => b[Len(b)] = c
    BY <1>1, <1>2, LastEnd
  <2> QED
    BY <2>1 DEF T
<1>5. i = c + 1 /\ i \in Nat
  <2>1. Reached(q, fin, rate, ts, bud, s.batches, c)
    BY <1>2
  <2>2. CurrentId(fin, s) = c + 1
    <3> HIDE DEF c, b
    <3>1. Reached(q, fin, rate, ts, bud, b, c) /\ s.batches = b /\ Len(q) \in Nat /\ c \in Nat
      BY <1>1, <1>4, <2>1 DEF b
    <3> QED
      BY <1>1, <3>1, CurrentIsNext
  <2>3. i = c + 1
    BY <2>2
  <2> HIDE DEF c
  <2> QED
    BY <1>4, <2>3
<1>6. TakeRequest(q, fin, rate, ts, s) =
        IF s.stopped \/ i > Len(q) \/ q[i].timestamp > ts \/ cost > s.budget
        THEN end
        ELSE IF n # 0 /\ SameBatch(q, i, rate) THEN same
        ELSE IF HasRoom(b) THEN more ELSE full
  <2>1. spent.batches = b
    BY <1>2
  <2> QED
    BY <2>1 DEF TakeRequest, NewBatch
<1> HIDE DEF i, T, P
<1>7. ASSUME ~(i > Len(q))
      PROVE  /\ c < Len(q) /\ cost \in Nat /\ cost = Price(q, rate, c + 1)
             /\ Prices(q, fin, rate, c + 1) = P + cost /\ P \in Nat
             /\ q[i].timestamp \in Nat
  <2>1. c < Len(q) /\ i \in 1..Len(q) /\ c + 1 \in 1..Len(q)
    BY <1>1, <1>4, <1>5, <1>7
  <2>2. cost = Price(q, rate, c + 1) /\ cost \in Nat
    <3>1. cost = Price(q, rate, i)
      BY DEF Price
    <3>2. Price(q, rate, i) \in Nat
      BY <2>1, PriceTyped
    <3> QED
      BY <1>5, <3>1, <3>2
  <2>3. Prices(q, fin, rate, c + 1) = P + Price(q, rate, c + 1) /\ P \in Nat
    <3> HIDE DEF c
    <3> QED
      BY <1>3, <2>1, PricesGrow DEF P
  <2>4. q[i].timestamp \in Nat
    BY <2>1 DEF Given
  <2> QED
    BY <2>1, <2>2, <2>3, <2>4
<1> HIDE DEF c, cost, b, n
<1>8. ASSUME s.stopped \/ i > Len(q) \/ q[i].timestamp > ts \/ cost > s.budget
      PROVE  end \in F
  <2>1. c = Len(q) \/ ~Fits(q, fin, rate, ts, bud, c + 1)
    <3>1. CASE s.stopped
      BY <1>2, <3>1
    <3>2. CASE i > Len(q)
      BY <1>1, <1>3, <1>4, <1>5, <3>2
    <3>3. CASE ~s.stopped /\ ~(i > Len(q))
      <4>1. Fits(q, fin, rate, ts, bud, c + 1) => q[i].timestamp <= ts /\ P + cost <= bud
        BY <1>3, <1>5, <1>7, <3>3, FitsAfter DEF P
      <4>2. q[i].timestamp > ts => ~(q[i].timestamp <= ts)
        BY <1>1, <1>7, <3>3
      <4>3. cost > s.budget => ~(P + cost <= bud)
        BY <1>2, <1>3, <1>7, <3>3
      <4> QED
        BY <1>8, <3>3, <4>1, <4>2, <4>3
    <3> QED
      BY <3>1, <3>2, <3>3
  <2>2. end \in Type /\ end.batches = b /\ end.stopped = TRUE
    BY <1>2 DEF b
  <2> HIDE DEF end
  <2> QED
    BY <1>2, <2>1, <2>2, FoundIf
<1>9. ASSUME ~s.stopped, ~(i > Len(q)), ~(q[i].timestamp > ts), ~(cost > s.budget)
      PROVE  (IF n # 0 /\ SameBatch(q, i, rate) THEN same
              ELSE IF HasRoom(b) THEN more ELSE full) \in F
  <2> DEFINE U == Ends(q, fin, rate, c + 1)
  <2>1. x \in Int /\ x = bud - Prices(q, fin, rate, c + 1) /\ P + cost <= bud
    BY <1>2, <1>3, <1>7, <1>9
  <2>2. Fits(q, fin, rate, ts, bud, c + 1) <=> Cardinality(U) <= MAX_BATCHES_LENGTH
    <3>1. q[c + 1].timestamp <= ts /\ P + Price(q, rate, c + 1) <= bud
      BY <1>1, <1>5, <1>7, <1>9, <2>1
    <3> QED
      BY <1>3, <1>7, <1>9, <3>1, FitsAfter DEF P
  <2>3. n <= MAX_BATCHES_LENGTH /\ MAX_BATCHES_LENGTH \in Nat
    BY <1>3, BatchesAssumption DEF Fits, T
  <2>4. \A y \in T : y < i
    <3>1. T \subseteq fin + 1..c
      BY <1>1, <1>3, <1>4, EndsTyped DEF T
    <3> QED
      BY <1>1, <1>4, <1>5, <3>1
  <2>5. c + 1 \in fin..Len(q) /\ s.stopped = FALSE
    BY <1>1, <1>3, <1>4, <1>7, <1>9
  <2> HIDE DEF x
  <2>0. spent \in Type /\ spent.batches = b /\ spent.budget = x /\ spent.stopped = FALSE
    BY <1>2, <2>1, <2>5 DEF b
  <2> HIDE DEF spent
  <2>6. CASE n # 0 /\ SameBatch(q, i, rate)
    <3> DEFINE d == [b EXCEPT ![n] = i]
    <3>1. fin < c /\ SameBatch(q, c + 1, rate)
      BY <1>1, <1>3, <1>4, <1>5, <2>6
    <3>2. U = (T \ {c}) \cup {c + 1} /\ Cardinality(U) = Cardinality(T)
      BY <1>1, <1>4, <3>1, EndsSame DEF T
    <3>3. Lists(d, U)
      <4>1. Lists([b EXCEPT ![Len(b)] = i], (T \ {b[Len(b)]}) \cup {i})
        BY <1>3, <1>4, <1>5, <2>4, <2>6, ListReplace DEF n
      <4> QED
        BY <1>4, <1>5, <2>6, <3>2, <4>1 DEF n
    <3>4. d \in Seq(Nat) /\ Len(d) = Cardinality(U)
      <4>1. n \in 1..Len(b) /\ n = Len(b)
        BY <1>4, <2>6 DEF n
      <4>2. d \in Seq(Nat) /\ Len(d) = Len(b)
        BY <1>3, <1>5, <4>1, ExceptSeq
      <4> QED
        BY <1>3, <3>2, <4>1, <4>2
    <3>5. Fits(q, fin, rate, ts, bud, c + 1)
      BY <1>3, <2>2, <2>3, <3>2
    <3> HIDE DEF d
    <3>6. Reached(q, fin, rate, ts, bud, d, c + 1)
      BY <2>5, <3>3, <3>4, <3>5 DEF Reached
    <3> DEFINE u == [spent EXCEPT !.batches = d]
    <3>7. u \in Type /\ u.batches = d /\ u.budget = x /\ u.stopped = FALSE
      BY <2>0, <3>4
    <3> HIDE DEF u
    <3>8. u \in F
      BY <2>1, <3>6, <3>7, FoundIf
    <3> QED
      BY <2>6, <3>8 DEF d, u
  <2>7. CASE ~(n # 0 /\ SameBatch(q, i, rate))
    <3>1. U = T \cup {c + 1} /\ Cardinality(U) = Cardinality(T) + 1
      <4>1. c = fin \/ ~SameBatch(q, c + 1, rate)
        BY <1>4, <1>5, <2>7
      <4>2. fin <= c
        BY <1>1, <1>3
      <4> QED
        BY <1>1, <1>4, <4>1, <4>2, EndsNew DEF T
    <3>2. CASE HasRoom(b)
      <4> DEFINE d == Append(b, i)
      <4>1. n < MAX_BATCHES_LENGTH
        BY <3>2 DEF HasRoom, n
      <4>2. Lists(d, U)
        <5>1. Lists(d, T \cup {i})
          BY <1>3, <1>4, <1>5, <2>4, ListAppend
        <5> QED
          BY <1>5, <3>1, <5>1
      <4>3. d \in Seq(Nat) /\ Len(d) = Cardinality(U)
        <5>1. d \in Seq(Nat) /\ Len(d) = Len(b) + 1
          BY <1>3, <1>5, AppendProperties
        <5> QED
          BY <1>3, <3>1, <5>1 DEF n
      <4>4. Fits(q, fin, rate, ts, bud, c + 1)
        BY <1>3, <1>4, <2>2, <2>3, <3>1, <4>1
      <4> HIDE DEF d
      <4>5. Reached(q, fin, rate, ts, bud, d, c + 1)
        BY <2>5, <4>2, <4>3, <4>4 DEF Reached
      <4> DEFINE u == [spent EXCEPT !.batches = d]
      <4>6. u \in Type /\ u.batches = d /\ u.budget = x /\ u.stopped = FALSE
        BY <2>0, <4>3
      <4> HIDE DEF u
      <4>7. u \in F
        BY <2>1, <4>5, <4>6, FoundIf
      <4> QED
        BY <2>7, <3>2, <4>7 DEF d, u
    <3>3. CASE ~HasRoom(b)
      <4>1. ~(n < MAX_BATCHES_LENGTH)
        BY <3>3 DEF HasRoom, n
      <4>2. ~Fits(q, fin, rate, ts, bud, c + 1)
        BY <1>3, <1>4, <2>2, <2>3, <3>1, <4>1
      <4>3. full \in F
        <5>1. full \in Type /\ full.batches = b /\ full.stopped = TRUE
          BY <2>0
        <5> HIDE DEF full
        <5> QED
          BY <1>2, <4>2, <5>1, FoundIf
      <4> QED
        BY <2>7, <3>3, <4>3
    <3> QED
      BY <3>2, <3>3
  <2> QED
    BY <2>6, <2>7
<1> DEFINE stops == s.stopped \/ i > Len(q) \/ q[i].timestamp > ts \/ cost > s.budget
           taken == IF n # 0 /\ SameBatch(q, i, rate) THEN same
                    ELSE IF HasRoom(b) THEN more ELSE full
           turn  == TakeRequest(q, fin, rate, ts, s)
<1>10. /\ turn = IF stops THEN end ELSE taken
       /\ stops => end \in F
       /\ ~stops => taken \in F
  <2>1. stops => end \in F
    BY <1>8
  <2>2. ~stops => taken \in F
    BY <1>9
  <2>3. turn = IF stops THEN end ELSE taken
    BY <1>6
  <2> QED
    BY <2>1, <2>2, <2>3
<1> HIDE DEF stops, taken, turn, end, F
<1>11. turn \in F
  BY <1>10
<1> QED
  BY <1>11 DEF turn, F

\* A call, however many turns it takes.
LEMMA CallFinds ==
  ASSUME NEW q, NEW fin, NEW rate, NEW ts, Given(q, fin, rate, ts), NEW bud \in Nat,
         NEW s \in Found(q, fin, rate, ts, bud), NEW turns \in Nat
  PROVE  CalculateFinalizationBatches(q, fin, rate, ts, turns, s)
           \in Found(q, fin, rate, ts, bud)
<1> DEFINE R == Found(q, fin, rate, ts, bud)
           turn == [t \in R |-> TakeRequest(q, fin, rate, ts, t)]
           f == [k \in 1..turns |-> turn]
           Eq(a) == a = [k \in 0..turns |->
                           IF k = 0 THEN s
                           ELSE TakeRequest(q, fin, rate, ts, a[k - 1])]
<1>1. turn \in [R -> R]
  BY TurnFinds
<1>2. f \in [1..turns -> [R -> R]]
  <2> HIDE DEF turn, R
  <2> QED
    BY <1>1
<1>3. PICK g \in [0..turns -> R] : Iterates(g, s, turns, f)
  <2> HIDE DEF f, R
  <2> QED
    BY <1>2, IterationExists DEF R
<1>4. Eq(g)
  <2>1. g[0] = s
    BY <1>3 DEF Iterates
  <2>2. ASSUME NEW k \in 1..turns PROVE g[k] = TakeRequest(q, fin, rate, ts, g[k - 1])
    <3>1. g[k] = f[k][g[k - 1]] /\ k - 1 \in 0..turns
      BY <1>3 DEF Iterates
    <3>2. g[k - 1] \in R
      BY <3>1
    <3> HIDE DEF R
    <3> QED
      BY <3>1, <3>2
  <2> HIDE DEF R
  <2>3. \A k \in 0..turns : g[k] = IF k = 0 THEN s
                                   ELSE TakeRequest(q, fin, rate, ts, g[k - 1])
    BY <2>1, <2>2
  <2> QED
    BY <2>3
<1> DEFINE v == CHOOSE a : Eq(a)
<1>5. Eq(v)
  <2> HIDE DEF Eq
  <2> QED
    BY <1>4
<1>6. CalculateFinalizationBatches(q, fin, rate, ts, turns, s) = v[turns]
  BY DEF CalculateFinalizationBatches
<1> HIDE DEF v
<1>7. v[0] = s /\ \A k \in 1..turns : v[k] = TakeRequest(q, fin, rate, ts, v[k - 1])
  BY <1>5
<1> DEFINE S == {k \in 0..turns : v[k] \in R}
<1>8. 0..turns \subseteq S
  <2>1. 0 \in S
    BY <1>7
  <2>2. ASSUME NEW k \in 0..turns - 1, v[k] \in R PROVE v[k + 1] \in R
    <3>1. k + 1 \in 1..turns /\ (k + 1) - 1 = k
      OBVIOUS
    <3>2. v[k + 1] = TakeRequest(q, fin, rate, ts, v[k])
      BY <1>7, <3>1
    <3> QED
      BY <2>2, <3>2, TurnFinds
  <2>3. \A k \in 0..turns - 1 : k \in S => k + 1 \in S
    <3> HIDE DEF R
    <3> QED
      BY <2>2
  <2> HIDE DEF S
  <2> QED
    BY <2>1, <2>3, SetInduction
<1>9. v[turns] \in R
  <2> HIDE DEF R
  <2> QED
    BY <1>8
<1> QED
  BY <1>6, <1>9

-------------------------------------------------------------------------------
\* The calls

CalcInv ==
  /\ Given(queue, lastFinalized, maxShareRate, maxTimestamp) /\ Few(queue)
  /\ Len(queue) = QueueLength
  /\ budget \in Nat \ {0} /\ callSize \in Nat \ {0}
  /\ state \in Found(queue, lastFinalized, maxShareRate, maxTimestamp, budget)

\* A sum of the first entries less that of one entry fewer.
LEMMA LastEntry ==
  ASSUME NEW n \in Nat, NEW v \in [1..n -> Nat], NEW i \in 1..n
  PROVE  /\ Sum([k \in 1..i |-> v[k]]) \in Nat
         /\ Sum([k \in 1..i |-> v[k]])
              - (IF i - 1 = 0 THEN 0 ELSE Sum([k \in 1..i - 1 |-> v[k]])) = v[i]
<1> DEFINE m == i - 1
           s == [k \in 1..m |-> v[k]]
           t == [k \in 1..m + 1 |-> v[k]]
<1>1. m \in Nat /\ m + 1 = i /\ i \in 1..m + 1
  OBVIOUS
<1>2. /\ s \in [1..m -> Int] /\ t \in [1..m + 1 -> Int] /\ t[m + 1] = v[i] /\ v[i] \in Nat
      /\ \A k \in 1..m : t[k] = s[k]
      /\ \A k \in 1..m : s[k] >= 0
  OBVIOUS
<1>3. [k \in 1..i |-> v[k]] = t
  BY <1>1
<1> HIDE DEF s, t, m
<1>4. Sum(t) = Sum(s) + t[m + 1] /\ Sum(s) \in Nat
  BY <1>1, <1>2, SumAppend, SumNat
<1>5. m = 0 => Sum(s) = 0
  <2> SUFFICES ASSUME m = 0 PROVE Sum(s) = 0
    OBVIOUS
  <2>1. \A k \in 1..m : s[k] = 0
    OBVIOUS
  <2> QED
    BY <1>1, <1>2, <2>1, SumZero
<1>6. Sum(t) \in Nat /\ Sum(t) - (IF m = 0 THEN 0 ELSE Sum(s)) = v[i]
  BY <1>2, <1>4, <1>5
<1> QED
  BY <1>3, <1>6 DEF m, s

\* The queue that amounts, reports and pools lead to.
LEMMA QueueGiven ==
  ASSUME NEW a \in [1..QueueLength -> Amounts], NEW r \in ReportOrders,
         NEW p \in [1..QueueLength -> Pools], NEW fin \in 0..QueueLength - 1,
         NEW rate \in ShareRates, NEW ts \in 1..QueueLength
  PROVE  /\ Given(QueueOf(a, r, p), fin, rate, ts)
         /\ Len(QueueOf(a, r, p)) = QueueLength
         /\ Few(QueueOf(a, r, p))
<1> DEFINE N == QueueLength
           q == QueueOf(a, r, p)
           v == [k \in 1..N |-> (a[k] * p[r[k]].shares) \div p[r[k]].ether]
<1>1. N \in Nat \ {0} /\ E27_PRECISION_BASE \in Nat \ {0} /\ rate \in Nat \ {0}
  BY CalculationAssumption, BatchesAssumption
<1>2. r \in [1..N -> 1..N]
  BY DEF ReportOrders
<1>3. ASSUME NEW k \in 1..N
      PROVE  /\ a[k] \in Nat \ {0}
             /\ v[k] \in Nat \ {0} /\ v[k] * rate >= E27_PRECISION_BASE
             /\ N * v[k] <= E27_PRECISION_BASE
  <2> DEFINE pool == p[r[k]]
             e == pool.ether
             b == a[k] * pool.shares
             z == b \div e
  <2>1. a[k] \in Amounts /\ a[k] \in Nat \ {0} /\ pool \in Pools
    BY <1>2, CalculationAssumption
  <2>2. e \in Nat \ {0} /\ pool.shares \in Nat \ {0}
    <3>1. pool \in [ether : Nat \ {0}, shares : Nat \ {0}]
      BY <2>1, CalculationAssumption
    <3> QED
      BY <3>1
  <2>3. b \in Nat
    <3> DEFINE u == pool.shares
    <3>1. u \in Nat /\ a[k] \in Nat
      BY <2>1, <2>2
    <3> HIDE DEF u
    <3>2. a[k] * u \in Nat
      BY <3>1, ProductTyped
    <3> QED
      BY <3>2 DEF u
  <2>4. z * rate >= E27_PRECISION_BASE /\ N * z <= E27_PRECISION_BASE
    BY <2>1, AmountAssumption
  <2>5. z \in Nat
    <3> HIDE DEF b, e
    <3> QED
      BY <2>2, <2>3, Quotient
  <2>6. v[k] = z
    OBVIOUS
  <2> HIDE DEF z, v
  <2>7. z # 0
    BY <1>1, <2>4, <2>5
  <2> QED
    BY <2>1, <2>4, <2>5, <2>6, <2>7
<1>4. a \in [1..N -> Nat] /\ v \in [1..N -> Nat]
  <2>1. \A k \in 1..N : a[k] \in Nat /\ v[k] \in Nat
    BY <1>3
  <2> HIDE DEF N
  <2> QED
    BY <2>1 DEF N
<1>5. DOMAIN q = 1..N /\ Len(q) = N
  <2>1. q = [i \in 1..N |-> q[i]]
    BY DEF QueueOf
  <2>2. q \in Seq({q[i] : i \in 1..N})
    <3> HIDE DEF q
    <3> QED
      BY <1>1, <2>1, SeqDef
  <2>3. DOMAIN q = 1..N
    BY DEF QueueOf
  <2> HIDE DEF q
  <2> QED
    BY <1>1, <2>2, <2>3, LenProperties
<1>6. ASSUME NEW i \in 1..N
      PROVE  /\ q[i].cumulativeStETH = Sum([k \in 1..i |-> a[k]])
             /\ q[i].cumulativeShares = Sum([k \in 1..i |-> v[k]])
             /\ q[i].timestamp = r[i]
  <2>1. q[i] = [cumulativeStETH  |-> CumulativeStETH(a, i),
                cumulativeShares |-> CumulativeShares(a, r, p, i),
                timestamp        |-> r[i],
                reportTimestamp  |-> r[i]]
    BY DEF QueueOf
  <2>2. \A k \in 1..i : v[k] = (a[k] * p[r[k]].shares) \div p[r[k]].ether
    BY <1>1
  <2>3. CumulativeShares(a, r, p, i) = Sum([k \in 1..i |-> v[k]])
    <3> HIDE DEF v
    <3>1. [k \in 1..i |-> v[k]]
            = [k \in 1..i |-> (a[k] * p[r[k]].shares) \div p[r[k]].ether]
      BY <2>2
    <3> QED
      BY <3>1 DEF CumulativeShares
  <2> HIDE DEF q, v
  <2> QED
    BY <2>1, <2>3 DEF CumulativeStETH
<1> HIDE DEF q, v
<1>7. ASSUME NEW i \in 1..N
      PROVE  /\ q[i].cumulativeStETH \in Nat /\ q[i].cumulativeShares \in Nat
             /\ StETHIn(q, i - 1, i) = a[i] /\ SharesIn(q, i - 1, i) = v[i]
  <2> DEFINE h == i - 1
             A(j) == Sum([k \in 1..j |-> a[k]])
             S(j) == Sum([k \in 1..j |-> v[k]])
  <2>1. A(i) \in Nat /\ A(i) - (IF h = 0 THEN 0 ELSE A(h)) = a[i]
    BY <1>1, <1>4, LastEntry
  <2>2. S(i) \in Nat /\ S(i) - (IF h = 0 THEN 0 ELSE S(h)) = v[i]
    BY <1>1, <1>4, LastEntry
  <2>3. h # 0 => h \in 1..N
    BY <1>1
  <2>4. q[i].cumulativeStETH = A(i) /\ q[i].cumulativeShares = S(i)
    BY <1>6
  <2>5. h # 0 => q[h].cumulativeStETH = A(h) /\ q[h].cumulativeShares = S(h)
    BY <1>6, <2>3
  <2> HIDE DEF A, S, h
  <2>6. StETHIn(q, h, i) = a[i] /\ SharesIn(q, h, i) = v[i]
    BY <2>1, <2>2, <2>4, <2>5 DEF StETHIn, SharesIn
  <2> QED
    BY <2>1, <2>2, <2>4, <2>6 DEF h
<1>8. ASSUME NEW i \in 1..N
      PROVE  /\ q[i].cumulativeStETH \in Nat /\ q[i].cumulativeShares \in Nat
             /\ q[i].timestamp \in Nat
             /\ StETHIn(q, i - 1, i) \in Nat \ {0}
             /\ SharesIn(q, i - 1, i) \in Nat \ {0}
             /\ SharesIn(q, i - 1, i) * rate >= E27_PRECISION_BASE
  <2>1. r[i] \in Nat
    BY <1>1, <1>2
  <2> QED
    BY <1>3, <1>6, <1>7, <2>1
<1>9. Given(q, fin, rate, ts)
  <2>1. Len(q) \in Nat \ {0} /\ fin \in 0..Len(q) - 1 /\ ts \in Nat /\ 1..Len(q) = 1..N
    BY <1>1, <1>5
  <2>2. \A i \in 1..Len(q) :
          /\ q[i].cumulativeStETH \in Nat /\ q[i].cumulativeShares \in Nat
          /\ q[i].timestamp \in Nat
          /\ StETHIn(q, i - 1, i) \in Nat \ {0}
          /\ SharesIn(q, i - 1, i) \in Nat \ {0}
          /\ SharesIn(q, i - 1, i) * rate >= E27_PRECISION_BASE
    BY <1>8, <2>1
  <2> QED
    BY <1>1, <2>1, <2>2 DEF Given
<1>10. Few(q)
  <2>1. \A i \in 1..N : N * SharesIn(q, i - 1, i) <= E27_PRECISION_BASE
    BY <1>3, <1>7
  <2> QED
    BY <1>5, <2>1 DEF Few
<1> QED
  BY <1>5, <1>9, <1>10 DEF q

\* The calculation starts with nothing taken.
LEMMA StartFound ==
  ASSUME NEW q, NEW fin, NEW rate, NEW ts, Given(q, fin, rate, ts), NEW bud \in Nat
  PROVE  StartState(bud) \in Found(q, fin, rate, ts, bud)
<1> DEFINE s == StartState(bud)
           b == << >>
<1>1. fin \in Nat /\ Len(q) \in Nat /\ fin \in fin..Len(q)
  BY DEF Given
<1>2. /\ s \in [budget : Int, batches : Seq(Nat), stopped : BOOLEAN]
      /\ s.batches = b /\ s.stopped = FALSE /\ s.budget = bud
  BY EmptySeq DEF StartState
<1>3. Ends(q, fin, rate, fin) = {} /\ Cardinality(Ends(q, fin, rate, fin)) = 0
  BY <1>1, EndsStart
<1>4. Prices(q, fin, rate, fin) = 0
  BY <1>1, PricesGrow
<1>5. b \in Seq(Nat) /\ Len(b) = 0 /\ DOMAIN b = {}
  BY EmptySeq, LenProperties
<1>6. Lists(b, {})
  BY <1>5 DEF Lists, Range
<1>7. Fits(q, fin, rate, ts, bud, fin)
  BY <1>1, <1>3, <1>4, BatchesAssumption DEF Fits
<1>8. Reached(q, fin, rate, ts, bud, b, fin)
  BY <1>1, <1>3, <1>5, <1>6, <1>7 DEF Reached
<1> HIDE DEF s, b
<1>9. s \in Found(q, fin, rate, ts, bud)
  BY <1>2, <1>4, <1>8, FoundIf
<1> QED
  BY <1>9 DEF s

LEMMA InitFinds == Init => CalcInv
<1> SUFFICES ASSUME Init PROVE CalcInv
  OBVIOUS
<1>1. PICK a \in [1..QueueLength -> Amounts], r \in ReportOrders,
           p \in [1..QueueLength -> Pools] : queue = QueueOf(a, r, p)
  BY DEF Init
<1>2. /\ lastFinalized \in 0..QueueLength - 1 /\ maxShareRate \in ShareRates
      /\ maxTimestamp \in 1..QueueLength /\ state = StartState(budget)
      /\ budget \in Nat \ {0} /\ callSize \in Nat \ {0}
  BY CalculationAssumption DEF Init
<1>3. /\ Given(queue, lastFinalized, maxShareRate, maxTimestamp)
      /\ Len(queue) = QueueLength /\ Few(queue)
  BY <1>1, <1>2, QueueGiven
<1>4. state \in Found(queue, lastFinalized, maxShareRate, maxTimestamp, budget)
  BY <1>2, <1>3, StartFound
<1> QED
  BY <1>2, <1>3, <1>4 DEF CalcInv

LEMMA NextFinds == CalcInv /\ [Call]_<<given, state>> => CalcInv'
<1> SUFFICES ASSUME CalcInv, [Call]_<<given, state>> PROVE CalcInv'
  OBVIOUS
<1>1. /\ queue' = queue /\ lastFinalized' = lastFinalized /\ maxShareRate' = maxShareRate
      /\ maxTimestamp' = maxTimestamp /\ budget' = budget /\ callSize' = callSize
  BY DEF Call, given
<1>2. state' \in Found(queue, lastFinalized, maxShareRate, maxTimestamp, budget)
  <2>1. CASE Call
    <3>1. state' = CalculateFinalizationBatches(queue, lastFinalized, maxShareRate,
                                                maxTimestamp, callSize, state)
      BY <2>1 DEF Call
    <3>2. callSize \in Nat /\ budget \in Nat
      BY DEF CalcInv
    <3> QED
      BY <3>1, <3>2, CallFinds DEF CalcInv
  <2>2. CASE UNCHANGED <<given, state>>
    BY <2>2 DEF CalcInv
  <2> QED
    BY <2>1, <2>2
<1> QED
  BY <1>1, <1>2 DEF CalcInv

\* The operators of BatchCalculation are those above for its variables.
LEMMA SameOperators ==
  ASSUME NEW k
  PROVE  /\ BatchEnds(k) = Ends(queue, lastFinalized, maxShareRate, k)
         /\ Spent(k) = Prices(queue, lastFinalized, maxShareRate, k)
         /\ Payable(k) <=> Fits(queue, lastFinalized, maxShareRate, maxTimestamp, budget, k)
<1>1. BatchEnds(k) = Ends(queue, lastFinalized, maxShareRate, k)
  BY DEF BatchEnds, Open, Ends
<1>2. Spent(k) = Prices(queue, lastFinalized, maxShareRate, k)
  BY DEF Spent, Cost, Prices, Price
<1> QED
  BY <1>1, <1>2 DEF Payable, Open, Fits

\* When no call is left to make, the requests taken are the longest payable prefix:
\* the next one has a positive price, so that none is left out for an empty budget.
LEMMA TakenIsLast ==
  ASSUME CalcInv, IsRefused(queue, lastFinalized, state)
  PROVE  /\ Reached(queue, lastFinalized, maxShareRate, maxTimestamp, budget, state.batches,
                    LastPayable)
         /\ Payable(LastPayable)
<1> DEFINE q    == queue
           fin  == lastFinalized
           rate == maxShareRate
           ts   == maxTimestamp
           bud  == budget
           i    == CurrentId(fin, state)
           c    == i - 1
           K    == {k \in fin..QueueLength : Payable(k)}
           F(k) == Fits(q, fin, rate, ts, bud, k)
<1>1. /\ Given(q, fin, rate, ts) /\ Len(q) = QueueLength /\ bud \in Nat
      /\ state \in Found(q, fin, rate, ts, bud)
  BY DEF CalcInv
<1>2. /\ Reached(q, fin, rate, ts, bud, state.batches, c)
      /\ state.stopped => c = Len(q) \/ ~F(c + 1)
      /\ ~state.stopped => state.budget = bud - Prices(q, fin, rate, c)
      /\ state.budget \in Int /\ state.stopped \in BOOLEAN
  BY <1>1 DEF Found
<1>3. /\ Len(q) \in Nat /\ fin \in Nat /\ c \in fin..Len(q) /\ c \in Nat /\ F(c)
      /\ state.batches \in Seq(Nat)
  BY <1>1, <1>2 DEF Given, Reached
<1>4. i = c + 1
  <2> DEFINE b == state.batches
             z == c
  <2>1. Reached(q, fin, rate, ts, bud, b, z) /\ state.batches = b /\ z \in Nat
        /\ Len(q) \in Nat /\ fin \in Nat
    BY <1>2, <1>3
  <2> HIDE DEF z, b
  <2>2. CurrentId(fin, state) = z + 1
    BY <2>1, CurrentIsNext
  <2> QED
    BY <2>2 DEF z
<1>5. \A k : Payable(k) <=> F(k)
  BY SameOperators
<1> HIDE DEF q, fin, rate, ts, bud, i, c
<1>6. c = Len(q) \/ ~F(c + 1)
  <2>1. CASE state.stopped
    BY <1>2, <2>1
  <2>2. CASE i > Len(q)
    BY <1>3, <1>4, <2>2
  <2>3. CASE ~state.stopped /\ ~(i > Len(q))
    <3>1. state.budget = 0
      BY <2>3 DEF IsRefused, IsFinished, i, q, fin
    <3> DEFINE P == Prices(q, fin, rate, c)
               w == Price(q, rate, c + 1)
    <3>2. c < Len(q) /\ c + 1 \in 1..Len(q)
      BY <1>3, <1>4, <2>3
    <3>3. P \in Nat /\ Prices(q, fin, rate, c + 1) = P + w /\ w \in Nat \ {0}
      BY <1>1, <1>3, <3>2, PricesGrow, PriceTyped
    <3>4. 0 = bud - P
      BY <1>2, <2>3, <3>1
    <3>5. F(c + 1) => Prices(q, fin, rate, c + 1) <= bud
      BY DEF Fits
    <3> HIDE DEF P, w, F
    <3>6. ~(P + w <= bud)
      BY <1>1, <3>3, <3>4
    <3> QED
      BY <3>3, <3>5, <3>6
  <2> QED
    BY <2>1, <2>2, <2>3
<1>7. c \in K /\ \A k \in K : c >= k
  <2>1. c \in K
    BY <1>1, <1>3, <1>5
  <2>2. ASSUME NEW k \in K PROVE c >= k
    <3>1. k \in fin..Len(q) /\ F(k) /\ k \in Nat
      BY <1>1, <1>3, <1>5
    <3>2. ASSUME c < k PROVE FALSE
      <4>1. c + 1 \in fin..k /\ c # Len(q)
        BY <1>3, <3>1, <3>2
      <4>2. F(c + 1)
        BY <1>1, <3>1, <4>1, PrefixFits
      <4> QED
        BY <1>6, <4>1, <4>2
    <3> QED
      BY <1>3, <3>1, <3>2
  <2> QED
    BY <2>1, <2>2
<1>8. LastPayable = c
  <2> DEFINE m == LastPayable
  <2>1. m = CHOOSE x \in K : \A y \in K : x >= y
    BY DEF LastPayable, Max, fin
  <2>2. K \subseteq fin..QueueLength
    OBVIOUS
  <2> HIDE DEF m, K
  <2>3. m \in K /\ \A y \in K : m >= y
    BY <1>7, <2>1
  <2>4. m >= c /\ c >= m
    BY <1>7, <2>3
  <2>5. m \in Int /\ c \in Int
    BY <1>1, <1>3, <2>2, <2>3
  <2>6. m = c
    BY <2>4, <2>5
  <2> QED
    BY <2>6 DEF m
<1>9. Payable(c)
  BY <1>3, <1>5
<1>10. Reached(queue, lastFinalized, maxShareRate, maxTimestamp, budget, state.batches, c)
  BY <1>2 DEF q, fin, rate, ts, bud
<1> QED
  BY <1>8, <1>9, <1>10

\* The batch calculation: whatever the queue, the line, the budget and the number of
\* requests per call, the calls end with the longest payable prefix of the open
\* requests, cut into batches where the side of the line changes.
THEOREM FindsLongestPrefix == Spec => []LongestPrefixFound
<1>1. CalcInv => LongestPrefixFound
  <2> SUFFICES ASSUME CalcInv, IsRefused(queue, lastFinalized, state)
               PROVE  /\ Range(state.batches) = BatchEnds(LastPayable)
                      /\ \A m, n \in DOMAIN state.batches :
                           m < n => state.batches[m] < state.batches[n]
    BY DEF LongestPrefixFound
  <2>1. Lists(state.batches, BatchEnds(LastPayable))
    BY TakenIsLast, SameOperators DEF Reached
  <2> QED
    BY <2>1 DEF Lists
<1> QED
  BY <1>1, InitFinds, NextFinds, PTL DEF Spec

-------------------------------------------------------------------------------
\* What prefinalize asks for

\* What grows by no more from entry to entry, scaled and with a surplus for each,
\* grows by no more altogether.
LEMMA SpanBound ==
  ASSUME NEW a \in Nat, NEW b \in Nat, a <= b, NEW u, NEW v,
         \A k \in a..b : u[k] \in Int /\ v[k] \in Int,
         NEW m \in Int, NEW n \in Int, NEW e \in Int,
         \A k \in a + 1..b : m * (u[k] - u[k - 1]) + e <= n * (v[k] - v[k - 1])
  PROVE  m * (u[b] - u[a]) + e * (b - a) <= n * (v[b] - v[a])
<1> DEFINE d == m * u[a] + e * a - n * v[a]
           x == [k \in a..b |-> m * u[k] + e * k]
           y == [k \in a..b |-> n * v[k] + d]
<1>1. a \in a..b /\ b \in a..b
  OBVIOUS
<1>2. ASSUME NEW k \in a..b
      PROVE  /\ m * u[k] \in Int /\ n * v[k] \in Int /\ e * k \in Int
             /\ u[k] \in Int /\ v[k] \in Int /\ k \in Int
  <2>1. u[k] \in Int /\ v[k] \in Int /\ k \in Int
    OBVIOUS
  <2> DEFINE s == u[k]
             t == v[k]
  <2> HIDE DEF s, t
  <2>2. m * s \in Int /\ n * t \in Int /\ e * k \in Int
    BY <2>1 DEF s, t
  <2> QED
    BY <2>1, <2>2 DEF s, t
<1>3. d \in Int
  BY <1>1, <1>2
<1> HIDE DEF d
<1>4. \A k \in a..b : /\ x[k] = m * u[k] + e * k /\ y[k] = n * v[k] + d
                      /\ x[k] \in Int /\ y[k] \in Int
  BY <1>2, <1>3
<1> HIDE DEF x, y
<1>5. x[a] <= y[a]
  BY <1>1, <1>2, <1>4 DEF d
<1>6. ASSUME NEW k \in a + 1..b PROVE x[k] - x[k - 1] <= y[k] - y[k - 1]
  <2> DEFINE h == k - 1
             s == u[k]
             z == u[h]
             t == v[k]
             w == v[h]
  <2>1. k \in a..b /\ h \in a..b /\ k = h + 1 /\ h \in Int /\ k \in Int
    OBVIOUS
  <2>2. s \in Int /\ z \in Int /\ t \in Int /\ w \in Int
    BY <1>2, <2>1
  <2>3. m * (s - z) + e <= n * (t - w)
    OBVIOUS
  <2>4. /\ x[k] = m * s + e * k /\ x[h] = m * z + e * h
        /\ y[k] = n * t + d /\ y[h] = n * w + d
    BY <1>4, <2>1
  <2> HIDE DEF s, z, t, w, h
  <2>5. m * (s - z) = m * s - m * z /\ n * (t - w) = n * t - n * w /\ e * k = e * h + e
    BY <2>1, <2>2
  <2>6. m * s \in Int /\ m * z \in Int /\ n * t \in Int /\ n * w \in Int /\ e * h \in Int
    BY <2>1, <2>2
  <2>7. x[k] - x[h] <= y[k] - y[h]
    BY <1>3, <2>3, <2>4, <2>5, <2>6
  <2> QED
    BY <2>7 DEF h
<1>7. x[b] <= y[b]
  BY <1>1, <1>4, <1>5, <1>6, Telescope
<1>8. m * u[b] + e * b <= n * v[b] + (m * u[a] + e * a - n * v[a])
  BY <1>1, <1>4, <1>7 DEF d
<1> QED
  <2> DEFINE s == u[b]
             z == u[a]
             t == v[b]
             w == v[a]
  <2>1. s \in Int /\ z \in Int /\ t \in Int /\ w \in Int
    BY <1>1, <1>2
  <2>2. m * s + e * b <= n * t + (m * z + e * a - n * w)
    BY <1>8
  <2> HIDE DEF s, z, t, w
  <2>3. m * (s - z) = m * s - m * z /\ n * (t - w) = n * t - n * w /\ e * (b - a) = e * b - e * a
    BY <2>1
  <2>4. m * s \in Int /\ m * z \in Int /\ n * t \in Int /\ n * w \in Int
        /\ e * b \in Int /\ e * a \in Int
    BY <2>1
  <2>5. m * (s - z) + e * (b - a) <= n * (t - w)
    BY <2>2, <2>3, <2>4
  <2> QED
    BY <2>5 DEF s, z, t, w

\* Cumulative amounts; request 0 is the dummy.
Amount(q) == [i \in 0..Len(q) |-> IF i = 0 THEN 0 ELSE q[i].cumulativeStETH]
Shares(q) == [i \in 0..Len(q) |-> IF i = 0 THEN 0 ELSE q[i].cumulativeShares]

\* Every range asks for some shares.
LEMMA RangeGiven ==
  ASSUME NEW q, NEW fin, NEW rate, NEW ts, Given(q, fin, rate, ts),
         NEW pre \in 0..Len(q), NEW end \in 0..Len(q), pre < end
  PROVE  /\ Len(q) \in Nat
         /\ \A i \in 0..Len(q) : Amount(q)[i] \in Nat /\ Shares(q)[i] \in Nat
         /\ StETHIn(q, pre, end) = Amount(q)[end] - Amount(q)[pre]
         /\ SharesIn(q, pre, end) = Shares(q)[end] - Shares(q)[pre]
         /\ StETHIn(q, pre, end) \in Nat \ {0} /\ SharesIn(q, pre, end) \in Nat \ {0}
<1> DEFINE A == Amount(q)
           S == Shares(q)
           Z == [i \in 0..Len(q) |-> 0]
<1>1. Len(q) \in Nat \ {0}
  BY DEF Given
<1>2. ASSUME NEW i \in 0..Len(q) PROVE A[i] \in Nat /\ S[i] \in Nat
  <2>1. CASE i = 0
    BY <2>1 DEF Amount, Shares
  <2>2. CASE i # 0
    <3>1. i \in 1..Len(q)
      BY <1>1, <2>2
    <3> QED
      BY <2>2, <3>1 DEF Amount, Shares, Given
  <2> QED
    BY <2>1, <2>2
<1>3. ASSUME NEW i \in 0..Len(q), NEW j \in 1..Len(q)
      PROVE  StETHIn(q, i, j) = A[j] - A[i] /\ SharesIn(q, i, j) = S[j] - S[i]
  <2>1. j # 0 /\ j \in 0..Len(q)
    BY <1>1
  <2> QED
    BY <2>1 DEF Amount, Shares, StETHIn, SharesIn
<1>4. end \in 1..Len(q) /\ pre \in Nat /\ end \in Nat /\ pre <= end
  BY <1>1
<1>5. ASSUME NEW k \in pre + 1..end
      PROVE  /\ k \in 0..Len(q) /\ k - 1 \in 0..Len(q)
             /\ 1 <= A[k] - A[k - 1] /\ 1 <= S[k] - S[k - 1]
  <2>1. k \in 1..Len(q) /\ k - 1 \in 0..Len(q) /\ k \in 0..Len(q)
    BY <1>1, <1>4
  <2>2. StETHIn(q, k - 1, k) \in Nat \ {0} /\ SharesIn(q, k - 1, k) \in Nat \ {0}
    BY <2>1 DEF Given
  <2>3. StETHIn(q, k - 1, k) = A[k] - A[k - 1] /\ SharesIn(q, k - 1, k) = S[k] - S[k - 1]
    BY <1>3, <2>1
  <2> HIDE DEF A, S
  <2> QED
    BY <2>1, <2>2, <2>3
<1> HIDE DEF A, S
<1>6. 1 <= A[end] - A[pre] /\ 1 <= S[end] - S[pre]
  <2> DEFINE z == 0
             o == 1
  <2>1. z \in Int /\ o \in Int /\ z = 0 /\ o = 1
    OBVIOUS
  <2>2. \A k \in pre..end : k \in 0..Len(q)
    BY <1>1, <1>4
  <2>3. \A k \in pre..end : Z[k] \in Int /\ Z[k] = 0 /\ A[k] \in Int /\ S[k] \in Int
    BY <1>2, <2>2
  <2> HIDE DEF z, o, Z
  <2>4. \A k \in pre + 1..end : /\ z * (Z[k] - Z[k - 1]) + o <= o * (A[k] - A[k - 1])
                               /\ z * (Z[k] - Z[k - 1]) + o <= o * (S[k] - S[k - 1])
    <3> SUFFICES ASSUME NEW k \in pre + 1..end
                 PROVE  /\ z * (Z[k] - Z[k - 1]) + o <= o * (A[k] - A[k - 1])
                        /\ z * (Z[k] - Z[k - 1]) + o <= o * (S[k] - S[k - 1])
      OBVIOUS
    <3>1. k \in pre..end /\ k - 1 \in pre..end
      BY <1>4
    <3>2. /\ Z[k] = 0 /\ Z[k - 1] = 0 /\ 1 <= A[k] - A[k - 1] /\ 1 <= S[k] - S[k - 1]
          /\ A[k] \in Int /\ A[k - 1] \in Int /\ S[k] \in Int /\ S[k - 1] \in Int
      BY <1>5, <2>3, <3>1
    <3> QED
      BY <2>1, <3>2
  <2>5. z * (Z[end] - Z[pre]) + o * (end - pre) <= o * (A[end] - A[pre])
    BY <1>4, <2>1, <2>3, <2>4, SpanBound
  <2>6. z * (Z[end] - Z[pre]) + o * (end - pre) <= o * (S[end] - S[pre])
    BY <1>4, <2>1, <2>3, <2>4, SpanBound
  <2>7. /\ Z[end] \in Int /\ Z[pre] \in Int /\ A[end] \in Int /\ A[pre] \in Int
        /\ S[end] \in Int /\ S[pre] \in Int
    BY <1>4, <2>3
  <2> QED
    BY <1>4, <2>1, <2>5, <2>6, <2>7
<1>7. StETHIn(q, pre, end) = A[end] - A[pre] /\ SharesIn(q, pre, end) = S[end] - S[pre]
  BY <1>3, <1>4
<1>8. A[end] \in Nat /\ A[pre] \in Nat /\ S[end] \in Nat /\ S[pre] \in Nat
  BY <1>2
<1>9. StETHIn(q, pre, end) \in Nat \ {0} /\ SharesIn(q, pre, end) \in Nat \ {0}
  BY <1>6, <1>7, <1>8
<1> QED
  BY <1>1, <1>2, <1>7, <1>9 DEF A, S

\* Few shares in a queue are few in each range of it.
LEMMA FewShares ==
  ASSUME NEW q, NEW fin, NEW rate, NEW ts, Given(q, fin, rate, ts), Few(q),
         NEW pre \in 0..Len(q), NEW end \in 0..Len(q), pre < end
  PROVE  SharesIn(q, pre, end) <= E27_PRECISION_BASE
<1> DEFINE E == E27_PRECISION_BASE
           N == Len(q)
           H == Shares(q)
           I == [k \in 0..N |-> k]
           s == H[end] - H[pre]
           l == end - pre
<1>1. /\ N \in Nat \ {0} /\ E \in Nat /\ pre \in Nat /\ end \in Nat /\ pre <= end
      /\ \A k \in pre..end : k \in 0..N
  BY BatchesAssumption DEF Given
<1>2. \A k \in pre..end : H[k] \in Int /\ I[k] \in Int /\ I[k] = k
  <2>1. \A k \in pre..end : H[k] \in Nat
    BY <1>1, RangeGiven
  <2> QED
    BY <1>1, <2>1
<1>3. SharesIn(q, pre, end) = s /\ s \in Nat
  BY RangeGiven
<1> HIDE DEF E, H, I, N
<1>4. \A k \in pre + 1..end : N * (H[k] - H[k - 1]) + 0 <= E * (I[k] - I[k - 1])
  <2> SUFFICES ASSUME NEW k \in pre + 1..end
               PROVE  N * (H[k] - H[k - 1]) + 0 <= E * (I[k] - I[k - 1])
    OBVIOUS
  <2> DEFINE x == H[k] - H[k - 1]
             y == I[k] - I[k - 1]
  <2>1. k \in 1..N /\ k - 1 \in 0..N /\ k \in 0..N /\ k - 1 < k
        /\ k \in pre..end /\ k - 1 \in pre..end
    BY <1>1
  <2>2. SharesIn(q, k - 1, k) = x /\ x \in Nat
    BY <2>1, RangeGiven DEF H, N
  <2>3. N * SharesIn(q, k - 1, k) <= E
    BY <2>1 DEF Few, N, E
  <2>4. y = 1
    BY <1>2, <2>1
  <2>5. N * x \in Int
    BY <1>1, <2>2
  <2> HIDE DEF x, y
  <2>6. N * x + 0 <= E * y
    BY <1>1, <2>2, <2>3, <2>4, <2>5
  <2> QED
    BY <2>6 DEF x, y
<1>5. N * (H[end] - H[pre]) + 0 * (end - pre) <= E * (I[end] - I[pre])
  <2> DEFINE o == 0
  <2>1. /\ o \in Int /\ N \in Int /\ E \in Int
        /\ \A k \in pre + 1..end : N * (H[k] - H[k - 1]) + o <= E * (I[k] - I[k - 1])
        /\ \A k \in pre..end : H[k] \in Int /\ I[k] \in Int
    BY <1>1, <1>2, <1>4
  <2> HIDE DEF o
  <2>2. N * (H[end] - H[pre]) + o * (end - pre) <= E * (I[end] - I[pre])
    BY <1>1, <2>1, SpanBound
  <2> QED
    BY <2>2 DEF o
<1>6. I[end] - I[pre] = l /\ l \in Nat /\ l <= N
  <2>1. pre \in pre..end /\ end \in pre..end
    BY <1>1
  <2>2. I[end] = end /\ I[pre] = pre
    BY <1>2, <2>1
  <2>3. pre \in 0..N /\ end \in 0..N
    BY <1>1, <2>1
  <2> QED
    BY <1>1, <2>2, <2>3
<1> HIDE DEF s, l
<1>7. N * s <= E * l
  <2>1. N * s + 0 * (end - pre) <= E * l
    BY <1>5, <1>6 DEF s
  <2>2. 0 * (end - pre) = 0 /\ N * s \in Int
    BY <1>1, <1>3
  <2> QED
    BY <2>1, <2>2
<1>8. E * l <= N * E
  BY <1>1, <1>6
<1>9. N * s <= N * E
  <2>1. N * s \in Int /\ E * l \in Int /\ N * E \in Int
    BY <1>1, <1>3, <1>6
  <2> QED
    BY <1>7, <1>8, <2>1
<1>10. s <= E
  BY <1>1, <1>3, <1>9
<1> QED
  BY <1>3, <1>10 DEF E

\* Requests of one report are on one side of the line.
Sided(q, fin, rate) ==
  \A i \in fin + 2..Len(q) :
    q[i - 1].reportTimestamp = q[i].reportTimestamp
      => (IsDiscounted(q, i - 2, i - 1, rate) <=> IsDiscounted(q, i - 1, i, rate))

\* What the requests cost up to and including each of them.
Costs(q, fin, rate) == [k \in fin..Len(q) |-> Prices(q, fin, rate, k)]

LEMMA CostsGrow ==
  ASSUME NEW q, NEW fin, NEW rate, NEW ts, Given(q, fin, rate, ts)
  PROVE  /\ \A k \in fin..Len(q) : /\ Costs(q, fin, rate)[k] \in Nat
                                   /\ Costs(q, fin, rate)[k] = Prices(q, fin, rate, k)
         /\ Costs(q, fin, rate)[fin] = 0
         /\ \A k \in fin + 1..Len(q) : Costs(q, fin, rate)[k] - Costs(q, fin, rate)[k - 1]
                                         = EtherFor(q, k - 1, k, rate)
<1> DEFINE V == Costs(q, fin, rate)
<1>1. fin \in Nat /\ Len(q) \in Nat /\ fin \in fin..Len(q)
  BY DEF Given
<1>2. \A k \in fin..Len(q) : V[k] \in Nat /\ V[k] = Prices(q, fin, rate, k)
  BY PricesGrow DEF Costs
<1>3. V[fin] = 0
  BY <1>1, <1>2, PricesGrow
<1>4. ASSUME NEW k \in fin + 1..Len(q) PROVE V[k] - V[k - 1] = EtherFor(q, k - 1, k, rate)
  <2> DEFINE h == k - 1
             w == EtherFor(q, h, h + 1, rate)
  <2>1. h \in fin..Len(q) /\ h < Len(q) /\ h + 1 = k /\ k \in fin..Len(q)
        /\ k \in 1..Len(q) /\ h + 1 \in fin..Len(q)
    BY <1>1
  <2>2. Prices(q, fin, rate, h + 1) = Prices(q, fin, rate, h) + Price(q, rate, h + 1)
    <3> HIDE DEF h
    <3> QED
      BY <2>1, PricesGrow
  <2>3. Price(q, rate, h + 1) = w
    <3>1. (h + 1) - 1 = h
      BY <2>1
    <3> QED
      BY <3>1 DEF Price
  <2>4. V[h + 1] = V[h] + w /\ V[h] \in Nat /\ V[h + 1] \in Nat
    <3> HIDE DEF h, w, V
    <3> QED
      BY <1>2, <2>1, <2>2, <2>3
  <2>5. w = V[h + 1] - V[h]
    <3>1. w \in Nat
      BY <2>1, <2>3, PriceTyped
    <3> HIDE DEF w, V
    <3> QED
      BY <2>4, <3>1
  <2> QED
    BY <2>1, <2>5
<1> QED
  BY <1>2, <1>3, <1>4

\* One entry of a range: its share of the sums, and its price.
LEMMA EntryGiven ==
  ASSUME NEW q, NEW fin, NEW rate, NEW ts, Given(q, fin, rate, ts), NEW k \in fin + 1..Len(q)
  PROVE  LET V == Costs(q, fin, rate)
             w == V[k] - V[k - 1]
             a == Amount(q)[k] - Amount(q)[k - 1]
             s == Shares(q)[k] - Shares(q)[k - 1]
             E == E27_PRECISION_BASE
         IN /\ w \in Nat /\ a \in Nat /\ s \in Nat /\ w <= a
            /\ IsDiscounted(q, k - 1, k, rate)
                 => E * w <= s * rate /\ s * rate < E * w + E /\ s * (rate + 1) <= a * E
            /\ ~IsDiscounted(q, k - 1, k, rate) => w = a /\ a * E < s * (rate + 1)
<1> DEFINE E == E27_PRECISION_BASE
           h == k - 1
           A == StETHIn(q, h, k)
           S == SharesIn(q, h, k)
           W == EtherFor(q, h, k, rate)
           w == Costs(q, fin, rate)[k] - Costs(q, fin, rate)[h]
           a == Amount(q)[k] - Amount(q)[h]
           s == Shares(q)[k] - Shares(q)[h]
           d == IsDiscounted(q, h, k, rate)
<1>1. /\ fin \in Nat /\ Len(q) \in Nat /\ rate \in Nat
      /\ h \in 0..Len(q) /\ k \in 0..Len(q) /\ h < k
  BY DEF Given
<1>2. A = a /\ S = s /\ A \in Nat \ {0} /\ S \in Nat \ {0}
  <2> HIDE DEF h
  <2> QED
    BY <1>1, RangeGiven
<1>3. w = W
  BY CostsGrow
<1>4. /\ W \in Nat /\ W <= A
      /\ d => E * W <= S * rate /\ S * rate < E * W + E /\ S * (rate + 1) <= A * E
      /\ ~d => W = A /\ A * E < S * (rate + 1)
  <2> HIDE DEF h
  <2> QED
    BY <1>1, <1>2, RangePrice
<1> HIDE DEF E, A, S, W, w, a, s, d
<1>5. /\ w \in Nat /\ a \in Nat /\ s \in Nat /\ w <= a
      /\ d => E * w <= s * rate /\ s * rate < E * w + E /\ s * (rate + 1) <= a * E
      /\ ~d => w = a /\ a * E < s * (rate + 1)
  BY <1>2, <1>3, <1>4
<1> QED
  BY <1>5 DEF E, w, a, s, d, h

\* A batch of discounted requests is worth no more than they are one by one, but for
\* a wei for each.
LEMMA DiscountedBatch ==
  ASSUME NEW q, NEW fin, NEW rate, NEW ts, Given(q, fin, rate, ts),
         NEW pre \in fin..Len(q), NEW end \in fin..Len(q), pre < end,
         \A k \in pre + 1..end : IsDiscounted(q, k - 1, k, rate)
  PROVE  LET D == Costs(q, fin, rate)[end] - Costs(q, fin, rate)[pre]
             W == EtherFor(q, pre, end, rate)
         IN W <= D + (end - pre)
<1> DEFINE E == E27_PRECISION_BASE
           V == Costs(q, fin, rate)
           U == Amount(q)
           H == Shares(q)
           D == V[end] - V[pre]
           a == U[end] - U[pre]
           s == H[end] - H[pre]
           W == EtherFor(q, pre, end, rate)
           l == end - pre
           d == IsDiscounted(q, pre, end, rate)
           r == rate + 1
           e == 1 - E
<1>1. /\ fin \in Nat /\ Len(q) \in Nat /\ rate \in Nat /\ E \in Nat \ {0}
      /\ pre \in 0..Len(q) /\ end \in 0..Len(q) /\ pre \in Nat /\ end \in Nat /\ pre <= end
  BY BatchesAssumption DEF Given
<1>2. /\ a = StETHIn(q, pre, end) /\ s = SharesIn(q, pre, end)
      /\ a \in Nat /\ s \in Nat \ {0}
  BY <1>1, RangeGiven
<1>3. /\ W \in Nat
      /\ d => E * W <= s * rate
      /\ ~d => a * E < s * r
  BY <1>1, <1>2, RangePrice
<1>4. \A k \in pre..end : V[k] \in Int /\ U[k] \in Int /\ H[k] \in Int
  <2> SUFFICES ASSUME NEW k \in pre..end PROVE V[k] \in Int /\ U[k] \in Int /\ H[k] \in Int
    OBVIOUS
  <2>1. k \in fin..Len(q) /\ k \in 0..Len(q)
    BY <1>1
  <2>2. V[k] \in Nat
    BY <2>1, CostsGrow
  <2>3. U[k] \in Nat /\ H[k] \in Nat
    BY <1>1, <2>1, RangeGiven
  <2> QED
    BY <2>2, <2>3
<1> HIDE DEF E, V, U, H, W, d
<1>5. r \in Int /\ e \in Int /\ E \in Int /\ rate \in Int /\ 0 \in Int
  BY <1>1
<1>6. /\ \A k \in pre + 1..end : rate * (H[k] - H[k - 1]) + e <= E * (V[k] - V[k - 1])
      /\ \A k \in pre + 1..end : r * (H[k] - H[k - 1]) + 0 <= E * (U[k] - U[k - 1])
  <2> SUFFICES ASSUME NEW k \in pre + 1..end
               PROVE  /\ rate * (H[k] - H[k - 1]) + e <= E * (V[k] - V[k - 1])
                      /\ r * (H[k] - H[k - 1]) + 0 <= E * (U[k] - U[k - 1])
    OBVIOUS
  <2> DEFINE x == V[k] - V[k - 1]
             y == U[k] - U[k - 1]
             z == H[k] - H[k - 1]
  <2>1. k \in fin + 1..Len(q) /\ IsDiscounted(q, k - 1, k, rate)
    BY <1>1
  <2>2. /\ x \in Nat /\ y \in Nat /\ z \in Nat
        /\ E * x <= z * rate /\ z * rate < E * x + E /\ z * (rate + 1) <= y * E
    BY <2>1, EntryGiven DEF E, V, U, H
  <2> HIDE DEF x, y, z
  <2>3. z * rate = rate * z /\ z * (rate + 1) = r * z /\ y * E = E * y
    BY <1>1, <2>2
  <2>4. E * x \in Int /\ rate * z \in Int /\ r * z \in Int /\ E * y \in Int
    BY <1>1, <1>5, <2>2
  <2>5. rate * z + e <= E * x /\ r * z + 0 <= E * y
    <3> HIDE DEF r
    <3> QED
      BY <1>1, <2>2, <2>3, <2>4
  <2> QED
    BY <2>5 DEF x, y, z
<1> HIDE DEF r, e
<1>7. /\ rate * (H[end] - H[pre]) + e * (end - pre) <= E * (V[end] - V[pre])
      /\ r * (H[end] - H[pre]) + 0 * (end - pre) <= E * (U[end] - U[pre])
  <2> DEFINE o == 0
  <2>1. /\ o \in Int
        /\ \A k \in pre + 1..end : r * (H[k] - H[k - 1]) + o <= E * (U[k] - U[k - 1])
    BY <1>6
  <2> HIDE DEF o
  <2>2. rate * (H[end] - H[pre]) + e * (end - pre) <= E * (V[end] - V[pre])
    BY <1>1, <1>4, <1>5, <1>6, SpanBound
  <2>3. r * (H[end] - H[pre]) + o * (end - pre) <= E * (U[end] - U[pre])
    BY <1>1, <1>4, <1>5, <2>1, SpanBound
  <2> QED
    BY <2>2, <2>3 DEF o
<1>8. D \in Int /\ a \in Int /\ s \in Int /\ l \in Nat /\ pre \in pre..end /\ end \in pre..end
  <2>1. pre \in pre..end /\ end \in pre..end
    BY <1>1
  <2> QED
    BY <1>1, <1>4, <2>1
<1> HIDE DEF D, a, s, l
<1>9. rate * s + e * l <= E * D /\ r * s <= E * a
  <2>1. rate * s + e * l <= E * D /\ r * s + 0 * l <= E * a
    BY <1>7 DEF D, a, s, l
  <2>2. 0 * l = 0 /\ E * D \in Int /\ r * s \in Int
    BY <1>5, <1>8
  <2> QED
    BY <2>1, <2>2
<1>10. d
  <2>1. a * E = E * a /\ s * r = r * s /\ a * E \in Int /\ s * r \in Int
    BY <1>5, <1>8
  <2> QED
    BY <1>3, <1>9, <2>1
<1>11. E * W <= E * (D + l)
  <2>1. s * rate = rate * s /\ E * (D + l) = E * D + E * l /\ e * l = l - E * l
    BY <1>1, <1>8 DEF e
  <2>2. s * rate \in Int /\ E * D \in Int /\ E * W \in Int /\ E * l \in Int
    BY <1>1, <1>3, <1>8
  <2> QED
    BY <1>3, <1>8, <1>9, <1>10, <2>1, <2>2
<1>12. W <= D + l
  BY <1>1, <1>3, <1>8, <1>11
<1> QED
  BY <1>12 DEF D, W, l, V

\* A batch of requests that are not discounted is not, and is worth the same as them.
LEMMA NominalBatch ==
  ASSUME NEW q, NEW fin, NEW rate, NEW ts, Given(q, fin, rate, ts),
         NEW pre \in fin..Len(q), NEW end \in fin..Len(q), pre < end,
         \A k \in pre + 1..end : ~IsDiscounted(q, k - 1, k, rate)
  PROVE  EtherFor(q, pre, end, rate) = Costs(q, fin, rate)[end] - Costs(q, fin, rate)[pre]
<1> DEFINE E == E27_PRECISION_BASE
           V == Costs(q, fin, rate)
           U == Amount(q)
           H == Shares(q)
           D == V[end] - V[pre]
           a == U[end] - U[pre]
           s == H[end] - H[pre]
           W == EtherFor(q, pre, end, rate)
           l == end - pre
           d == IsDiscounted(q, pre, end, rate)
           r == rate + 1
<1>1. /\ fin \in Nat /\ Len(q) \in Nat /\ rate \in Nat /\ E \in Nat \ {0}
      /\ pre \in 0..Len(q) /\ end \in 0..Len(q) /\ pre \in Nat /\ end \in Nat /\ pre <= end
  BY BatchesAssumption DEF Given
<1>2. /\ a = StETHIn(q, pre, end) /\ s = SharesIn(q, pre, end)
      /\ a \in Nat /\ s \in Nat \ {0}
  BY <1>1, RangeGiven
<1>3. /\ d => s * r <= a * E
      /\ ~d => W = a
  BY <1>1, <1>2, RangePrice
<1>4. \A k \in pre..end : V[k] \in Int /\ U[k] \in Int /\ H[k] \in Int
  <2> SUFFICES ASSUME NEW k \in pre..end PROVE V[k] \in Int /\ U[k] \in Int /\ H[k] \in Int
    OBVIOUS
  <2>1. k \in fin..Len(q) /\ k \in 0..Len(q)
    BY <1>1
  <2>2. V[k] \in Nat
    BY <2>1, CostsGrow
  <2>3. U[k] \in Nat /\ H[k] \in Nat
    BY <1>1, <2>1, RangeGiven
  <2> QED
    BY <2>2, <2>3
<1> HIDE DEF E, V, U, H, W, d
<1>5. r \in Int /\ E \in Int
  BY <1>1
<1>6. /\ \A k \in pre + 1..end : 1 * (V[k] - V[k - 1]) + 0 <= 1 * (U[k] - U[k - 1])
      /\ \A k \in pre + 1..end : 1 * (U[k] - U[k - 1]) + 0 <= 1 * (V[k] - V[k - 1])
      /\ \A k \in pre + 1..end : E * (U[k] - U[k - 1]) + 1 <= r * (H[k] - H[k - 1])
  <2> SUFFICES ASSUME NEW k \in pre + 1..end
               PROVE  /\ 1 * (V[k] - V[k - 1]) + 0 <= 1 * (U[k] - U[k - 1])
                      /\ 1 * (U[k] - U[k - 1]) + 0 <= 1 * (V[k] - V[k - 1])
                      /\ E * (U[k] - U[k - 1]) + 1 <= r * (H[k] - H[k - 1])
    OBVIOUS
  <2> DEFINE x == V[k] - V[k - 1]
             y == U[k] - U[k - 1]
             z == H[k] - H[k - 1]
  <2>1. k \in fin + 1..Len(q) /\ ~IsDiscounted(q, k - 1, k, rate)
    BY <1>1
  <2>2. x \in Nat /\ y \in Nat /\ z \in Nat /\ x = y /\ y * E < z * (rate + 1)
    BY <2>1, EntryGiven DEF E, V, U, H
  <2> HIDE DEF x, y, z
  <2>3. z * (rate + 1) = r * z /\ y * E = E * y
    BY <1>1, <2>2
  <2>4. r * z \in Int /\ E * y \in Int
    BY <1>1, <1>5, <2>2
  <2>5. 1 * x + 0 <= 1 * y /\ 1 * y + 0 <= 1 * x /\ E * y + 1 <= r * z
    <3> HIDE DEF r
    <3> QED
      BY <1>1, <2>2, <2>3, <2>4
  <2> QED
    BY <2>5 DEF x, y, z
<1> HIDE DEF r
<1>7. /\ 1 * (V[end] - V[pre]) + 0 * (end - pre) <= 1 * (U[end] - U[pre])
      /\ 1 * (U[end] - U[pre]) + 0 * (end - pre) <= 1 * (V[end] - V[pre])
      /\ E * (U[end] - U[pre]) + 1 * (end - pre) <= r * (H[end] - H[pre])
  <2> DEFINE o == 0
             j == 1
  <2>1. o \in Int /\ j \in Int
        /\ \A k \in pre + 1..end :
             /\ j * (V[k] - V[k - 1]) + o <= j * (U[k] - U[k - 1])
             /\ j * (U[k] - U[k - 1]) + o <= j * (V[k] - V[k - 1])
             /\ E * (U[k] - U[k - 1]) + j <= r * (H[k] - H[k - 1])
    BY <1>6
  <2> HIDE DEF o, j
  <2>2. j * (V[end] - V[pre]) + o * (end - pre) <= j * (U[end] - U[pre])
    BY <1>1, <1>4, <1>5, <2>1, SpanBound
  <2>3. j * (U[end] - U[pre]) + o * (end - pre) <= j * (V[end] - V[pre])
    BY <1>1, <1>4, <1>5, <2>1, SpanBound
  <2>4. E * (U[end] - U[pre]) + j * (end - pre) <= r * (H[end] - H[pre])
    BY <1>1, <1>4, <1>5, <2>1, SpanBound
  <2> QED
    BY <2>2, <2>3, <2>4 DEF o, j
<1>8. D \in Int /\ a \in Int /\ s \in Int /\ l \in Nat /\ l # 0
  <2>1. pre \in pre..end /\ end \in pre..end
    BY <1>1
  <2> QED
    BY <1>1, <1>4, <2>1
<1> HIDE DEF D, a, s, l
<1>9. D = a /\ E * a < r * s
  <2>1. 1 * D + 0 * l <= 1 * a /\ 1 * a + 0 * l <= 1 * D /\ E * a + 1 * l <= r * s
    BY <1>7 DEF D, a, s, l
  <2>2. E * a \in Int /\ r * s \in Int
    BY <1>5, <1>8
  <2> QED
    BY <1>8, <2>1, <2>2
<1>10. ~d
  <2>1. a * E = E * a /\ s * r = r * s /\ a * E \in Int /\ s * r \in Int
    BY <1>5, <1>8
  <2> QED
    BY <1>3, <1>9, <2>1
<1> QED
  BY <1>3, <1>9, <1>10 DEF D, W, V

\* Whatever requests are in a batch, it is worth at least what they are worth one by
\* one, but for a wei.
LEMMA BatchNotLess ==
  ASSUME NEW q, NEW fin, NEW rate, NEW ts, Given(q, fin, rate, ts),
         NEW pre \in fin..Len(q), NEW end \in fin..Len(q), pre < end,
         SharesIn(q, pre, end) <= E27_PRECISION_BASE
  PROVE  Costs(q, fin, rate)[end] - Costs(q, fin, rate)[pre] <= EtherFor(q, pre, end, rate) + 1
<1> DEFINE E == E27_PRECISION_BASE
           V == Costs(q, fin, rate)
           U == Amount(q)
           H == Shares(q)
           D == V[end] - V[pre]
           a == U[end] - U[pre]
           s == H[end] - H[pre]
           W == EtherFor(q, pre, end, rate)
           d == IsDiscounted(q, pre, end, rate)
           r == rate + 1
<1>1. /\ fin \in Nat /\ Len(q) \in Nat /\ rate \in Nat /\ E \in Nat \ {0}
      /\ pre \in 0..Len(q) /\ end \in 0..Len(q) /\ pre \in Nat /\ end \in Nat /\ pre <= end
  BY BatchesAssumption DEF Given
<1>2. /\ a = StETHIn(q, pre, end) /\ s = SharesIn(q, pre, end)
      /\ a \in Nat /\ s \in Nat \ {0} /\ s <= E
  BY <1>1, RangeGiven
<1>3. /\ W \in Nat
      /\ d => s * rate < E * W + E
      /\ ~d => W = a
  BY <1>1, <1>2, RangePrice
<1>4. \A k \in pre..end : V[k] \in Int /\ U[k] \in Int /\ H[k] \in Int
  <2> SUFFICES ASSUME NEW k \in pre..end PROVE V[k] \in Int /\ U[k] \in Int /\ H[k] \in Int
    OBVIOUS
  <2>1. k \in fin..Len(q) /\ k \in 0..Len(q)
    BY <1>1
  <2>2. V[k] \in Nat
    BY <2>1, CostsGrow
  <2>3. U[k] \in Nat /\ H[k] \in Nat
    BY <1>1, <2>1, RangeGiven
  <2> QED
    BY <2>2, <2>3
<1> HIDE DEF E, V, U, H, W, d
<1>5. r \in Int /\ E \in Int
  BY <1>1
<1>6. /\ \A k \in pre + 1..end : 1 * (V[k] - V[k - 1]) + 0 <= 1 * (U[k] - U[k - 1])
      /\ \A k \in pre + 1..end : E * (V[k] - V[k - 1]) + 0 <= r * (H[k] - H[k - 1])
  <2> SUFFICES ASSUME NEW k \in pre + 1..end
               PROVE  /\ 1 * (V[k] - V[k - 1]) + 0 <= 1 * (U[k] - U[k - 1])
                      /\ E * (V[k] - V[k - 1]) + 0 <= r * (H[k] - H[k - 1])
    OBVIOUS
  <2> DEFINE x == V[k] - V[k - 1]
             y == U[k] - U[k - 1]
             z == H[k] - H[k - 1]
             f == IsDiscounted(q, k - 1, k, rate)
  <2>1. k \in fin + 1..Len(q)
    BY <1>1
  <2>2. /\ x \in Nat /\ y \in Nat /\ z \in Nat /\ x <= y
        /\ f => E * x <= z * rate
        /\ ~f => x = y /\ y * E < z * (rate + 1)
    BY <2>1, EntryGiven DEF E, V, U, H
  <2> HIDE DEF x, y, z, f
  <2>3. z * (rate + 1) = r * z /\ z * rate + z = r * z /\ y * E = E * y
    BY <1>1, <2>2
  <2>4. r * z \in Int /\ E * y \in Int /\ z * rate \in Int
    BY <1>1, <1>5, <2>2
  <2>5. E * x <= r * z
    <3> HIDE DEF r
    <3>1. CASE f
      <4>1. E * x <= z * rate /\ E * x \in Int
        BY <1>1, <2>2, <3>1
      <4> DEFINE g == z * rate
                 h == r * z
                 i == E * x
      <4>2. i <= g /\ g + z = h /\ g \in Int /\ h \in Int /\ i \in Int /\ z \in Nat
        BY <2>2, <2>3, <2>4, <4>1
      <4> HIDE DEF g, h, i
      <4>3. i <= h
        BY <4>2
      <4> QED
        BY <4>3 DEF h, i
    <3>2. CASE ~f
      <4> DEFINE h == r * z
                 i == E * y
      <4>1. i < h /\ h \in Int /\ i \in Int
        BY <2>2, <2>3, <2>4, <3>2
      <4> HIDE DEF h, i
      <4>2. i <= h
        BY <4>1
      <4> QED
        BY <2>2, <3>2, <4>2 DEF h, i
    <3> QED
      BY <3>1, <3>2
  <2>6. 1 * x + 0 <= 1 * y /\ E * x + 0 <= r * z
    <3> HIDE DEF r
    <3>1. E * x \in Int
      BY <1>1, <2>2
    <3> QED
      BY <2>2, <2>5, <3>1
  <2> QED
    BY <2>6 DEF x, y, z
<1> HIDE DEF r
<1>7. /\ 1 * (V[end] - V[pre]) + 0 * (end - pre) <= 1 * (U[end] - U[pre])
      /\ E * (V[end] - V[pre]) + 0 * (end - pre) <= r * (H[end] - H[pre])
  <2> DEFINE o == 0
             j == 1
  <2>1. o \in Int /\ j \in Int
        /\ \A k \in pre + 1..end :
             /\ j * (V[k] - V[k - 1]) + o <= j * (U[k] - U[k - 1])
             /\ E * (V[k] - V[k - 1]) + o <= r * (H[k] - H[k - 1])
    BY <1>6
  <2> HIDE DEF o, j
  <2>2. j * (V[end] - V[pre]) + o * (end - pre) <= j * (U[end] - U[pre])
    BY <1>1, <1>4, <1>5, <2>1, SpanBound
  <2>3. E * (V[end] - V[pre]) + o * (end - pre) <= r * (H[end] - H[pre])
    BY <1>1, <1>4, <1>5, <2>1, SpanBound
  <2> QED
    BY <2>2, <2>3 DEF o, j
<1>8. D \in Int /\ a \in Int /\ s \in Int
  <2>1. pre \in pre..end /\ end \in pre..end
    BY <1>1
  <2> QED
    BY <1>1, <1>4, <2>1
<1>9. D <= a /\ E * D <= r * s
  <2> DEFINE l == end - pre
  <2>1. l \in Int
    BY <1>1
  <2> HIDE DEF D, a, s, l
  <2>2. 1 * D + 0 * l <= 1 * a /\ E * D + 0 * l <= r * s
    BY <1>7 DEF D, a, s, l
  <2>3. E * D \in Int /\ r * s \in Int
    BY <1>5, <1>8
  <2> QED
    BY <1>8, <2>1, <2>2, <2>3
<1> HIDE DEF D, a, s
<1>10. CASE d
  <2>1. r * s = s * rate + s /\ E * (W + 2) = E * W + E + E
    BY <1>1, <1>3, <1>8 DEF r
  <2>2. s * rate \in Int /\ E * D \in Int /\ E * W \in Int
    BY <1>1, <1>3, <1>8
  <2>3. E * D < E * (W + 2)
    <3> DEFINE x == E * D
               y == E * W
               z == s * rate
               v == r * s
    <3>1. x <= v /\ v = z + s /\ z < y + E /\ s <= E
      BY <1>2, <1>3, <1>9, <1>10, <2>1 DEF s
    <3>2. x \in Int /\ y \in Int /\ z \in Int /\ s \in Int /\ E \in Int /\ E * (W + 2) = y + E + E
      BY <1>1, <1>8, <2>1, <2>2
    <3> HIDE DEF x, y, z, v
    <3>3. x < y + E + E
      BY <3>1, <3>2
    <3> QED
      BY <3>2, <3>3 DEF x
  <2>4. D < W + 2
    BY <1>1, <1>3, <1>8, <2>3
  <2> QED
    BY <1>3, <1>8, <2>4 DEF D, W, V
<1>11. CASE ~d
  <2>1. D <= W + 1
    BY <1>3, <1>8, <1>9, <1>11
  <2> QED
    BY <2>1 DEF D, W, V
<1> QED
  BY <1>10, <1>11

\* Where the batches of a prefix begin and end.  A batch never spans two sides of
\* the line, unless the requests of one report do.
LEMMA BatchSpan ==
  ASSUME NEW q, NEW fin, NEW rate, NEW ts, Given(q, fin, rate, ts), NEW bud, NEW b, NEW c,
         Reached(q, fin, rate, ts, bud, b, c), NEW n \in 1..Len(b)
  PROVE  LET pre == BatchStart(fin, b, n)
         IN /\ pre \in fin..c /\ b[n] \in fin + 1..c /\ pre < b[n]
            /\ \A i \in pre + 1..b[n] - 1 : i < c /\ SameBatch(q, i + 1, rate)
<1> DEFINE T == Ends(q, fin, rate, c)
           pre == BatchStart(fin, b, n)
           e == b[n]
<1>1. /\ fin \in Nat /\ Len(q) \in Nat /\ c \in fin..Len(q) /\ c \in Nat
      /\ b \in Seq(Nat) /\ DOMAIN b = 1..Len(b) /\ Len(b) \in Nat
      /\ Lists(b, T)
  <2>1. fin \in Nat /\ Len(q) \in Nat /\ c \in fin..Len(q) /\ b \in Seq(Nat) /\ Lists(b, T)
    BY DEF Given, Reached
  <2> QED
    BY <2>1, LenProperties
<1>2. /\ T \subseteq fin + 1..c
      /\ \A i \in fin + 1..c : i \notin T => i # c /\ SameBatch(q, i + 1, rate)
  BY DEF Ends
<1>3. \A m \in 1..Len(b) : b[m] \in T /\ b[m] \in fin + 1..c /\ b[m] \in Nat
  <2> SUFFICES ASSUME NEW m \in 1..Len(b)
               PROVE  b[m] \in T /\ b[m] \in fin + 1..c /\ b[m] \in Nat
    OBVIOUS
  <2>1. b[m] \in T
    BY <1>1 DEF Lists, Range
  <2> QED
    BY <1>1, <1>2, <2>1
<1>4. \A i \in T : \E m \in 1..Len(b) : b[m] = i
  BY <1>1 DEF Lists, Range
<1>5. \A k, m \in 1..Len(b) : k < m => b[k] < b[m]
  BY <1>1 DEF Lists
<1> HIDE DEF T
<1>6. pre \in fin..c /\ pre \in Nat /\ pre < e /\ \A k \in 1..Len(b) : k < n => b[k] <= pre
  <2>1. CASE n = 1
    <3>1. pre = fin
      BY <2>1 DEF BatchStart
    <3> HIDE DEF pre
    <3> QED
      BY <1>1, <1>3, <2>1, <3>1
  <2>2. CASE n # 1
    <3> DEFINE m == n - 1
    <3>1. pre = b[m] /\ m \in 1..Len(b) /\ m < n
      BY <1>1, <2>2 DEF BatchStart
    <3>2. \A k \in 1..Len(b) : k < n => k = m \/ k < m
      BY <1>1
    <3> HIDE DEF pre, m
    <3> QED
      BY <1>1, <1>3, <1>5, <3>1, <3>2
  <2> QED
    BY <2>1, <2>2
<1>7. ASSUME NEW i \in pre + 1..e - 1 PROVE i < c /\ SameBatch(q, i + 1, rate)
  <2> HIDE DEF pre
  <2>1. e \in fin + 1..c /\ e \in Nat
    BY <1>3
  <2> DEFINE z == e
  <2> HIDE DEF z
  <2>2. i \in fin + 1..c /\ i < c /\ i \in Int /\ pre < i /\ i < e
    BY <1>1, <1>6, <2>1
  <2>3. i \notin T
    <3> SUFFICES ASSUME i \in T PROVE FALSE
      OBVIOUS
    <3>1. PICK m \in 1..Len(b) : b[m] = i
      BY <1>4
    <3>2. m < n \/ m = n \/ n < m
      BY <1>1
    <3>3. m < n => i <= pre
      BY <1>6, <3>1
    <3>4. n < m => e < i
      BY <1>5, <3>1
    <3> QED
      BY <1>6, <2>1, <2>2, <3>1, <3>2, <3>3, <3>4
  <2> QED
    BY <1>2, <2>2, <2>3
<1>8. e \in fin + 1..c
  BY <1>3
<1> QED
  BY <1>6, <1>7, <1>8

\* If the requests of a report are on one side of the line, so are those of a batch,
\* and it is worth no more than they are one by one, but for a wei for each.
LEMMA BatchPrice ==
  ASSUME NEW q, NEW fin, NEW rate, NEW ts, Given(q, fin, rate, ts), Sided(q, fin, rate),
         NEW pre \in fin..Len(q), NEW end \in fin + 1..Len(q), pre < end,
         \A i \in pre + 1..end - 1 : SameBatch(q, i + 1, rate)
  PROVE  LET D == Costs(q, fin, rate)[end] - Costs(q, fin, rate)[pre]
             W == EtherFor(q, pre, end, rate)
         IN W <= D + (end - pre)
<1> DEFINE V == Costs(q, fin, rate)
           d(i) == IsDiscounted(q, i - 1, i, rate)
           side == d(pre + 1)
           l == end - pre - 1
           S == {k \in 0..l : d(pre + 1 + k) <=> side}
<1>1. /\ fin \in Nat /\ Len(q) \in Nat /\ pre \in Nat /\ end \in Nat /\ l \in Nat
      /\ fin <= pre /\ end <= Len(q) /\ end \in fin..Len(q) /\ pre + 1 + l = end
  BY DEF Given
<1>2. ASSUME NEW i \in pre + 1..end - 1 PROVE d(i) <=> d(i + 1)
  <2>1. i + 1 \in fin + 2..Len(q) /\ i \in Int
    BY <1>1
  <2> DEFINE j == i + 1
  <2>2. SameBatch(q, j, rate)
    OBVIOUS
  <2>3. /\ j \in fin + 2..Len(q) /\ j - 1 = i /\ j - 2 = i - 1
    BY <2>1
  <2> HIDE DEF j
  <2>4. IsDiscounted(q, j - 2, j - 1, rate) <=> IsDiscounted(q, j - 1, j, rate)
    BY <2>2, <2>3 DEF SameBatch, Sided
  <2>5. IsDiscounted(q, i - 1, i, rate) <=> IsDiscounted(q, j - 1, j, rate)
    BY <2>3, <2>4
  <2> QED
    BY <2>5 DEF j
<1>3. 0..l \subseteq S
  <2>1. 0 \in S
    <3>1. pre + 1 + 0 = pre + 1 /\ 0 \in 0..l
      BY <1>1
    <3> QED
      BY <3>1
  <2>2. ASSUME NEW k \in 0..l - 1, k \in S PROVE k + 1 \in S
    <3> DEFINE i == pre + 1 + k
    <3>1. i \in pre + 1..end - 1 /\ k + 1 \in 0..l /\ pre + 1 + (k + 1) = i + 1
      BY <1>1
    <3>2. d(i) <=> side
      BY <2>2
    <3> HIDE DEF i, side
    <3>3. d(i) <=> d(i + 1)
      BY <1>2, <3>1
    <3> HIDE DEF d
    <3>4. d(pre + 1 + (k + 1)) <=> side
      BY <3>1, <3>2, <3>3
    <3> QED
      BY <3>1, <3>4
  <2> HIDE DEF S
  <2> QED
    BY <1>1, <2>1, <2>2, SetInduction
<1>4. ASSUME NEW i \in pre + 1..end PROVE d(i) <=> side
  <2> DEFINE k == i - pre - 1
  <2>1. k \in 0..l /\ pre + 1 + k = i
    BY <1>1
  <2> HIDE DEF k, side, d
  <2>2. k \in S
    BY <1>3, <2>1
  <2> QED
    BY <2>1, <2>2
<1>5. CASE side
  <2>1. \A i \in pre + 1..end : IsDiscounted(q, i - 1, i, rate)
    BY <1>4, <1>5
  <2> QED
    BY <1>1, <2>1, DiscountedBatch
<1>6. CASE ~side
  <2> DEFINE W == EtherFor(q, pre, end, rate)
  <2>1. \A i \in pre + 1..end : ~IsDiscounted(q, i - 1, i, rate)
    BY <1>4, <1>6
  <2>2. W = V[end] - V[pre]
    BY <1>1, <2>1, NominalBatch
  <2>3. V[end] \in Nat /\ V[pre] \in Nat
    BY <1>1, CostsGrow
  <2> HIDE DEF V, W
  <2>4. W <= V[end] - V[pre] + (end - pre)
    BY <1>1, <2>2, <2>3
  <2> QED
    BY <2>4 DEF V, W
<1> QED
  BY <1>5, <1>6

\* What is asked for batch by batch.
LEMMA BatchSums ==
  ASSUME NEW q, NEW fin, NEW rate, NEW ts, Given(q, fin, rate, ts), NEW bud, NEW b, NEW c,
         Reached(q, fin, rate, ts, bud, b, c), b # << >>
  PROVE  LET P == Prefinalize(q, fin, b, rate)
             C == Prices(q, fin, rate, c)
         IN /\ P \in Nat
            /\ P <= StETHIn(q, fin, c)
            /\ Few(q) => C <= P + (c - fin)
            /\ Sided(q, fin, rate) => P <= C + (c - fin)
<1> DEFINE N == Len(b)
           V == Costs(q, fin, rate)
           U == Amount(q)
           at == [k \in 0..N |-> IF k = 0 THEN fin ELSE b[k]]
           s == [k \in 1..N |-> EtherFor(q, BatchStart(fin, b, k), b[k], rate)]
<1>1. /\ fin \in Nat /\ Len(q) \in Nat /\ c \in fin..Len(q) /\ c \in Nat
      /\ rate \in Nat /\ b \in Seq(Nat) /\ DOMAIN b = 1..N /\ N \in Nat
  <2>1. /\ fin \in Nat /\ Len(q) \in Nat /\ c \in fin..Len(q) /\ rate \in Nat
        /\ b \in Seq(Nat)
    BY DEF Given, Reached
  <2> QED
    BY <2>1, LenProperties
<1>2. N # 0 /\ b[N] = c /\ c # fin
  BY <1>1, LastEnd
<1>3. ASSUME NEW k \in 1..N
      PROVE  /\ at[k] = b[k] /\ at[k - 1] = BatchStart(fin, b, k)
             /\ at[k] \in fin + 1..c /\ at[k - 1] \in fin..c /\ at[k - 1] < at[k]
             /\ \A i \in at[k - 1] + 1..at[k] - 1 : SameBatch(q, i + 1, rate)
  <2> DEFINE pre == BatchStart(fin, b, k)
  <2>1. k # 0 /\ k - 1 \in 0..N /\ k \in 0..N /\ k \in Nat /\ (k - 1 = 0 <=> k = 1)
    BY <1>1
  <2>2. at[k] = b[k] /\ at[k - 1] = pre
    BY <2>1 DEF BatchStart
  <2>3. /\ pre \in fin..c /\ b[k] \in fin + 1..c /\ pre < b[k]
        /\ \A i \in pre + 1..b[k] - 1 : SameBatch(q, i + 1, rate)
    BY BatchSpan
  <2> HIDE DEF at, pre
  <2>4. /\ at[k] \in fin + 1..c /\ at[k - 1] \in fin..c /\ at[k - 1] < at[k]
        /\ \A i \in at[k - 1] + 1..at[k] - 1 : SameBatch(q, i + 1, rate)
    BY <2>2, <2>3
  <2> QED
    BY <2>2, <2>4 DEF pre
<1>4. at[0] = fin /\ at[N] = c
  BY <1>1, <1>2
<1>5. \A k \in 0..N : at[k] \in fin..c
  <2> SUFFICES ASSUME NEW k \in 0..N PROVE at[k] \in fin..c
    OBVIOUS
  <2>1. fin \in fin..c
    BY <1>1
  <2>2. k = 0 \/ k \in 1..N
    BY <1>1
  <2>3. \A z \in fin + 1..c : z \in fin..c
    BY <1>1
  <2> HIDE DEF at
  <2> QED
    BY <1>3, <1>4, <2>1, <2>2, <2>3
<1> HIDE DEF at
<1>6. \A z \in fin..c : /\ z \in fin..Len(q) /\ z \in 0..Len(q) /\ z \in Nat
                       /\ V[z] \in Nat /\ U[z] \in Nat
  <2> SUFFICES ASSUME NEW z \in fin..c
               PROVE  /\ z \in fin..Len(q) /\ z \in 0..Len(q) /\ z \in Nat
                      /\ V[z] \in Nat /\ U[z] \in Nat
    OBVIOUS
  <2>1. z \in fin..Len(q) /\ z \in 0..Len(q) /\ z \in Nat
    BY <1>1
  <2>2. V[z] \in Nat
    BY <2>1, CostsGrow
  <2>3. U[z] \in Nat
    <3>1. fin \in 0..Len(q) /\ c \in 0..Len(q) /\ fin < c
      BY <1>1, <1>2
    <3> QED
      BY <2>1, <3>1, RangeGiven
  <2> QED
    BY <2>1, <2>2, <2>3
<1>7. ASSUME NEW k \in 1..N
      PROVE  /\ s[k] \in Nat
             /\ s[k] <= U[at[k]] - U[at[k - 1]]
             /\ Few(q) => V[at[k]] - V[at[k - 1]] <= s[k] + (at[k] - at[k - 1])
             /\ Sided(q, fin, rate)
                  => s[k] <= V[at[k]] - V[at[k - 1]] + (at[k] - at[k - 1])
  <2> DEFINE x == at[k - 1]
             y == at[k]
             w == EtherFor(q, x, y, rate)
  <2>1. /\ x \in fin..c /\ y \in fin + 1..c /\ x < y
        /\ \A i \in x + 1..y - 1 : SameBatch(q, i + 1, rate)
    BY <1>3
  <2>2. s[k] = w
    BY <1>3
  <2> HIDE DEF x, y
  <2>3. /\ x \in fin..Len(q) /\ x \in 0..Len(q) /\ y \in 0..Len(q) /\ y \in fin + 1..Len(q)
    BY <1>1, <2>1
  <2>4. /\ StETHIn(q, x, y) = U[y] - U[x]
        /\ StETHIn(q, x, y) \in Nat \ {0} /\ SharesIn(q, x, y) \in Nat \ {0}
    BY <2>1, <2>3, RangeGiven
  <2>5. w \in Nat /\ w <= U[y] - U[x]
    BY <1>1, <2>4, RangePrice
  <2>6. Sided(q, fin, rate) => w <= V[y] - V[x] + (y - x)
    BY <2>1, <2>3, BatchPrice
  <2>7. ASSUME Few(q) PROVE V[y] - V[x] <= w + (y - x)
    <3>1. SharesIn(q, x, y) <= E27_PRECISION_BASE
      BY <2>1, <2>3, <2>7, FewShares
    <3>2. x \in fin..c /\ y \in fin..c /\ y \in fin..Len(q)
      BY <1>1, <2>1, <2>3
    <3>3. V[y] - V[x] <= w + 1
      BY <2>1, <2>3, <3>1, <3>2, BatchNotLess
    <3>4. V[x] \in Nat /\ V[y] \in Nat /\ x \in Nat /\ y \in Nat
      BY <1>6, <3>2
    <3> HIDE DEF w, V
    <3> QED
      BY <2>1, <2>5, <3>3, <3>4
  <2> HIDE DEF w, V, U, s
  <2> QED
    BY <2>2, <2>5, <2>6, <2>7 DEF x, y
<1>8. Prefinalize(q, fin, b, rate) = Sum(s)
  BY <1>1 DEF Prefinalize
<1>9. s \in [1..N -> Int]
  <2>1. \A k \in 1..N : s[k] \in Int
    BY <1>7
  <2> QED
    BY <2>1
<1> HIDE DEF s
<1>10. PICK g \in [0..N -> Int] : /\ g[0] = 0
                                  /\ \A k \in 1..N : g[k] = g[k - 1] + s[k]
                                  /\ g[N] = Sum(s)
  BY <1>1, <1>9, SumIterates
<1> DEFINE Z(k) == /\ g[k] >= 0
                   /\ g[k] <= U[at[k]] - U[fin]
                   /\ Few(q) => V[at[k]] <= g[k] + (at[k] - fin)
                   /\ Sided(q, fin, rate) => g[k] <= V[at[k]] + (at[k] - fin)
           S == {k \in 0..N : Z(k)}
<1>11. 0 \in S
  <2>1. V[fin] = 0 /\ U[fin] \in Nat /\ 0 \in 0..N
    <3>1. V[fin] = 0
      BY CostsGrow
    <3>2. fin \in fin..c
      BY <1>1
    <3> QED
      BY <1>1, <1>6, <3>1, <3>2
  <2> HIDE DEF V, U
  <2>2. Z(0)
    BY <1>1, <1>4, <1>10, <2>1
  <2> QED
    BY <2>1, <2>2
<1>12. ASSUME NEW k \in 0..N - 1, k \in S PROVE k + 1 \in S
  <2> DEFINE j == k + 1
  <2>1. j \in 1..N /\ j \in 0..N /\ k \in 0..N /\ j - 1 = k
    BY <1>1
  <2> HIDE DEF V, U, j
  <2> DEFINE x == at[k]
             y == at[j]
             gk == g[k]
             gj == g[j]
             Vx == V[x]
             Vy == V[y]
             Ux == U[x]
             Uy == U[y]
             Uf == U[fin]
             w == s[j]
  <2>2. gj = gk + w /\ gk \in Int /\ gj \in Int /\ w \in Int
    BY <1>9, <1>10, <2>1
  <2>3. /\ x \in fin..c /\ y \in fin..c /\ fin \in fin..c
    BY <1>1, <1>5, <2>1
  <2>4. /\ Vx \in Nat /\ Vy \in Nat /\ Ux \in Nat /\ Uy \in Nat /\ Uf \in Nat
        /\ x \in Nat /\ y \in Nat
    <3> HIDE DEF x, y
    <3> QED
      BY <1>6, <2>3
  <2>5. /\ w \in Nat /\ w <= Uy - Ux
        /\ Few(q) => Vy - Vx <= w + (y - x)
        /\ Sided(q, fin, rate) => w <= Vy - Vx + (y - x)
    BY <1>7, <2>1
  <2>6. /\ gk >= 0 /\ gk <= Ux - Uf
        /\ Few(q) => Vx <= gk + (x - fin)
        /\ Sided(q, fin, rate) => gk <= Vx + (x - fin)
    BY <1>12
  <2> HIDE DEF x, y, gk, gj, Vx, Vy, Ux, Uy, Uf, w
  <2>7. gj >= 0 /\ gj <= Uy - Uf
    BY <2>2, <2>4, <2>5, <2>6
  <2>8. ASSUME Few(q) PROVE Vy <= gj + (y - fin)
    BY <1>1, <2>2, <2>4, <2>5, <2>6, <2>8
  <2>9. ASSUME Sided(q, fin, rate) PROVE gj <= Vy + (y - fin)
    BY <1>1, <2>2, <2>4, <2>5, <2>6, <2>9
  <2>10. Z(j)
    BY <2>7, <2>8, <2>9 DEF gj, Uy, Uf, Vy, y
  <2>11. j \in S
    BY <2>1, <2>10
  <2> QED
    BY <2>11 DEF j
<1>13. 0..N \subseteq S
  <2> HIDE DEF S
  <2> QED
    BY <1>1, <1>11, <1>12, SetInduction
<1>14. Z(N)
  <2>1. N \in 0..N
    BY <1>1
  <2> QED
    BY <1>13, <2>1
<1> QED
  <2> DEFINE P == Prefinalize(q, fin, b, rate)
             C == Prices(q, fin, rate, c)
             A == StETHIn(q, fin, c)
  <2>1. c \in fin..c /\ c \in fin..Len(q) /\ fin \in 0..Len(q) /\ c \in 0..Len(q) /\ fin < c
    BY <1>1, <1>2
  <2>2. P = g[N] /\ g[N] \in Int
    BY <1>1, <1>8, <1>10
  <2>3. C = V[c]
    BY <2>1, CostsGrow
  <2>4. A = U[c] - U[fin]
    BY <2>1, RangeGiven
  <2> HIDE DEF P, C, A, V, U
  <2>5. /\ g[N] >= 0 /\ g[N] <= U[c] - U[fin]
        /\ Few(q) => V[c] <= g[N] + (c - fin)
        /\ Sided(q, fin, rate) => g[N] <= V[c] + (c - fin)
    BY <1>4, <1>14
  <2>6. /\ P \in Nat /\ P <= A
        /\ Few(q) => C <= P + (c - fin)
        /\ Sided(q, fin, rate) => P <= C + (c - fin)
    BY <2>2, <2>3, <2>4, <2>5
  <2> QED
    BY <2>6 DEF P, C, A

\* What prefinalize asks for, whatever the queue, the line, the budget and the number
\* of requests per call: no more than the requests asked for, so that _finalize accepts
\* it, no less than was taken off the budget but for a wei for each request, and
\* no more than that if the requests of a report are on one side of the line.
THEOREM AskedMatchesBudget == Spec => []EtherMatchesBudget
<1>1. CalcInv => EtherMatchesBudget
  <2> DEFINE c == LastPayable
             b == state.batches
             P == Prefinalize(queue, lastFinalized, b, maxShareRate)
  <2> SUFFICES ASSUME CalcInv, IsRefused(queue, lastFinalized, state), b # << >>
               PROVE  /\ P <= StETHIn(queue, lastFinalized, c)
                      /\ P >= Spent(c) - Dust
                      /\ OneSided => P <= Spent(c) + Dust
    BY DEF EtherMatchesBudget
  <2>1. Reached(queue, lastFinalized, maxShareRate, maxTimestamp, budget, b, c)
    BY TakenIsLast
  <2>2. /\ Given(queue, lastFinalized, maxShareRate, maxTimestamp) /\ Few(queue)
        /\ Len(queue) = QueueLength
    BY DEF CalcInv
  <2>3. /\ lastFinalized \in Nat /\ c \in lastFinalized..Len(queue) /\ c \in Nat
        /\ Dust = c - lastFinalized
    BY <2>1, <2>2 DEF Reached, Given, Dust
  <2>4. Spent(c) = Prices(queue, lastFinalized, maxShareRate, c)
    BY SameOperators
  <2>5. OneSided <=> Sided(queue, lastFinalized, maxShareRate)
    BY <2>2 DEF OneSided, Sided
  <2>6. Prices(queue, lastFinalized, maxShareRate, c) \in Nat
    BY <2>2, <2>3, PricesGrow
  <2> DEFINE C == Prices(queue, lastFinalized, maxShareRate, c)
             A == StETHIn(queue, lastFinalized, c)
  <2> HIDE DEF c, b
  <2>7. /\ P \in Nat /\ P <= A
        /\ Few(queue) => C <= P + (c - lastFinalized)
        /\ Sided(queue, lastFinalized, maxShareRate) => P <= C + (c - lastFinalized)
    BY <2>1, <2>2, BatchSums
  <2> HIDE DEF P, C, A
  <2>8. C \in Nat /\ Spent(c) = C
    BY <2>4, <2>6 DEF C
  <2>9. P >= C - (c - lastFinalized)
    BY <2>2, <2>3, <2>7, <2>8
  <2> QED
    BY <2>3, <2>5, <2>7, <2>8, <2>9 DEF A
<1> QED
  BY <1>1, InitFinds, NextFinds, PTL DEF Spec
===================================================================================
