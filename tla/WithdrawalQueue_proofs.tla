------------------------- MODULE WithdrawalQueue_proofs ---------------------------
(***************************************************************************)
(* The withdrawal queue, for any owners, amounts, pools, budgets and       *)
(* number of requests: the types of its state, the owner index, the hint   *)
(* of each finalized request, the ether locked for the claims, and that    *)
(* the queue implements WithdrawalEscrow.                                  *)
(*                                                                         *)
(* Prices are quotients, so most of the work is in how they round: that of *)
(* one range of requests (PriceBounds), of a batch against its requests    *)
(* (BatchCovers) and of a report against what it makes owed (BatchesCover).*)
(***************************************************************************)
EXTENDS WithdrawalQueue, Foundations

-------------------------------------------------------------------------------
\* Amounts and shares of ranges of the queue

CumStETH(q, i) == IF i = 0 THEN 0 ELSE q[i].cumulativeStETH

CumShares(q, i) == IF i = 0 THEN 0 ELSE q[i].cumulativeShares

\* Every request asks for some stETH and some shares.
Rising(q) ==
  \A i, j \in 0..Len(q) :
    i < j => CumStETH(q, i) < CumStETH(q, j) /\ CumShares(q, i) < CumShares(q, j)

\* The later queue has the requests of the earlier one, whoever owns them now.
Continues(p, q) ==
  /\ Len(q) <= Len(p)
  /\ \A i \in 1..Len(q) : /\ p[i].cumulativeStETH = q[i].cumulativeStETH
                          /\ p[i].cumulativeShares = q[i].cumulativeShares

LEMMA CumTyped ==
  ASSUME NEW q \in Seq(Request), NEW i \in 0..Len(q)
  PROVE  CumStETH(q, i) \in Nat /\ CumShares(q, i) \in Nat
<1>1. CASE i = 0
  BY <1>1 DEF CumStETH, CumShares
<1>2. CASE i # 0
  <2>1. q[i] \in Request
    BY <1>2, ElementOfSeq, LenProperties
  <2> QED
    BY <1>2, <2>1 DEF CumStETH, CumShares, Request
<1> QED
  BY <1>1, <1>2

\* What a range is priced with.
LEMMA RangeTyped ==
  ASSUME NEW q \in Seq(Request), Rising(q), NEW pre \in 0..Len(q), NEW end \in 0..Len(q),
         pre < end
  PROVE  /\ StETHIn(q, pre, end) = CumStETH(q, end) - CumStETH(q, pre)
         /\ SharesIn(q, pre, end) = CumShares(q, end) - CumShares(q, pre)
         /\ StETHIn(q, pre, end) \in Nat \ {0} /\ SharesIn(q, pre, end) \in Nat \ {0}
<1>1. end # 0
  BY LenProperties
<1>2. StETHIn(q, pre, end) = CumStETH(q, end) - CumStETH(q, pre)
  BY <1>1 DEF StETHIn, CumStETH
<1>3. SharesIn(q, pre, end) = CumShares(q, end) - CumShares(q, pre)
  BY <1>1 DEF SharesIn, CumShares
<1>4. CumStETH(q, pre) < CumStETH(q, end) /\ CumShares(q, pre) < CumShares(q, end)
  BY DEF Rising
<1> QED
  BY <1>2, <1>3, <1>4, CumTyped

\* A range that is discounted is worth its shares at the rate, rounded down, one
\* that is not is worth its stETH, which is less than its shares are worth at the
\* next rate up.  No range is worth more than its stETH.
LEMMA PriceBounds ==
  ASSUME NEW q \in Seq(Request), Rising(q), NEW pre \in 0..Len(q), NEW end \in 0..Len(q),
         pre < end, NEW rate \in Nat
  PROVE  LET E == E27_PRECISION_BASE
             S == SharesIn(q, pre, end)
             A == StETHIn(q, pre, end)
             w == EtherFor(q, pre, end, rate)
         IN /\ w \in Nat /\ w <= A
            /\ IsDiscounted(q, pre, end, rate) => E * w <= S * rate /\ S * rate < E * w + E
            /\ ~IsDiscounted(q, pre, end, rate) => w = A /\ E * w < S * rate + S
<1> DEFINE E == E27_PRECISION_BASE
           S == SharesIn(q, pre, end)
           A == StETHIn(q, pre, end)
           w == EtherFor(q, pre, end, rate)
           r == (A * E) \div S
           v == (S * rate) \div E
<1>1. E \in Nat \ {0} /\ S \in Nat \ {0} /\ A \in Nat \ {0}
  BY BatchesAssumption, RangeTyped
<1>2. IsDiscounted(q, pre, end, rate) <=> r > rate
  BY DEF IsDiscounted, ShareRate
<1>3. w = IF r > rate THEN v ELSE A
  BY <1>2 DEF EtherFor
<1> HIDE DEF E, S, A, w
<1>4. A * E \in Nat /\ S * rate \in Nat
  BY <1>1
<1>5. /\ r \in Nat /\ S * r <= A * E /\ A * E < S * r + S
      /\ v \in Nat /\ E * v <= S * rate /\ S * rate < E * v + E
  <2> DEFINE a == A * E
             b == S * rate
  <2>1. a \in Nat /\ b \in Nat
    BY <1>4
  <2> HIDE DEF a, b
  <2>2. a \div S \in Nat /\ S * (a \div S) <= a /\ a < S * (a \div S) + S
    BY <1>1, <2>1, Quotient
  <2>3. b \div E \in Nat /\ E * (b \div E) <= b /\ b < E * (b \div E) + E
    BY <1>1, <2>1, Quotient
  <2> QED
    BY <2>2, <2>3 DEF a, b
<1> HIDE DEF r, v
<1>6. CASE r > rate
  <2>1. S * rate <= S * r
    BY <1>1, <1>5, <1>6
  <2>2. E * v <= A * E
    BY <1>1, <1>4, <1>5, <2>1, S * r \in Nat, E * v \in Nat
  <2>3. v <= A
    BY <1>1, <1>5, <2>2
  <2> QED
    BY <1>2, <1>3, <1>5, <1>6, <2>3 DEF E, S, A, w
<1>7. CASE ~(r > rate)
  <2>1. S * r <= S * rate
    BY <1>1, <1>5, <1>7
  <2>2. E * A < S * rate + S
    BY <1>1, <1>4, <1>5, <2>1, S * r \in Nat, A * E = E * A
  <2> QED
    BY <1>1, <1>2, <1>3, <1>7, <2>2 DEF E, S, A, w
<1> QED
  BY <1>6, <1>7

\* Prices are those of the same range later on.
LEMMA PriceStays ==
  ASSUME NEW q \in Seq(Request), NEW p \in Seq(Request), Continues(p, q),
         NEW pre \in 0..Len(q), NEW end \in 1..Len(q), NEW rate
  PROVE  /\ StETHIn(p, pre, end) = StETHIn(q, pre, end)
         /\ SharesIn(p, pre, end) = SharesIn(q, pre, end)
         /\ IsDiscounted(p, pre, end, rate) <=> IsDiscounted(q, pre, end, rate)
         /\ EtherFor(p, pre, end, rate) = EtherFor(q, pre, end, rate)
<1>1. /\ StETHIn(p, pre, end) = StETHIn(q, pre, end)
      /\ SharesIn(p, pre, end) = SharesIn(q, pre, end)
  BY LenProperties DEF Continues, StETHIn, SharesIn
<1> QED
  BY <1>1 DEF IsDiscounted, ShareRate, EtherFor

\* Appending keeps the queue rising.
LEMMA AppendRises ==
  ASSUME NEW q \in Seq(Request), Rising(q), NEW r \in Request,
         r.cumulativeStETH > CumStETH(q, Len(q)), r.cumulativeShares > CumShares(q, Len(q))
  PROVE  Rising(Append(q, r)) /\ Continues(Append(q, r), q)
<1> DEFINE p == Append(q, r)
           n == Len(q)
<1>1. /\ n \in Nat /\ p \in Seq(Request) /\ Len(p) = n + 1
      /\ p[n + 1] = r /\ \A i \in 1..n : p[i] = q[i]
  BY LenProperties, AppendProperties
<1> HIDE DEF p, n
<1>2. \A i \in 0..n : CumStETH(p, i) = CumStETH(q, i) /\ CumShares(p, i) = CumShares(q, i)
  BY <1>1 DEF CumStETH, CumShares
<1>3. /\ CumStETH(p, n + 1) > CumStETH(q, n) /\ CumShares(p, n + 1) > CumShares(q, n)
      /\ CumStETH(p, n + 1) \in Nat /\ CumShares(p, n + 1) \in Nat
  <2>1. CumStETH(p, n + 1) = r.cumulativeStETH /\ CumShares(p, n + 1) = r.cumulativeShares
    BY <1>1 DEF CumStETH, CumShares
  <2>2. r.cumulativeStETH > CumStETH(q, n) /\ r.cumulativeShares > CumShares(q, n)
    BY DEF n
  <2> QED
    BY <2>1, <2>2 DEF Request
<1>4. \A i \in 0..n : CumStETH(q, i) \in Nat /\ CumShares(q, i) \in Nat
  BY CumTyped DEF n
<1>5. ASSUME NEW i \in 0..n + 1, NEW j \in 0..n + 1, i < j
      PROVE  CumStETH(p, i) < CumStETH(p, j) /\ CumShares(p, i) < CumShares(p, j)
  <2>1. CASE j \in 0..n
    <3>1. i \in 0..n
      BY <1>1, <1>5, <2>1
    <3> QED
      BY <1>2, <1>5, <2>1, <3>1 DEF Rising, n
  <2>2. CASE j = n + 1
    <3>1. i \in 0..n /\ n \in 0..n
      BY <1>1, <1>5, <2>2
    <3>2. CumStETH(q, i) <= CumStETH(q, n) /\ CumShares(q, i) <= CumShares(q, n)
      <4>1. CASE i = n
        BY <1>4, <3>1, <4>1
      <4>2. CASE i # n
        BY <1>1, <1>4, <3>1, <4>2 DEF Rising, n
      <4> QED
        BY <4>1, <4>2
    <3> QED
      BY <1>2, <1>3, <1>4, <2>2, <3>1, <3>2
  <2> QED
    BY <1>1, <2>1, <2>2
<1>6. Rising(p)
  BY <1>1, <1>5 DEF Rising
<1>7. Continues(p, q)
  BY <1>1 DEF Continues, n
<1> QED
  BY <1>6, <1>7 DEF p

\* So does replacing an entry by one with the same amounts.
LEMMA SameRises ==
  ASSUME NEW q \in Seq(Request), NEW p \in Seq(Request), Rising(q), Continues(p, q),
         Len(p) = Len(q)
  PROVE  Rising(p)
<1>1. \A i \in 0..Len(q) : CumStETH(p, i) = CumStETH(q, i) /\ CumShares(p, i) = CumShares(q, i)
  BY LenProperties DEF Continues, CumStETH, CumShares
<1> QED
  BY <1>1 DEF Rising

-------------------------------------------------------------------------------
\* Checkpoints

\* Checkpoints in order, the first one for the first request and each for a
\* request that is finalized.
Ascends(c, fin) ==
  /\ c \in Seq(Checkpoint)
  /\ Len(c) = 0 <=> fin = 0
  /\ Len(c) # 0 => c[1].fromRequestId = 1
  /\ \A i, j \in 1..Len(c) : i < j => c[i].fromRequestId < c[j].fromRequestId
  /\ \A i \in 1..Len(c) : c[i].fromRequestId <= fin

\* HintAccepted for given checkpoints.
Hints(c, id, h) ==
  /\ h \in DOMAIN c
  /\ id >= c[h].fromRequestId
  /\ h < Len(c) => c[h + 1].fromRequestId > id

LEMMA CheckpointTyped ==
  ASSUME NEW c \in Seq(Checkpoint), NEW i \in 1..Len(c)
  PROVE  c[i].fromRequestId \in Nat \ {0} /\ c[i].maxShareRate \in Nat \ {0}
<1>1. c[i] \in Checkpoint
  BY ElementOfSeq, LenProperties
<1> QED
  BY <1>1 DEF Checkpoint

\* Every finalized request has one hint: the last checkpoint that is not after it.
LEMMA OneHint ==
  ASSUME NEW fin \in Nat, NEW c, Ascends(c, fin), NEW id \in 1..fin
  PROVE  \E h \in 1..Len(c) :
           /\ \A i \in 1..Len(c) : c[i].fromRequestId <= id <=> i <= h
           /\ \A i : Hints(c, id, i) <=> i = h
<1> DEFINE n == Len(c)
           T == {i \in 1..n : c[i].fromRequestId <= id}
<1>1. c \in Seq(Checkpoint) /\ n \in Nat /\ DOMAIN c = 1..n
  BY LenProperties DEF Ascends
<1>2. n # 0 /\ 1 \in T
  BY <1>1 DEF Ascends
<1>3. \A i \in 1..n : c[i].fromRequestId \in Nat
  BY <1>1, CheckpointTyped
<1>4. PICK h \in T : \A i \in T : h >= i
  <2>1. T \in SUBSET (1..n) /\ T # {}
    BY <1>2
  <2> HIDE DEF T
  <2> QED
    BY <1>1, <2>1, MaxFacts
<1>5. ASSUME NEW i \in 1..n PROVE c[i].fromRequestId <= id <=> i <= h
  <2>1. CASE i <= h
    <3>1. i = h \/ c[i].fromRequestId < c[h].fromRequestId
      BY <2>1 DEF Ascends
    <3> QED
      BY <1>3, <2>1, <3>1
  <2>2. CASE ~(i <= h)
    BY <1>1, <1>4, <2>2
  <2> QED
    BY <2>1, <2>2
<1>6. ASSUME NEW i PROVE Hints(c, id, i) <=> i = h
  <2>1. ASSUME Hints(c, id, i) PROVE i = h
    <3>1. i \in 1..n /\ c[i].fromRequestId <= id
      BY <1>1, <1>3, <2>1 DEF Hints
    <3>2. i <= h
      BY <1>5, <3>1
    <3>3. CASE i < h
      <4>1. i + 1 \in 1..n /\ i + 1 <= h /\ i < n
        BY <1>1, <3>1, <3>3
      <4>2. c[i + 1].fromRequestId <= id
        BY <1>5, <4>1
      <4> QED
        BY <1>3, <2>1, <4>1, <4>2 DEF Hints
    <3> QED
      BY <1>1, <3>1, <3>2, <3>3
  <2>2. Hints(c, id, h)
    <3>1. h < n => h + 1 \in 1..n /\ ~(h + 1 <= h)
      BY <1>1
    <3>2. h < n => c[h + 1].fromRequestId > id
      BY <1>3, <1>5, <3>1
    <3> QED
      BY <1>1, <1>3, <3>2 DEF Hints
  <2> QED
    BY <2>1, <2>2
<1> QED
  BY <1>4, <1>5, <1>6

\* A checkpoint is added for the requests after the last finalized one.
LEMMA CheckpointAdded ==
  ASSUME NEW fin \in Nat, NEW c, Ascends(c, fin), NEW rate \in Nat \ {0},
         NEW last \in Nat, fin < last
  PROVE  LET d == Append(c, [fromRequestId |-> fin + 1, maxShareRate |-> rate])
         IN /\ Ascends(d, last)
            /\ \A id \in 1..fin, h \in DOMAIN c :
                 Hints(c, id, h) => Hints(d, id, h) /\ d[h] = c[h]
            /\ \A id \in fin + 1..last : Hints(d, id, Len(d))
            /\ d[Len(d)].maxShareRate = rate
<1> DEFINE r == [fromRequestId |-> fin + 1, maxShareRate |-> rate]
           d == Append(c, r)
           n == Len(c)
<1>1. c \in Seq(Checkpoint) /\ n \in Nat /\ DOMAIN c = 1..n /\ r \in Checkpoint
  BY LenProperties DEF Ascends, Checkpoint
<1>2. /\ d \in Seq(Checkpoint) /\ Len(d) = n + 1 /\ DOMAIN d = 1..n + 1
      /\ d[n + 1] = r /\ \A i \in 1..n : d[i] = c[i]
  BY <1>1, AppendProperties
<1>3. r.fromRequestId = fin + 1 /\ r.maxShareRate = rate
  OBVIOUS
<1> HIDE DEF d, r
<1>4. \A i \in 1..n : c[i].fromRequestId \in Nat /\ c[i].fromRequestId <= fin
  BY <1>1, CheckpointTyped DEF Ascends
<1>5. Ascends(d, last)
  <2>1. d[1].fromRequestId = 1
    <3>1. CASE n = 0
      BY <1>2, <1>3, <3>1 DEF Ascends
    <3>2. CASE n # 0
      BY <1>1, <1>2, <3>2 DEF Ascends
    <3> QED
      BY <3>1, <3>2
  <2>2. ASSUME NEW i \in 1..n + 1, NEW j \in 1..n + 1, i < j
        PROVE  d[i].fromRequestId < d[j].fromRequestId
    <3>1. i \in 1..n
      BY <1>1, <2>2
    <3>2. CASE j = n + 1
      BY <1>2, <1>3, <1>4, <3>1, <3>2
    <3>3. CASE j # n + 1
      <4>1. j \in 1..n
        BY <1>1, <3>3
      <4> QED
        BY <1>2, <2>2, <3>1, <4>1 DEF Ascends
    <3> QED
      BY <3>2, <3>3
  <2>3. ASSUME NEW i \in 1..n + 1 PROVE d[i].fromRequestId <= last
    <3>1. CASE i = n + 1
      BY <1>2, <1>3, <3>1
    <3>2. CASE i # n + 1
      <4>1. i \in 1..n
        BY <1>1, <3>2
      <4> QED
        BY <1>2, <1>4, <4>1
    <3> QED
      BY <3>1, <3>2
  <2> QED
    BY <1>1, <1>2, <2>1, <2>2, <2>3 DEF Ascends
<1>6. ASSUME NEW id \in 1..fin, NEW h \in DOMAIN c, Hints(c, id, h)
      PROVE  Hints(d, id, h) /\ d[h] = c[h]
  <2>1. h \in 1..n /\ d[h] = c[h] /\ h \in DOMAIN d
    BY <1>1, <1>2
  <2>2. d[h + 1].fromRequestId > id
    <3>1. CASE h = n
      BY <1>2, <1>3, <3>1
    <3>2. CASE h # n
      <4>1. h + 1 \in 1..n /\ h < n
        BY <1>1, <2>1, <3>2
      <4> QED
        BY <1>2, <1>6, <4>1 DEF Hints
    <3> QED
      BY <3>1, <3>2
  <2> QED
    BY <1>6, <2>1, <2>2 DEF Hints
<1>7. ASSUME NEW id \in fin + 1..last PROVE Hints(d, id, n + 1)
  BY <1>1, <1>2, <1>3 DEF Hints
<1> QED
  BY <1>2, <1>3, <1>5, <1>6, <1>7 DEF d, r

\* What the binary search finds between two checkpoints.
Clamped(h, min, max) == IF max <= min \/ h < min THEN min ELSE IF max < h THEN max ELSE h

\* The binary search over a range that holds the hint finds it.
LEMMA SearchFinds ==
  ASSUME NEW id \in Nat, NEW h \in Nat,
         NEW lo \in 1..Len(checkpoints), NEW hi \in 1..Len(checkpoints),
         checkpoints \in Seq(Checkpoint), h \in lo..hi,
         \A i \in 1..Len(checkpoints) : checkpoints[i].fromRequestId <= id <=> i <= h
  PROVE  Search(id, lo, hi) = h
<1> DEFINE R == lo..hi
           mid(min, max) == (max + min + 1) \div 2
           next(w, min, max) ==
             IF max <= min THEN min
             ELSE IF checkpoints[mid(min, max)].fromRequestId <= id
             THEN w[<<mid(min, max), max>>]
             ELSE w[<<min, mid(min, max) - 1>>]
           Eq(w) == w = [r \in R \X R |-> next(w, r[1], r[2])]
<1>1. /\ lo \in Nat /\ hi \in Nat /\ lo <= hi
      /\ \A m \in R : checkpoints[m].fromRequestId <= id <=> m <= h
  BY LenProperties
<1>2. ASSUME NEW min \in R, NEW max \in R, ~(max <= min)
      PROVE  /\ mid(min, max) \in R /\ mid(min, max) - 1 \in R
             /\ min < mid(min, max) /\ mid(min, max) <= max
  BY <1>1, <1>2
<1> DEFINE x == [r \in R \X R |-> Clamped(h, r[1], r[2])]
<1>3. Eq(x)
  <2>1. ASSUME NEW min \in R, NEW max \in R
        PROVE  Clamped(h, min, max) = next(x, min, max)
    <3>1. CASE max <= min
      BY <3>1 DEF Clamped
    <3>2. CASE ~(max <= min)
      <4> DEFINE m == mid(min, max)
      <4>1. m \in R /\ m - 1 \in R /\ min < m /\ m <= max
        BY <1>2, <3>2
      <4> HIDE DEF m
      <4>2. x[<<m, max>>] = Clamped(h, m, max) /\ x[<<min, m - 1>>] = Clamped(h, min, m - 1)
        BY <4>1
      <4>3. checkpoints[m].fromRequestId <= id <=> m <= h
        BY <1>1, <4>1
      <4>4. Clamped(h, min, max) = IF m <= h THEN Clamped(h, m, max) ELSE Clamped(h, min, m - 1)
        <5>1. m \in Nat /\ min \in Nat /\ max \in Nat
          BY <1>1, <4>1
        <5> QED
          BY <3>2, <4>1, <5>1 DEF Clamped
      <4>5. next(x, min, max) = IF checkpoints[m].fromRequestId <= id THEN x[<<m, max>>]
                                ELSE x[<<min, m - 1>>]
        <5> HIDE DEF x
        <5> QED
          BY <3>2 DEF m
      <4> QED
        BY <4>2, <4>3, <4>4, <4>5
    <3> QED
      BY <3>1, <3>2
  <2> HIDE DEF next
  <2>2. \A r \in R \X R : r[1] \in R /\ r[2] \in R
    OBVIOUS
  <2>3. [r \in R \X R |-> Clamped(h, r[1], r[2])] = [r \in R \X R |-> next(x, r[1], r[2])]
    BY <2>1, <2>2
  <2> QED
    BY <2>3
<1> DEFINE v == CHOOSE w : Eq(w)
<1>4. Eq(v)
  <2> HIDE DEF Eq, x
  <2> QED
    BY <1>3
<1>5. Search(id, lo, hi) = v[<<lo, hi>>]
  BY DEF Search
<1> HIDE DEF v
<1>6. \A min, max \in R : v[<<min, max>>] = next(v, min, max)
  <2> HIDE DEF next
  <2> QED
    BY <1>4
<1> DEFINE Found(d) == \A min, max \in R :
                         min <= h /\ h <= max /\ max - min <= d => v[<<min, max>>] = h
           T == {d \in 0..hi - lo : Found(d)}
<1>7. Found(0)
  <2> SUFFICES ASSUME NEW min \in R, NEW max \in R, min <= h, h <= max, max - min <= 0
               PROVE  v[<<min, max>>] = h
    OBVIOUS
  <2>1. min = h /\ max <= min
    BY <1>1
  <2> QED
    BY <1>6, <2>1
<1>8. ASSUME NEW d \in 0..hi - lo - 1, Found(d) PROVE Found(d + 1)
  <2> SUFFICES ASSUME NEW min \in R, NEW max \in R, min <= h, h <= max, max - min <= d + 1
               PROVE  v[<<min, max>>] = h
    OBVIOUS
  <2>1. CASE max <= min
    <3>1. min = h
      BY <1>1, <2>1
    <3> QED
      BY <1>6, <2>1, <3>1
  <2>2. CASE ~(max <= min)
    <3> DEFINE m == mid(min, max)
    <3>1. m \in R /\ m - 1 \in R /\ min < m /\ m <= max
      BY <1>2, <2>2
    <3> HIDE DEF m
    <3>2. checkpoints[m].fromRequestId <= id <=> m <= h
      BY <1>1, <3>1
    <3>3. v[<<min, max>>] = IF checkpoints[m].fromRequestId <= id THEN v[<<m, max>>]
                            ELSE v[<<min, m - 1>>]
      BY <1>6, <2>2 DEF m
    <3>4. m <= h => v[<<m, max>>] = h
      <4>1. max - m <= d
        BY <1>1, <3>1
      <4> QED
        BY <1>8, <3>1, <4>1
    <3>5. ~(m <= h) => v[<<min, m - 1>>] = h
      <4>1. (m - 1) - min <= d
        BY <1>1, <3>1
      <4>2. ~(m <= h) => h <= m - 1
        BY <1>1, <3>1
      <4> QED
        BY <1>8, <3>1, <4>1, <4>2
    <3> QED
      BY <3>2, <3>3, <3>4, <3>5
  <2> QED
    BY <2>1, <2>2
<1>9. 0..hi - lo \subseteq T
  <2>1. 0 \in T
    BY <1>1, <1>7
  <2>2. \A d \in 0..(hi - lo) - 1 : d \in T => d + 1 \in T
    <3> HIDE DEF Found
    <3> QED
      BY <1>1, <1>8
  <2> HIDE DEF T
  <2> QED
    BY <1>1, <2>1, <2>2, hi - lo \in Nat, SetInduction
<1>10. Found(hi - lo)
  <2> HIDE DEF Found
  <2> QED
    BY <1>1, <1>9
<1> QED
  BY <1>1, <1>5, <1>10

\* What _findCheckpointHint does with a finalized request and any range.
LEMMA HintFound ==
  ASSUME lastFinalizedRequestId \in Nat, Ascends(checkpoints, lastFinalizedRequestId),
         NEW id \in 1..lastFinalizedRequestId, NEW h \in 1..Len(checkpoints),
         \A i \in 1..Len(checkpoints) : checkpoints[i].fromRequestId <= id <=> i <= h,
         NEW start \in 1..Len(checkpoints), NEW end \in 1..Len(checkpoints)
  PROVE  FindCheckpointHint(id, start, end) = IF h \in start..end THEN h ELSE NOT_FOUND
<1> DEFINE n == Len(checkpoints)
           from(i) == checkpoints[i].fromRequestId
<1>1. /\ checkpoints \in Seq(Checkpoint) /\ n \in Nat
      /\ \A i \in 1..n : from(i) \in Nat
  BY CheckpointTyped, LenProperties DEF Ascends
<1>2. ~(n = 0 \/ id > lastFinalizedRequestId)
  BY <1>1
<1>3. FindCheckpointHint(id, start, end) =
        IF start > end THEN NOT_FOUND
        ELSE IF id >= from(end) THEN IF end = n \/ id < from(end + 1) THEN end ELSE NOT_FOUND
        ELSE IF id < from(start) THEN NOT_FOUND
        ELSE Search(id, start, end - 1)
  BY <1>2 DEF FindCheckpointHint, IsBefore
<1>4. \A i \in 1..n : /\ id >= from(i) <=> i <= h
                      /\ id < from(i) <=> ~(i <= h)
  BY <1>1
<1>5. CASE start > end
  BY <1>1, <1>3, <1>5
<1>6. CASE ~(start > end) /\ end <= h
  <2>1. id >= from(end)
    BY <1>4, <1>6
  <2>2. end = n \/ id < from(end + 1) <=> h = end
    <3>1. CASE end = n
      BY <1>1, <1>6, <3>1
    <3>2. CASE end # n
      <4>1. end + 1 \in 1..n
        BY <1>1, <3>2
      <4> QED
        BY <1>1, <1>4, <1>6, <3>2, <4>1
    <3> QED
      BY <3>1, <3>2
  <2> QED
    BY <1>1, <1>3, <1>6, <2>1, <2>2
<1>7. CASE ~(end <= h) /\ ~(start <= h) /\ ~(start > end)
  <2>1. ~(id >= from(end)) /\ id < from(start)
    BY <1>4, <1>7
  <2> QED
    BY <1>1, <1>3, <1>7, <2>1
<1>8. CASE ~(end <= h) /\ start <= h
  <2>1. ~(id >= from(end)) /\ ~(id < from(start)) /\ ~(start > end)
    BY <1>1, <1>4, <1>8
  <2>2. end - 1 \in 1..n /\ h \in start..end - 1
    BY <1>1, <1>8
  <2>3. Search(id, start, end - 1) = h
    <3> DEFINE e == end - 1
    <3>1. e \in 1..n /\ h \in start..e /\ id \in Nat /\ h \in Nat
      BY <1>1, <2>2
    <3> HIDE DEF e
    <3>2. Search(id, start, e) = h
      BY <1>1, <3>1, SearchFinds
    <3> QED
      BY <3>2 DEF e
  <2> QED
    BY <1>1, <1>3, <1>8, <2>1, <2>2, <2>3
<1> QED
  BY <1>5, <1>6, <1>7, <1>8

-------------------------------------------------------------------------------
\* Batches

\* Batches of requests of the queue, in order, from the first open one on.
InOrder(batches, fin, n) ==
  /\ batches \in Seq(Nat)
  /\ \A k \in 1..Len(batches) : BatchStart(fin, batches, k) < batches[k] /\ batches[k] <= n

\* What the loop of calculateFinalizationBatches keeps.
LoopStates(fin, n) ==
  {s \in [budget : Int, batches : Seq(Nat), stopped : BOOLEAN] : InOrder(s.batches, fin, n)}

\* The request that is looked at is one of the queue, if there is one left.
LEMMA CurrentIdTyped ==
  ASSUME NEW fin \in Nat, NEW n \in Nat, NEW s \in LoopStates(fin, n)
  PROVE  /\ CurrentId(fin, s) \in Nat \ {0}
         /\ Len(s.batches) \in Nat
         /\ s.batches = << >> <=> Len(s.batches) = 0
         /\ Len(s.batches) = 0 => CurrentId(fin, s) = fin + 1
         /\ Len(s.batches) # 0 => /\ s.batches[Len(s.batches)] \in Nat
                                  /\ CurrentId(fin, s) = s.batches[Len(s.batches)] + 1
<1>1. s.batches \in Seq(Nat)
  BY DEF LoopStates
<1>2. Len(s.batches) \in Nat /\ (s.batches = << >> <=> Len(s.batches) = 0)
  BY <1>1, LenProperties, EmptySeq
<1>3. CASE Len(s.batches) = 0
  BY <1>2, <1>3 DEF CurrentId
<1>4. CASE Len(s.batches) # 0
  <2>1. s.batches[Len(s.batches)] \in Nat
    BY <1>1, <1>2, <1>4, ElementOfSeq
  <2> QED
    BY <1>2, <1>4, <2>1 DEF CurrentId
<1> QED
  BY <1>2, <1>3, <1>4

\* One turn keeps the batches in order.
LEMMA TurnInOrder ==
  ASSUME NEW q \in Seq(Request), Rising(q), NEW fin \in Nat, NEW rate \in Nat,
         NEW maxTimestamp, NEW s \in LoopStates(fin, Len(q))
  PROVE  TakeRequest(q, fin, rate, maxTimestamp, s) \in LoopStates(fin, Len(q))
<1> DEFINE i     == CurrentId(fin, s)
           cost  == EtherFor(q, i - 1, i, rate)
           b     == s.batches
           n     == Len(b)
           end   == [s EXCEPT !.stopped = TRUE]
           spent == [s EXCEPT !.budget = s.budget - cost]
           same  == [spent EXCEPT !.batches = [b EXCEPT ![n] = i]]
           more  == [spent EXCEPT !.batches = Append(b, i)]
           full  == [spent EXCEPT !.stopped = TRUE]
           L     == Len(q)
           Type  == [budget : Int, batches : Seq(Nat), stopped : BOOLEAN]
<1>1. /\ L \in Nat /\ i \in Nat \ {0} /\ n \in Nat
      /\ n = 0 => i = fin + 1
      /\ n # 0 => b[n] \in Nat /\ i = b[n] + 1
  BY CurrentIdTyped, LenProperties
<1>2. s \in Type /\ b \in Seq(Nat) /\ InOrder(b, fin, L)
  BY DEF LoopStates
<1>3. TakeRequest(q, fin, rate, maxTimestamp, s) =
        IF s.stopped \/ i > L \/ q[i].timestamp > maxTimestamp \/ cost > s.budget
        THEN end
        ELSE IF n # 0 /\ SameBatch(q, i, rate) THEN same
        ELSE IF HasRoom(b) THEN more ELSE full
  <2>1. spent.batches = b
    BY <1>2
  <2> QED
    BY <2>1 DEF TakeRequest, NewBatch
<1>4. end \in LoopStates(fin, L)
  BY <1>2 DEF LoopStates
<1>5. ASSUME i <= L PROVE spent \in LoopStates(fin, L) /\ spent.batches = b
  <2>1. i - 1 \in 0..L /\ i \in 0..L /\ i - 1 < i
    BY <1>1, <1>5
  <2>2. cost \in Nat
    <3> DEFINE h == i - 1
    <3>1. h \in 0..Len(q) /\ i \in 0..Len(q) /\ h < i
      BY <2>1
    <3> HIDE DEF h, i
    <3>2. EtherFor(q, h, i, rate) \in Nat
      BY <3>1, PriceBounds
    <3> QED
      BY <3>2 DEF h
  <2> DEFINE x == s.budget - cost
  <2>3. x \in Int /\ s \in Type
    <3> HIDE DEF cost
    <3> QED
      BY <1>2, <2>2
  <2> HIDE DEF x
  <2>4. [s EXCEPT !.budget = x] \in Type /\ [s EXCEPT !.budget = x].batches = b
    BY <2>3
  <2>5. spent = [s EXCEPT !.budget = x]
    BY DEF x
  <2> HIDE DEF spent, b
  <2> QED
    BY <1>2, <2>4, <2>5 DEF LoopStates
<1>6. ASSUME i <= L PROVE full \in LoopStates(fin, L)
  <2> HIDE DEF spent
  <2> QED
    BY <1>5, <1>6 DEF LoopStates
<1>7. ASSUME i <= L, n # 0 PROVE same \in LoopStates(fin, L)
  <2> DEFINE c == [b EXCEPT ![n] = i]
  <2> HIDE DEF i
  <2>1. n \in 1..n /\ DOMAIN b = 1..n
    BY <1>1, <1>2, <1>7, LenProperties
  <2>2. c \in Seq(Nat) /\ Len(c) = n
    BY <1>1, <1>2, <2>1, ExceptSeq
  <2>3. c[n] = i /\ \A k \in 1..n : k # n => c[k] = b[k]
    BY <2>1
  <2> HIDE DEF c
  <2>4. ASSUME NEW k \in 1..n PROVE BatchStart(fin, c, k) < c[k] /\ c[k] <= L
    <3>1. BatchStart(fin, c, k) = BatchStart(fin, b, k)
      <4>1. CASE k = 1
        BY <4>1 DEF BatchStart
      <4>2. CASE k # 1
        <5>1. k - 1 \in 1..n /\ k - 1 # n
          BY <1>1, <4>2
        <5> QED
          BY <2>3, <4>2, <5>1 DEF BatchStart
      <4> QED
        BY <4>1, <4>2
    <3>2. BatchStart(fin, b, k) < b[k] /\ b[k] <= L
      BY <1>2 DEF InOrder
    <3>3. CASE k = n
      <4>1. BatchStart(fin, b, k) \in Nat
        <5>1. CASE k = 1
          BY <5>1 DEF BatchStart
        <5>2. CASE k # 1
          <6>1. k - 1 \in 1..n
            BY <1>1, <5>2
          <6>2. b[k - 1] \in Nat
            BY <1>2, <6>1, ElementOfSeq
          <6> QED
            BY <5>2, <6>2 DEF BatchStart
        <5> QED
          BY <5>1, <5>2
      <4>2. b[k] \in Nat /\ i = b[k] + 1 /\ c[k] = i
        BY <1>1, <1>7, <2>3, <3>3
      <4> QED
        BY <1>1, <1>7, <3>1, <3>2, <4>1, <4>2
    <3>4. CASE k # n
      BY <2>3, <3>1, <3>2, <3>4
    <3> QED
      BY <3>3, <3>4
  <2>5. InOrder(c, fin, L)
    BY <2>2, <2>4 DEF InOrder
  <2> HIDE DEF spent
  <2>6. [spent EXCEPT !.batches = c] \in LoopStates(fin, L)
    BY <1>5, <1>7, <2>2, <2>5 DEF LoopStates
  <2> QED
    BY <2>6 DEF c
<1>8. ASSUME i <= L PROVE more \in LoopStates(fin, L)
  <2> DEFINE c == Append(b, i)
  <2> HIDE DEF i
  <2>1. /\ c \in Seq(Nat) /\ Len(c) = n + 1
        /\ c[n + 1] = i /\ \A k \in 1..n : c[k] = b[k]
    BY <1>1, <1>2, AppendProperties
  <2> HIDE DEF c
  <2>2. ASSUME NEW k \in 1..n + 1 PROVE BatchStart(fin, c, k) < c[k] /\ c[k] <= L
    <3>1. CASE k = n + 1
      <4>1. CASE n = 0
        BY <1>1, <1>8, <2>1, <3>1, <4>1 DEF BatchStart
      <4>2. CASE n # 0
        <5>1. n \in 1..n /\ k # 1 /\ k - 1 = n
          BY <1>1, <3>1, <4>2
        <5>2. BatchStart(fin, c, k) = b[n]
          BY <2>1, <5>1 DEF BatchStart
        <5> QED
          BY <1>1, <1>8, <2>1, <3>1, <4>2, <5>2
      <4> QED
        BY <4>1, <4>2
    <3>2. CASE k # n + 1
      <4>1. k \in 1..n
        BY <1>1, <3>2
      <4>2. BatchStart(fin, c, k) = BatchStart(fin, b, k)
        <5>1. k # 1 => k - 1 \in 1..n
          BY <1>1, <4>1
        <5> QED
          BY <2>1, <5>1 DEF BatchStart
      <4> QED
        BY <1>2, <2>1, <4>1, <4>2 DEF InOrder
    <3> QED
      BY <3>1, <3>2
  <2>3. InOrder(c, fin, L)
    BY <2>1, <2>2 DEF InOrder
  <2> HIDE DEF spent
  <2>4. [spent EXCEPT !.batches = c] \in LoopStates(fin, L)
    BY <1>5, <1>8, <2>1, <2>3 DEF LoopStates
  <2> QED
    BY <2>4 DEF c
<1> HIDE DEF i, end, same, more, full
<1>9. CASE i > L
  BY <1>3, <1>4, <1>9
<1>10. CASE ~(i > L)
  <2>1. i <= L
    BY <1>1, <1>10
  <2> QED
    BY <1>3, <1>4, <1>6, <1>7, <1>8, <2>1
<1> QED
  BY <1>9, <1>10

\* A call keeps them in order, however many turns it takes.
LEMMA CallInOrder ==
  ASSUME NEW q \in Seq(Request), Rising(q), NEW fin \in Nat, NEW rate \in Nat,
         NEW maxTimestamp, NEW turns \in Nat, NEW s \in LoopStates(fin, Len(q))
  PROVE  CalculateFinalizationBatches(q, fin, rate, maxTimestamp, turns, s)
           \in LoopStates(fin, Len(q))
<1> DEFINE R == LoopStates(fin, Len(q))
           turn == [t \in R |-> TakeRequest(q, fin, rate, maxTimestamp, t)]
           f == [k \in 1..turns |-> turn]
           Eq(a) == a = [k \in 0..turns |->
                           IF k = 0 THEN s
                           ELSE TakeRequest(q, fin, rate, maxTimestamp, a[k - 1])]
<1>1. turn \in [R -> R]
  BY TurnInOrder
<1>2. f \in [1..turns -> [R -> R]]
  <2> HIDE DEF turn, R
  <2> QED
    BY <1>1
<1>3. PICK g \in [0..turns -> R] : Iterates(g, s, turns, f)
  <2> HIDE DEF f, R
  <2> QED
    BY <1>2, IterationExists DEF R
<1>4. Eq(g)
  <2>1. g[0] = s
    BY <1>3 DEF Iterates
  <2>2. ASSUME NEW k \in 1..turns
        PROVE  g[k] = TakeRequest(q, fin, rate, maxTimestamp, g[k - 1])
    <3>1. g[k] = f[k][g[k - 1]] /\ k - 1 \in 0..turns
      BY <1>3 DEF Iterates
    <3>2. g[k - 1] \in R
      BY <3>1
    <3> HIDE DEF R
    <3> QED
      BY <3>1, <3>2
  <2> HIDE DEF R
  <2>3. \A k \in 0..turns : g[k] = IF k = 0 THEN s
                                   ELSE TakeRequest(q, fin, rate, maxTimestamp, g[k - 1])
    BY <2>1, <2>2
  <2> QED
    BY <2>3
<1> DEFINE v == CHOOSE a : Eq(a)
<1>5. Eq(v)
  <2> HIDE DEF Eq
  <2> QED
    BY <1>4
<1>6. CalculateFinalizationBatches(q, fin, rate, maxTimestamp, turns, s) = v[turns]
  BY DEF CalculateFinalizationBatches
<1> HIDE DEF v
<1>7. v[0] = s /\ \A k \in 1..turns : v[k] = TakeRequest(q, fin, rate, maxTimestamp, v[k - 1])
  BY <1>5
<1> DEFINE T == {k \in 0..turns : v[k] \in R}
<1>8. 0..turns \subseteq T
  <2>1. 0 \in T
    BY <1>7
  <2>2. \A k \in 0..turns - 1 : k \in T => k + 1 \in T
    <3> SUFFICES ASSUME NEW k \in 0..turns - 1, v[k] \in R PROVE v[k + 1] \in R
      OBVIOUS
    <3>1. k + 1 \in 1..turns /\ (k + 1) - 1 = k
      OBVIOUS
    <3>2. v[k + 1] = TakeRequest(q, fin, rate, maxTimestamp, v[k])
      BY <1>7, <3>1
    <3> QED
      BY <3>2, TurnInOrder
  <2> HIDE DEF T
  <2> QED
    BY <2>1, <2>2, SetInduction
<1> QED
  BY <1>6, <1>8

-------------------------------------------------------------------------------
\* The ether of batches

\* What the requests pre + 1 .. end are worth one by one, g being the sums of the
\* first ones, is no more than what they are worth as a batch; a batch that is
\* discounted and has a request that is not can be a wei short.
LEMMA BatchCovers ==
  ASSUME NEW q \in Seq(Request), Rising(q), NEW pre \in 0..Len(q), NEW end \in 0..Len(q),
         pre < end, NEW rate \in Nat,
         SharesIn(q, pre, end) <= E27_PRECISION_BASE,
         NEW g \in [0..Len(q) -> Int],
         \A k \in pre + 1..end : g[k] = g[k - 1] + EtherFor(q, k - 1, k, rate)
  PROVE  /\ g[end] - g[pre] <= EtherFor(q, pre, end, rate) + 1
         /\ \/ g[end] - g[pre] <= EtherFor(q, pre, end, rate)
            \/ /\ IsDiscounted(q, pre, end, rate)
               /\ \E i \in pre + 1..end : ~IsDiscounted(q, i - 1, i, rate)
<1> DEFINE E == E27_PRECISION_BASE
           S(k) == CumShares(q, k) - CumShares(q, pre)
           A(k) == CumStETH(q, k) - CumStETH(q, pre)
           U(k) == g[k] - g[pre]
           V == EtherFor(q, pre, end, rate)
           K == pre..end
<1>1. /\ E \in Nat \ {0} /\ Len(q) \in Nat /\ pre \in Nat /\ end \in Nat /\ pre <= end
      /\ K \subseteq 0..Len(q)
  BY BatchesAssumption, LenProperties
<1>2. ASSUME NEW k \in K
      PROVE  U(k) \in Int /\ S(k) \in Int /\ A(k) \in Int
  <2>1. k \in 0..Len(q)
    BY <1>1
  <2>2. /\ CumStETH(q, k) \in Nat /\ CumShares(q, k) \in Nat
        /\ CumStETH(q, pre) \in Nat /\ CumShares(q, pre) \in Nat
    BY <2>1, CumTyped
  <2>3. g[k] \in Int /\ g[pre] \in Int
    BY <2>1
  <2> QED
    BY <2>2, <2>3
<1>3. U(pre) = 0 /\ S(pre) = 0 /\ A(pre) = 0
  <2>1. CumStETH(q, pre) \in Nat /\ CumShares(q, pre) \in Nat /\ g[pre] \in Int
    BY CumTyped
  <2> QED
    BY <2>1
<1>4. ASSUME NEW k \in pre + 1..end
      PROVE  LET w == EtherFor(q, k - 1, k, rate)
                 a == A(k) - A(k - 1)
                 s == S(k) - S(k - 1)
             IN /\ w \in Nat /\ a \in Nat /\ s \in Nat /\ U(k) - U(k - 1) = w /\ w <= a
                /\ E * w + 1 <= s * rate + s
                /\ IsDiscounted(q, k - 1, k, rate) => E * w <= s * rate
                /\ k \in K /\ k - 1 \in K
  <2> DEFINE h == k - 1
             w == EtherFor(q, h, k, rate)
             s == SharesIn(q, h, k)
             a == StETHIn(q, h, k)
  <2>1. h \in 0..Len(q) /\ k \in 0..Len(q) /\ h < k /\ h \in K /\ k \in K
    BY <1>1
  <2>2. /\ a = CumStETH(q, k) - CumStETH(q, h) /\ s = CumShares(q, k) - CumShares(q, h)
        /\ a \in Nat \ {0} /\ s \in Nat \ {0}
    <3> HIDE DEF h
    <3> QED
      BY <2>1, RangeTyped
  <2>3. /\ w \in Nat /\ w <= a
        /\ IsDiscounted(q, h, k, rate) => E * w <= s * rate /\ s * rate < E * w + E
        /\ ~IsDiscounted(q, h, k, rate) => w = a /\ E * w < s * rate + s
    <3> HIDE DEF h
    <3> QED
      BY <2>1, PriceBounds
  <2>4. /\ CumStETH(q, k) \in Nat /\ CumShares(q, k) \in Nat
        /\ CumStETH(q, h) \in Nat /\ CumShares(q, h) \in Nat
        /\ CumStETH(q, pre) \in Nat /\ CumShares(q, pre) \in Nat
    <3> HIDE DEF h
    <3> QED
      BY <2>1, CumTyped
  <2>5. A(k) - A(h) = a /\ S(k) - S(h) = s
    <3> HIDE DEF h, a, s
    <3> QED
      BY <2>2, <2>4
  <2>6. U(k) - U(h) = w
    <3>1. g[k] = g[h] + w /\ g[k] \in Int /\ g[h] \in Int /\ g[pre] \in Int
      BY <2>1
    <3> HIDE DEF h, w
    <3> QED
      BY <2>3, <3>1
  <2>7. E * w + 1 <= s * rate + s
    <3> HIDE DEF E, w, s, a, h
    <3>1. E * w \in Nat /\ s * rate \in Nat /\ s \in Nat \ {0}
      BY <1>1, <2>2, <2>3
    <3>2. E * w <= s * rate \/ E * w < s * rate + s
      BY <2>3
    <3> QED
      BY <3>1, <3>2
  <2> HIDE DEF w, s, a, h, E, U, A, S, K
  <2> QED
    BY <2>1, <2>2, <2>3, <2>5, <2>6, <2>7 DEF h, w
<1>5. U(end) <= A(end)
  <2> DEFINE x == [k \in K |-> U(k)]
             y == [k \in K |-> A(k)]
  <2>1. \A k \in K : x[k] \in Int /\ y[k] \in Int
    BY <1>2
  <2>2. x[pre] <= y[pre]
    BY <1>1, <1>3
  <2>3. \A k \in pre + 1..end : x[k] - x[k - 1] <= y[k] - y[k - 1]
    <3> HIDE DEF U, A
    <3> QED
      BY <1>4
  <2>4. \A k \in pre..end : x[k] <= y[k]
    <3> HIDE DEF x, y
    <3> QED
      BY <1>1, <2>1, <2>2, <2>3, Telescope
  <2> QED
    BY <1>1, <2>4
<1>6. E * U(end) + 1 <= S(end) * rate + S(end)
  <2> DEFINE x == [k \in K |-> E * U(k) + (k - pre)]
             y == [k \in K |-> S(k) * rate + S(k)]
  <2> HIDE DEF U, S, E
  <2>1. \A k \in K : x[k] \in Int /\ y[k] \in Int
    <3> SUFFICES ASSUME NEW k \in K
                 PROVE  E * U(k) + (k - pre) \in Int /\ S(k) * rate + S(k) \in Int
      OBVIOUS
    <3>1. U(k) \in Int /\ S(k) \in Int /\ k \in Int
      BY <1>1, <1>2
    <3>2. E * U(k) \in Int /\ S(k) * rate \in Int
      BY <1>1, <3>1
    <3> QED
      BY <1>1, <3>1, <3>2
  <2>2. x[pre] <= y[pre]
    BY <1>1, <1>3
  <2>3. ASSUME NEW k \in pre + 1..end PROVE x[k] - x[k - 1] <= y[k] - y[k - 1]
    <3> DEFINE w == EtherFor(q, k - 1, k, rate)
               s == S(k) - S(k - 1)
               u0 == U(k - 1)
               u1 == U(k)
               s0 == S(k - 1)
               s1 == S(k)
    <3>1. /\ w \in Nat /\ s \in Nat /\ u1 - u0 = w /\ E * w + 1 <= s * rate + s
          /\ k \in K /\ k - 1 \in K
      BY <1>4
    <3>2. u0 \in Int /\ u1 \in Int /\ s0 \in Int /\ s1 \in Int /\ s = s1 - s0
      BY <1>2, <3>1
    <3>3. /\ x[k] = E * u1 + (k - pre) /\ x[k - 1] = E * u0 + ((k - 1) - pre)
          /\ y[k] = s1 * rate + s1 /\ y[k - 1] = s0 * rate + s0
      BY <3>1
    <3> HIDE DEF w, s, u0, u1, s0, s1, x, y
    <3>4. u1 = u0 + w /\ s1 = s0 + s
      BY <3>1, <3>2
    <3>5. E * u1 = E * u0 + E * w /\ s1 * rate = s0 * rate + s * rate
      BY <1>1, <3>1, <3>2, <3>4
    <3>6. /\ E * u0 \in Int /\ E * w \in Int /\ s0 * rate \in Int /\ s * rate \in Int
          /\ k \in Int /\ pre \in Int
      BY <1>1, <3>1, <3>2
    <3>7. x[k] - x[k - 1] = E * w + 1 /\ y[k] - y[k - 1] = s * rate + s
      BY <3>1, <3>2, <3>3, <3>4, <3>5, <3>6
    <3> QED
      BY <3>1, <3>7
  <2>4. \A k \in pre..end : x[k] <= y[k]
    <3> HIDE DEF x, y
    <3> QED
      BY <1>1, <2>1, <2>2, <2>3, Telescope
  <2>5. x[end] <= y[end] /\ end \in K /\ end - pre >= 1
    BY <1>1, <2>4
  <2>6. E * U(end) \in Int /\ S(end) * rate \in Int /\ S(end) \in Int
    <3> HIDE DEF x, y
    <3>1. U(end) \in Int /\ S(end) \in Int
      BY <1>2, <2>5
    <3>2. E \in Int /\ rate \in Int
      BY <1>1
    <3> QED
      BY <3>1, <3>2
  <2> QED
    BY <1>1, <2>5, <2>6
<1>7. ASSUME \A i \in pre + 1..end : IsDiscounted(q, i - 1, i, rate)
      PROVE  E * U(end) <= S(end) * rate
  <2> DEFINE x == [k \in K |-> E * U(k)]
             y == [k \in K |-> S(k) * rate]
  <2> HIDE DEF U, S, E
  <2>1. \A k \in K : x[k] \in Int /\ y[k] \in Int
    BY <1>1, <1>2
  <2>2. x[pre] <= y[pre]
    BY <1>1, <1>3
  <2>3. ASSUME NEW k \in pre + 1..end PROVE x[k] - x[k - 1] <= y[k] - y[k - 1]
    <3> DEFINE w == EtherFor(q, k - 1, k, rate)
               s == S(k) - S(k - 1)
               u0 == U(k - 1)
               u1 == U(k)
               s0 == S(k - 1)
               s1 == S(k)
    <3>1. /\ w \in Nat /\ s \in Nat /\ u1 - u0 = w /\ E * w <= s * rate
          /\ k \in K /\ k - 1 \in K
      BY <1>4, <1>7
    <3>2. u0 \in Int /\ u1 \in Int /\ s0 \in Int /\ s1 \in Int /\ s = s1 - s0
      BY <1>2, <3>1
    <3>3. /\ x[k] = E * u1 /\ x[k - 1] = E * u0
          /\ y[k] = s1 * rate /\ y[k - 1] = s0 * rate
      BY <3>1
    <3> HIDE DEF w, s, u0, u1, s0, s1, x, y
    <3>4. u1 = u0 + w /\ s1 = s0 + s
      BY <3>1, <3>2
    <3>5. E * u1 = E * u0 + E * w /\ s1 * rate = s0 * rate + s * rate
      BY <1>1, <3>1, <3>2, <3>4
    <3>6. E * u0 \in Int /\ E * w \in Int /\ s0 * rate \in Int /\ s * rate \in Int
      BY <1>1, <3>1, <3>2
    <3> QED
      BY <3>1, <3>3, <3>5, <3>6
  <2>4. \A k \in pre..end : x[k] <= y[k]
    <3> HIDE DEF x, y
    <3> QED
      BY <1>1, <2>1, <2>2, <2>3, Telescope
  <2> QED
    BY <1>1, <2>4
<1>8. /\ SharesIn(q, pre, end) = S(end) /\ StETHIn(q, pre, end) = A(end)
      /\ S(end) \in Nat /\ A(end) \in Nat /\ U(end) \in Int
      /\ V \in Nat /\ V <= A(end) /\ S(end) <= E
      /\ IsDiscounted(q, pre, end, rate) => S(end) * rate < E * V + E
      /\ ~IsDiscounted(q, pre, end, rate) => V = A(end)
  <2>1. /\ SharesIn(q, pre, end) = S(end) /\ StETHIn(q, pre, end) = A(end)
        /\ S(end) \in Nat /\ A(end) \in Nat
    BY RangeTyped
  <2>2. U(end) \in Int
    BY <1>1, <1>2
  <2>3. /\ V \in Nat /\ V <= StETHIn(q, pre, end)
        /\ IsDiscounted(q, pre, end, rate) => SharesIn(q, pre, end) * rate < E * V + E
        /\ ~IsDiscounted(q, pre, end, rate) => V = StETHIn(q, pre, end)
    BY PriceBounds
  <2> HIDE DEF U, S, A, V, E, K
  <2> QED
    BY <2>1, <2>2, <2>3 DEF E
<1> HIDE DEF U, S, A, V, E, K
<1>9. CASE ~IsDiscounted(q, pre, end, rate)
  BY <1>5, <1>8, <1>9 DEF U, V
<1>10. CASE IsDiscounted(q, pre, end, rate)
  <2> DEFINE u == U(end)
             s == S(end)
  <2>1. /\ u \in Int /\ s \in Nat /\ V \in Nat /\ s <= E /\ s * rate < E * V + E
        /\ E * u + 1 <= s * rate + s
        /\ s * rate \in Nat /\ E * V \in Nat /\ E * u \in Int
    BY <1>1, <1>6, <1>8, <1>10
  <2> HIDE DEF u, s
  <2>2. CASE \A i \in pre + 1..end : IsDiscounted(q, i - 1, i, rate)
    <3>1. E * u <= s * rate
      BY <1>7, <2>2 DEF u, s
    <3>2. E * u < E * (V + 1)
      BY <1>1, <2>1, <3>1
    <3>3. u < V + 1
      BY <1>1, <2>1, <3>2
    <3>4. u <= V
      BY <2>1, <3>3
    <3> QED
      BY <2>1, <3>4 DEF U, V, u
  <2>3. CASE \E i \in pre + 1..end : ~IsDiscounted(q, i - 1, i, rate)
    <3>1. E * u < E * (V + 2)
      BY <1>1, <2>1
    <3>2. u < V + 2
      BY <1>1, <2>1, <3>1
    <3>3. u <= V + 1
      BY <2>1, <3>2
    <3> QED
      BY <1>10, <2>3, <3>3 DEF U, V, u
  <2> QED
    BY <2>2, <2>3
<1> QED
  BY <1>9, <1>10

\* Where a batch begins is a request of the queue, not before the open ones.
LEMMA BatchTyped ==
  ASSUME NEW n \in Nat, NEW fin \in 0..n, NEW batches, InOrder(batches, fin, n),
         NEW k \in 1..Len(batches)
  PROVE  /\ BatchStart(fin, batches, k) \in fin..n /\ batches[k] \in fin + 1..n
         /\ BatchStart(fin, batches, k) < batches[k]
<1> DEFINE N == Len(batches)
           at == [i \in 0..N |-> IF i = 0 THEN fin ELSE batches[i]]
           low == [i \in 0..N |-> fin]
           z == 0
<1>1. /\ N \in Nat /\ batches \in Seq(Nat) /\ DOMAIN batches = 1..N
      /\ \A i \in 1..N : batches[i] \in Nat
  BY LenProperties, ElementOfSeq DEF InOrder
<1>2. \A i \in 0..N : at[i] \in Int /\ low[i] \in Int
  BY <1>1
<1>3. ASSUME NEW i \in 1..N
      PROVE  /\ BatchStart(fin, batches, i) = at[i - 1] /\ batches[i] = at[i]
             /\ at[i - 1] < at[i] /\ at[i] <= n
  <2>1. i - 1 \in 0..N /\ i \in 0..N /\ i # 0 /\ (i = 1 <=> i - 1 = 0)
    BY <1>1
  <2>2. BatchStart(fin, batches, i) = at[i - 1] /\ batches[i] = at[i]
    BY <2>1 DEF BatchStart
  <2>3. BatchStart(fin, batches, i) < batches[i] /\ batches[i] <= n
    BY DEF InOrder
  <2> HIDE DEF at
  <2> QED
    BY <2>2, <2>3
<1>4. \A i \in 0..N : low[i] <= at[i]
  <2>1. z \in Nat /\ z <= N /\ low[z] <= at[z]
    BY <1>1
  <2>2. \A i \in z + 1..N : low[i] - low[i - 1] <= at[i] - at[i - 1]
    <3> SUFFICES ASSUME NEW i \in 1..N PROVE low[i] - low[i - 1] <= at[i] - at[i - 1]
      OBVIOUS
    <3>1. i - 1 \in 0..N /\ i \in 0..N
      BY <1>1
    <3>2. low[i] - low[i - 1] = 0 /\ at[i] \in Int /\ at[i - 1] \in Int
      BY <1>2, <3>1
    <3> HIDE DEF low, at
    <3> QED
      BY <1>3, <3>2
  <2>3. \A i \in z..N : low[i] \in Int /\ at[i] \in Int
    BY <1>2
  <2>4. \A i \in z..N : low[i] <= at[i]
    <3> HIDE DEF z, low, at
    <3> QED
      BY <1>1, <2>1, <2>2, <2>3, Telescope
  <2> QED
    BY <2>4
<1>5. k - 1 \in 0..N /\ k \in 0..N
  BY <1>1
<1>6. fin <= at[k - 1] /\ at[k - 1] \in Int /\ at[k] \in Int
  BY <1>2, <1>4, <1>5
<1> HIDE DEF at
<1> QED
  BY <1>3, <1>6

\* The ether asked for is a number.
LEMMA PrefinalizeTyped ==
  ASSUME NEW q \in Seq(Request), Rising(q), NEW fin \in 0..Len(q), NEW rate \in Nat,
         NEW batches, InOrder(batches, fin, Len(q))
  PROVE  /\ Prefinalize(q, fin, batches, rate) \in Nat
         /\ \A k \in 1..Len(batches) :
              EtherFor(q, BatchStart(fin, batches, k), batches[k], rate) \in Nat
<1> DEFINE N == Len(batches)
           p == [k \in 1..N |-> EtherFor(q, BatchStart(fin, batches, k), batches[k], rate)]
<1>1. N \in Nat /\ DOMAIN batches = 1..N /\ Len(q) \in Nat
  BY LenProperties DEF InOrder
<1>2. ASSUME NEW k \in 1..N
      PROVE  EtherFor(q, BatchStart(fin, batches, k), batches[k], rate) \in Nat
  <2> DEFINE pre == BatchStart(fin, batches, k)
             end == batches[k]
  <2>1. pre \in fin..Len(q) /\ end \in fin + 1..Len(q) /\ pre < end
    BY <1>1, BatchTyped
  <2>2. pre \in 0..Len(q) /\ end \in 0..Len(q)
    BY <1>1, <2>1
  <2> HIDE DEF pre, end
  <2>3. EtherFor(q, pre, end, rate) \in Nat
    BY <2>1, <2>2, PriceBounds
  <2> QED
    BY <2>3 DEF pre, end
<1>3. p \in [1..N -> Int] /\ \A k \in 1..N : p[k] >= 0
  BY <1>2
<1>4. Prefinalize(q, fin, batches, rate) = Sum(p)
  BY <1>1 DEF Prefinalize
<1>5. Sum(p) \in Nat
  <2> HIDE DEF p
  <2> QED
    BY <1>1, <1>3, SumNat
<1> QED
  BY <1>2, <1>4, <1>5

\* MixedBatches for a given queue.
Mixed(q, fin, batches, rate) ==
  {n \in DOMAIN batches :
     LET pre == BatchStart(fin, batches, n)
     IN /\ IsDiscounted(q, pre, batches[n], rate)
        /\ \E i \in pre + 1..batches[n] : ~IsDiscounted(q, i - 1, i, rate)}

\* What requests are worth at a rate, those after a given one.
WorthAfter(q, fin, last, rate) ==
  [id \in 1..last |-> IF id <= fin THEN 0 ELSE EtherFor(q, id - 1, id, rate)]

\* The ether asked for is enough for each request that is finalized with it, but
\* for a wei for each batch that is discounted and has a request that is not.
LEMMA BatchesCover ==
  ASSUME NEW q \in Seq(Request), Rising(q), NEW fin \in 0..Len(q), NEW rate \in Nat,
         NEW batches, InOrder(batches, fin, Len(q)), Len(batches) # 0,
         SharesIn(q, fin, Len(q)) <= E27_PRECISION_BASE
  PROVE  Sum(WorthAfter(q, fin, batches[Len(batches)], rate))
           <= Prefinalize(q, fin, batches, rate)
                + Cardinality(Mixed(q, fin, batches, rate))
<1> DEFINE L == Len(q)
           N == Len(batches)
           last == batches[N]
           w == WorthAfter(q, fin, L, rate)
           start(k) == BatchStart(fin, batches, k)
           p == [k \in 1..N |-> EtherFor(q, start(k), batches[k], rate)]
           M == Mixed(q, fin, batches, rate)
           d == [k \in 1..N |-> IF k \in M THEN 1 ELSE 0]
           at == [k \in 0..N |-> IF k = 0 THEN fin ELSE batches[k]]
           z == 0
<1>1. /\ N \in Nat /\ N >= 1 /\ DOMAIN batches = 1..N /\ L \in Nat /\ fin \in Nat
      /\ \A k \in 1..N : batches[k] \in Nat
  BY LenProperties, ElementOfSeq DEF InOrder
<1>2. \A k \in 1..N : start(k) \in fin..L /\ batches[k] \in fin + 1..L /\ start(k) < batches[k]
  BY <1>1, BatchTyped
<1>3. ASSUME NEW id \in 1..L PROVE w[id] \in Int /\ (id <= fin => w[id] = 0)
  <2>1. w[id] = IF id <= fin THEN 0 ELSE EtherFor(q, id - 1, id, rate)
    BY DEF WorthAfter
  <2> DEFINE h == id - 1
  <2>2. h \in 0..Len(q) /\ id \in 0..Len(q) /\ h < id
    BY <1>1
  <2>3. EtherFor(q, h, id, rate) \in Nat
    <3> HIDE DEF h
    <3> QED
      BY <2>2, PriceBounds
  <2> HIDE DEF w
  <2> QED
    BY <2>1, <2>3
<1>4. w \in [1..L -> Int]
  <2>1. w = [id \in 1..L |-> w[id]]
    BY DEF WorthAfter
  <2> HIDE DEF w
  <2> QED
    BY <1>3, <2>1
<1>5. PICK g \in [0..L -> Int] : g[0] = 0 /\ \A k \in 1..L : g[k] = g[k - 1] + w[k]
  <2> HIDE DEF w, L
  <2> QED
    BY <1>1, <1>4, SumIterates
<1>6. g[fin] = 0
  <2> DEFINE u == [k \in 0..fin |-> 0]
             v == [k \in 0..fin |-> g[k]]
  <2>0. ASSUME NEW k \in 1..fin
        PROVE  v[k] - v[k - 1] = 0 /\ u[k] - u[k - 1] = 0
    <3>1. k \in 1..L /\ k \in 0..L /\ k - 1 \in 0..L /\ k \in 0..fin /\ k - 1 \in 0..fin
          /\ k <= fin
      BY <1>1
    <3>2. g[k] = g[k - 1] + w[k] /\ w[k] = 0 /\ g[k - 1] \in Int /\ g[k] \in Int
      <4> HIDE DEF w
      <4> QED
        BY <1>3, <1>5, <3>1
    <3>3. v[k] = g[k] /\ v[k - 1] = g[k - 1] /\ u[k] = 0 /\ u[k - 1] = 0
      BY <3>1
    <3> HIDE DEF u, v, w
    <3> QED
      BY <3>2, <3>3
  <2>1. \A k \in z + 1..fin : v[k] - v[k - 1] <= u[k] - u[k - 1]
    <3> HIDE DEF u, v
    <3> QED
      BY <1>1, <2>0
  <2>2. \A k \in z + 1..fin : u[k] - u[k - 1] <= v[k] - v[k - 1]
    <3> HIDE DEF u, v
    <3> QED
      BY <1>1, <2>0
  <2>3. /\ z \in Nat /\ z <= fin /\ u[z] <= v[z] /\ v[z] <= u[z]
        /\ \A k \in z..fin : u[k] \in Int /\ v[k] \in Int
    BY <1>1, <1>5
  <2>4. \A k \in z..fin : u[k] <= v[k]
    <3> HIDE DEF u, v, z
    <3> QED
      BY <1>1, <2>2, <2>3, Telescope
  <2>5. \A k \in z..fin : v[k] <= u[k]
    <3> HIDE DEF u, v, z
    <3> QED
      BY <1>1, <2>1, <2>3, Telescope
  <2>6. u[fin] = 0 /\ v[fin] = g[fin] /\ fin \in z..fin
    BY <1>1
  <2> HIDE DEF u, v
  <2> QED
    BY <2>4, <2>5, <2>6, <2>3
<1>7. ASSUME NEW k \in 1..N
      PROVE  /\ p[k] \in Nat /\ d[k] \in Int
             /\ g[batches[k]] - g[start(k)] <= p[k] + d[k]
  <2> DEFINE pre == start(k)
             end == batches[k]
             V == EtherFor(q, pre, end, rate)
  <2>1. pre \in 0..L /\ end \in 0..L /\ pre < end /\ fin <= pre /\ pre \in Nat /\ end \in Nat
    BY <1>1, <1>2
  <2>2. SharesIn(q, pre, end) <= E27_PRECISION_BASE
    <3> HIDE DEF pre, end
    <3>1. SharesIn(q, pre, end) = CumShares(q, end) - CumShares(q, pre)
      BY <2>1, RangeTyped
    <3>2. SharesIn(q, fin, L) = CumShares(q, L) - CumShares(q, fin)
      BY <1>1, <2>1, RangeTyped
    <3>3. CumShares(q, end) <= CumShares(q, L) /\ CumShares(q, fin) <= CumShares(q, pre)
      <4>1. end = L \/ CumShares(q, end) < CumShares(q, L)
        BY <1>1, <2>1 DEF Rising
      <4>2. fin = pre \/ CumShares(q, fin) < CumShares(q, pre)
        BY <1>1, <2>1 DEF Rising
      <4> QED
        BY <1>1, <2>1, <4>1, <4>2, CumTyped
    <3>4. /\ CumShares(q, end) \in Nat /\ CumShares(q, pre) \in Nat
          /\ CumShares(q, L) \in Nat /\ CumShares(q, fin) \in Nat
      BY <1>1, <2>1, CumTyped
    <3>5. CumShares(q, L) - CumShares(q, fin) <= E27_PRECISION_BASE
      BY <3>2
    <3> QED
      BY <3>1, <3>3, <3>4, <3>5, BatchesAssumption
  <2>3. \A i \in pre + 1..end : g[i] = g[i - 1] + EtherFor(q, i - 1, i, rate)
    <3> SUFFICES ASSUME NEW i \in pre + 1..end
                 PROVE  g[i] = g[i - 1] + EtherFor(q, i - 1, i, rate)
      OBVIOUS
    <3> HIDE DEF pre, end
    <3>1. i \in 1..L /\ ~(i <= fin)
      BY <1>1, <2>1
    <3>2. w[i] = EtherFor(q, i - 1, i, rate)
      BY <3>1 DEF WorthAfter
    <3> HIDE DEF w
    <3> QED
      BY <1>5, <3>1, <3>2
  <2>4. /\ g[end] - g[pre] <= V + 1
        /\ \/ g[end] - g[pre] <= V
           \/ /\ IsDiscounted(q, pre, end, rate)
              /\ \E i \in pre + 1..end : ~IsDiscounted(q, i - 1, i, rate)
    <3> HIDE DEF pre, end
    <3> QED
      BY <1>5, <2>1, <2>2, <2>3, BatchCovers
  <2>5. V \in Nat
    <3> HIDE DEF pre, end
    <3> QED
      BY <2>1, PriceBounds
  <2>6. g[end] \in Int /\ g[pre] \in Int
    BY <2>1
  <2>7. /\ IsDiscounted(q, pre, end, rate)
        /\ \E i \in pre + 1..end : ~IsDiscounted(q, i - 1, i, rate)
        => k \in M
    BY <1>1 DEF Mixed
  <2>8. p[k] = V /\ d[k] = IF k \in M THEN 1 ELSE 0
    OBVIOUS
  <2> HIDE DEF p, d, V, M
  <2>9. CASE k \in M
    BY <2>4, <2>5, <2>6, <2>8, <2>9
  <2>10. CASE k \notin M
    <3>1. g[end] - g[pre] <= V
      BY <2>4, <2>7, <2>10
    <3> QED
      BY <2>5, <2>6, <2>8, <2>10, <3>1
  <2> QED
    BY <2>9, <2>10
<1>8. PICK h \in [0..N -> Int] : /\ h[0] = 0
                                 /\ \A k \in 1..N : h[k] = h[k - 1] + p[k]
                                 /\ h[N] = Sum(p)
  <2>1. p \in [1..N -> Int]
    <3>1. \A k \in 1..N : p[k] \in Int
      BY <1>7
    <3>2. p = [k \in 1..N |-> p[k]]
      OBVIOUS
    <3> HIDE DEF p
    <3> QED
      BY <3>1, <3>2
  <2> HIDE DEF p, N
  <2> QED
    BY <1>1, <2>1, SumIterates
<1>9. PICK e \in [0..N -> Int] : /\ e[0] = 0
                                 /\ \A k \in 1..N : e[k] = e[k - 1] + d[k]
                                 /\ e[N] = Sum(d)
  <2>1. d \in [1..N -> Int]
    OBVIOUS
  <2> HIDE DEF d, N
  <2> QED
    BY <1>1, <2>1, SumIterates
<1>10. g[last] <= h[N] + e[N]
  <2> DEFINE x == [k \in 0..N |-> g[at[k]]]
             y == [k \in 0..N |-> h[k] + e[k]]
  <2>1. ASSUME NEW k \in 0..N PROVE at[k] \in 0..L
    <3>1. CASE k = 0
      BY <1>1, <3>1
    <3>2. CASE k # 0
      <4>1. k \in 1..N /\ at[k] = batches[k]
        BY <1>1, <3>2
      <4>2. batches[k] \in fin + 1..L
        BY <1>2, <4>1
      <4> HIDE DEF at
      <4> QED
        BY <1>1, <4>1, <4>2
    <3> QED
      BY <3>1, <3>2
  <2>10. ASSUME NEW k \in 0..N PROVE x[k] \in Int /\ y[k] \in Int
    <3>1. x[k] = g[at[k]] /\ y[k] = h[k] + e[k]
      OBVIOUS
    <3>2. h[k] \in Int /\ e[k] \in Int
      OBVIOUS
    <3>3. g[at[k]] \in Int
      <4> HIDE DEF at
      <4> QED
        BY <2>1
    <3> HIDE DEF at, x, y
    <3> QED
      BY <3>1, <3>2, <3>3
  <2>2. \A k \in z..N : x[k] \in Int /\ y[k] \in Int
    <3> HIDE DEF x, y
    <3> QED
      BY <2>10
  <2>3. z \in Nat /\ z <= N /\ x[z] <= y[z]
    BY <1>1, <1>6, <1>8, <1>9
  <2>4. ASSUME NEW k \in 1..N PROVE x[k] - x[k - 1] <= y[k] - y[k - 1]
    <3>1. k \in 0..N /\ k - 1 \in 0..N /\ (k = 1 <=> k - 1 = 0) /\ k # 0
      BY <1>1
    <3>2. at[k] = batches[k] /\ at[k - 1] = start(k)
      BY <3>1 DEF BatchStart
    <3>3. x[k] = g[batches[k]] /\ x[k - 1] = g[start(k)]
      <4> HIDE DEF at
      <4> QED
        BY <3>1, <3>2
    <3>4. /\ y[k] = h[k] + e[k] /\ y[k - 1] = h[k - 1] + e[k - 1]
          /\ h[k] = h[k - 1] + p[k] /\ e[k] = e[k - 1] + d[k]
          /\ h[k - 1] \in Int /\ e[k - 1] \in Int
      <4> HIDE DEF p, d
      <4> QED
        BY <1>8, <1>9, <3>1
    <3>5. p[k] \in Nat /\ d[k] \in Int /\ g[batches[k]] - g[start(k)] <= p[k] + d[k]
      BY <1>7
    <3> HIDE DEF x, y, p, d, start
    <3>6. g[batches[k]] - g[start(k)] = x[k] - x[k - 1]
      BY <3>3
    <3>7. y[k] - y[k - 1] = p[k] + d[k]
      BY <3>4, <3>5
    <3> QED
      BY <3>5, <3>6, <3>7
  <2>5. \A k \in z..N : x[k] <= y[k]
    <3>1. \A k \in z + 1..N : x[k] - x[k - 1] <= y[k] - y[k - 1]
      <4> HIDE DEF x, y
      <4> QED
        BY <2>4
    <3> HIDE DEF x, y, z, N
    <3> QED
      BY <1>1, <2>2, <2>3, <3>1, Telescope
  <2>6. N \in z..N /\ x[N] = g[last] /\ y[N] = h[N] + e[N]
    BY <1>1
  <2> HIDE DEF x, y, last
  <2>7. x[N] <= y[N]
    BY <2>5, <2>6
  <2> QED
    BY <2>6, <2>7
<1>11. last \in 0..L /\ last \in Nat
  <2>1. N \in 1..N
    BY <1>1
  <2>2. last \in fin + 1..L
    BY <1>2, <2>1
  <2> HIDE DEF last
  <2> QED
    BY <1>1, <2>2
<1>12. g[last] = Sum(WorthAfter(q, fin, last, rate))
  <2>1. g[last] = Sum([k \in 1..last |-> w[k]])
    <3> HIDE DEF w, L, last
    <3> QED
      BY <1>1, <1>4, <1>5, <1>11, SumPrefix
  <2>2. [k \in 1..last |-> w[k]] = WorthAfter(q, fin, last, rate)
    <3> HIDE DEF last
    <3> QED
      BY <1>1, <1>11 DEF WorthAfter
  <2> HIDE DEF w, last
  <2> QED
    BY <2>1, <2>2
<1>13. h[N] = Prefinalize(q, fin, batches, rate)
  BY <1>1, <1>8 DEF Prefinalize
<1>14. e[N] = Cardinality(M)
  <2>1. M \in SUBSET (1..N)
    BY <1>1 DEF Mixed
  <2>2. Sum(d) = Cardinality(M)
    <3> HIDE DEF M, N
    <3> QED
      BY <1>1, <2>1, SumOfOnes
  <2> HIDE DEF d, M
  <2> QED
    BY <1>9, <2>2
<1> HIDE DEF p, d, w, at, z
<1> QED
  BY <1>10, <1>12, <1>13, <1>14

-------------------------------------------------------------------------------
\* The owner index

\* OwnersIndexed for a given queue and index.
Indexed(q, index) ==
  \A o \in Owners : index[o] = {id \in DOMAIN q : q[id].owner = o /\ ~q[id].claimed}

\* The inductive invariant: the index, with the types a new request is made of.
IndexInv ==
  /\ now \in Nat /\ lastReportTimestamp \in Nat /\ pool \in Pools
  /\ queue \in Seq(Request)
  /\ requestsByOwner \in [Owners -> SUBSET Nat]
  /\ Indexed(queue, requestsByOwner)

\* A request that is appended unclaimed, and indexed for its owner.
LEMMA AppendIndexed ==
  ASSUME NEW q \in Seq(Request), NEW index \in [Owners -> SUBSET Nat], Indexed(q, index),
         NEW r \in Request, ~r.claimed
  PROVE  LET new == [index EXCEPT ![r.owner] = @ \cup {Len(q) + 1}]
         IN /\ Append(q, r) \in Seq(Request)
            /\ new \in [Owners -> SUBSET Nat]
            /\ Indexed(Append(q, r), new)
<1> DEFINE new == [index EXCEPT ![r.owner] = @ \cup {Len(q) + 1}]
           p == Append(q, r)
<1>1. Len(q) \in Nat /\ DOMAIN q = 1..Len(q) /\ r.owner \in Owners
  BY LenProperties DEF Request
<1>2. /\ p \in Seq(Request) /\ DOMAIN p = 1..Len(q) + 1
      /\ p[Len(q) + 1] = r /\ \A id \in 1..Len(q) : p[id] = q[id]
  BY <1>1, AppendProperties
<1>3. new \in [Owners -> SUBSET Nat]
  BY <1>1
<1>4. ASSUME NEW o \in Owners
      PROVE  new[o] = {id \in DOMAIN p : p[id].owner = o /\ ~p[id].claimed}
  <2>1. index[o] = {id \in 1..Len(q) : q[id].owner = o /\ ~q[id].claimed}
    BY <1>1 DEF Indexed
  <2>2. new[o] = IF o = r.owner THEN index[o] \cup {Len(q) + 1} ELSE index[o]
    BY <1>1
  <2>3. 1..Len(q) + 1 = 1..Len(q) \cup {Len(q) + 1} /\ Len(q) + 1 \notin 1..Len(q)
    BY <1>1
  <2> HIDE DEF new, p
  <2> QED
    BY <1>2, <2>1, <2>2, <2>3
<1> QED
  BY <1>2, <1>3, <1>4 DEF Indexed

\* An entry that is replaced: what matters is whose it is and whether it is claimed.
LEMMA ReplaceIndexed ==
  ASSUME NEW q \in Seq(Request), NEW index \in [Owners -> SUBSET Nat], Indexed(q, index),
         NEW id \in DOMAIN q, NEW r \in Request,
         NEW new \in [Owners -> SUBSET Nat],
         \A o \in Owners : new[o] = (index[o] \ {id})
                                      \cup (IF r.owner = o /\ ~r.claimed THEN {id} ELSE {})
  PROVE  [q EXCEPT ![id] = r] \in Seq(Request) /\ Indexed([q EXCEPT ![id] = r], new)
<1> DEFINE p == [q EXCEPT ![id] = r]
<1>1. p \in Seq(Request) /\ DOMAIN p = DOMAIN q
  BY ExceptSeq, LenProperties
<1>2. p[id] = r /\ \A k \in DOMAIN q \ {id} : p[k] = q[k]
  BY LenProperties
<1>3. ASSUME NEW o \in Owners
      PROVE  new[o] = {k \in DOMAIN p : p[k].owner = o /\ ~p[k].claimed}
  <2>1. index[o] = {k \in DOMAIN q : q[k].owner = o /\ ~q[k].claimed}
    BY DEF Indexed
  <2> HIDE DEF p
  <2> QED
    BY <1>1, <1>2, <2>1
<1> QED
  BY <1>1, <1>3 DEF Indexed

\* The shares of an amount are a number above zero.
LEMMA SharesPositive ==
  ASSUME NEW a \in Amounts, pool \in Pools
  PROVE  GetSharesByPooledEth(a) \in Nat \ {0}
<1> DEFINE e == pool.ether
           x == a * pool.shares
<1>1. a \in Nat /\ pool.shares \in Nat /\ e \in Nat \ {0} /\ x >= e
  BY WithdrawalAssumption
<1>2. x \in Nat
  BY <1>1, ProductTyped
<1> HIDE DEF e, x
<1>3. x \div e \in Nat /\ x < e * (x \div e) + e
  BY <1>1, <1>2, Quotient
<1>4. x \div e # 0
  <2> SUFFICES ASSUME x \div e = 0 PROVE FALSE
    OBVIOUS
  <2>1. e * (x \div e) = 0
    BY <1>1
  <2> QED
    BY <1>1, <1>2, <1>3, <2>1
<1> QED
  BY <1>3, <1>4 DEF GetSharesByPooledEth, e, x

\* What a request appends to the queue.
LEMMA RequestAppends ==
  ASSUME IndexInv, NEW a \in Amounts, NEW o \in Owners, RequestWithdrawals(a, o)
  PROVE  \E r \in Request :
           /\ queue' = Append(queue, r)
           /\ requestsByOwner' = IndexWith(o, Len(queue) + 1)
           /\ r.owner = o /\ ~r.claimed
           /\ r.cumulativeStETH = CumStETH(queue, Len(queue)) + a
           /\ r.cumulativeShares = CumShares(queue, Len(queue)) + GetSharesByPooledEth(a)
<1> DEFINE id == Len(queue) + 1
           upTo(f) == IF id = 1 THEN 0 ELSE queue[id - 1][f]
           r == [cumulativeStETH  |-> upTo("cumulativeStETH") + a,
                 cumulativeShares |-> upTo("cumulativeShares") + GetSharesByPooledEth(a),
                 owner            |-> o,
                 timestamp        |-> now,
                 claimed          |-> FALSE,
                 reportTimestamp  |-> lastReportTimestamp]
<1>1. queue' = Append(queue, r) /\ requestsByOwner' = IndexWith(o, id)
  BY Zenon DEF RequestWithdrawals, Enqueue
<1>2. Len(queue) \in Nat
  BY LenProperties DEF IndexInv
<1>3. /\ upTo("cumulativeStETH") = CumStETH(queue, Len(queue))
      /\ upTo("cumulativeShares") = CumShares(queue, Len(queue))
  BY <1>2 DEF CumStETH, CumShares
<1>4. CumStETH(queue, Len(queue)) \in Nat /\ CumShares(queue, Len(queue)) \in Nat
  BY <1>2, CumTyped DEF IndexInv
<1>5. r \in Request
  <2> HIDE DEF upTo
  <2> QED
    BY <1>3, <1>4, SharesPositive, WithdrawalAssumption DEF IndexInv, Request
<1>6. /\ r.owner = o /\ ~r.claimed
      /\ r.cumulativeStETH = CumStETH(queue, Len(queue)) + a
      /\ r.cumulativeShares = CumShares(queue, Len(queue)) + GetSharesByPooledEth(a)
  <2> HIDE DEF upTo
  <2> QED
    BY <1>3
<1> HIDE DEF r
<1> QED
  BY <1>1, <1>5, <1>6

\* Nothing is requested yet.
LEMMA InitIndexed == Init => IndexInv
<1> SUFFICES ASSUME Init PROVE IndexInv
  OBVIOUS
<1>1. queue = << >> /\ requestsByOwner = [o \in Owners |-> {}]
  BY DEF Init
<1>2. queue \in Seq(Request) /\ DOMAIN queue = {}
  BY <1>1
<1>3. Indexed(queue, requestsByOwner)
  BY <1>1, <1>2 DEF Indexed
<1> QED
  BY <1>1, <1>2, <1>3, WithdrawalAssumption DEF Init, IndexInv

\* A request enters.
LEMMA RequestKeeps ==
  ASSUME IndexInv, NEW a \in Amounts, NEW o \in Owners, RequestWithdrawals(a, o)
  PROVE  IndexInv'
<1>1. PICK r \in Request :
        /\ queue' = Append(queue, r)
        /\ requestsByOwner' = IndexWith(o, Len(queue) + 1)
        /\ r.owner = o /\ ~r.claimed
  BY RequestAppends
<1>2. UNCHANGED <<now, pool, lastReportTimestamp>>
  BY DEF RequestWithdrawals, reportVars
<1>3. requestsByOwner' = [requestsByOwner EXCEPT ![r.owner] = @ \cup {Len(queue) + 1}]
  BY <1>1 DEF IndexWith
<1>4. /\ Append(queue, r) \in Seq(Request)
      /\ requestsByOwner' \in [Owners -> SUBSET Nat]
      /\ Indexed(Append(queue, r), requestsByOwner')
  <2>1. /\ queue \in Seq(Request) /\ requestsByOwner \in [Owners -> SUBSET Nat]
        /\ Indexed(queue, requestsByOwner) /\ ~r.claimed
    BY <1>1 DEF IndexInv
  <2> QED
    BY <1>3, <2>1, AppendIndexed
<1> QED
  BY <1>1, <1>2, <1>4 DEF IndexInv

\* A request changes hands.
LEMMA TransferKeeps ==
  ASSUME IndexInv, NEW from \in Owners, NEW to \in Owners, NEW id \in DOMAIN queue,
         TransferFrom(from, to, id)
  PROVE  IndexInv'
<1> DEFINE r == [queue[id] EXCEPT !.owner = to]
<1>1. /\ to # from /\ ~queue[id].claimed /\ queue[id].owner = from
      /\ queue' = [queue EXCEPT ![id] = r]
      /\ requestsByOwner' = [requestsByOwner EXCEPT ![from] = @ \ {id}, ![to] = @ \cup {id}]
      /\ UNCHANGED <<now, pool, lastReportTimestamp>>
  BY DEF TransferFrom, IndexMoved, reportVars
<1>2. queue[id] \in Request
  BY ElementOfSeq DEF IndexInv
<1>3. r \in Request /\ r.owner = to /\ ~r.claimed
  BY <1>1, <1>2 DEF Request
<1>4. id \in Nat
  BY LenProperties DEF IndexInv
<1>5. requestsByOwner' \in [Owners -> SUBSET Nat]
  BY <1>1, <1>4 DEF IndexInv
<1>6. ASSUME NEW o \in Owners
      PROVE  requestsByOwner'[o] = (requestsByOwner[o] \ {id})
                                     \cup (IF r.owner = o /\ ~r.claimed THEN {id} ELSE {})
  <2>1. id \in requestsByOwner[o] <=> o = from
    BY <1>1 DEF IndexInv, Indexed
  <2>2. requestsByOwner'[o] = IF o = to THEN requestsByOwner[o] \cup {id}
                              ELSE IF o = from THEN requestsByOwner[o] \ {id}
                              ELSE requestsByOwner[o]
    BY <1>1 DEF IndexInv
  <2> HIDE DEF r
  <2> QED
    BY <1>1, <1>3, <2>1, <2>2
<1> HIDE DEF r
<1> QED
  BY <1>1, <1>3, <1>5, <1>6, ReplaceIndexed DEF IndexInv

\* A request is claimed.
LEMMA ClaimKeeps ==
  ASSUME IndexInv, NEW sender \in Owners, NEW id \in DOMAIN queue, NEW hint,
         Claim(sender, id, hint)
  PROVE  IndexInv'
<1> DEFINE r == [queue[id] EXCEPT !.claimed = TRUE]
<1>1. /\ queue[id].owner = sender /\ ~queue[id].claimed
      /\ queue' = [queue EXCEPT ![id] = r]
      /\ requestsByOwner' = [requestsByOwner EXCEPT ![sender] = @ \ {id}]
      /\ UNCHANGED <<now, pool, lastReportTimestamp>>
  BY DEF Claim, reportVars
<1>2. queue[id] \in Request
  BY ElementOfSeq DEF IndexInv
<1>3. r \in Request /\ r.claimed
  BY <1>2 DEF Request
<1>4. requestsByOwner' \in [Owners -> SUBSET Nat]
  BY <1>1 DEF IndexInv
<1>5. ASSUME NEW o \in Owners
      PROVE  requestsByOwner'[o] = (requestsByOwner[o] \ {id})
                                     \cup (IF r.owner = o /\ ~r.claimed THEN {id} ELSE {})
  <2>1. id \in requestsByOwner[o] <=> o = sender
    BY <1>1 DEF IndexInv, Indexed
  <2>2. requestsByOwner'[o] = IF o = sender THEN requestsByOwner[o] \ {id}
                              ELSE requestsByOwner[o]
    BY <1>1 DEF IndexInv
  <2> HIDE DEF r
  <2> QED
    BY <1>3, <2>1, <2>2
<1> HIDE DEF r
<1> QED
  BY <1>1, <1>3, <1>4, <1>5, ReplaceIndexed DEF IndexInv

\* The clock, the pause and the reports leave the requests alone.
LEMMA OthersKeep ==
  ASSUME IndexInv,
         \/ Tick \/ ChangePause \/ UNCHANGED vars
         \/ \E b \in BOOLEAN, t, m \in 0..now, p \in Pools, e \in Budgets :
              OracleReport(b, t, p, m, e)
  PROVE  IndexInv'
<1> DEFINE Kept == /\ UNCHANGED requestVars
                   /\ now' \in Nat /\ lastReportTimestamp' \in Nat /\ pool' \in Pools
<1>1. Kept
  <2>1. CASE Tick \/ ChangePause \/ UNCHANGED vars
    BY <2>1 DEF IndexInv, Tick, ChangePause, vars, reportVars
  <2>2. ASSUME NEW b \in BOOLEAN, NEW t \in 0..now, NEW m \in 0..now, NEW p \in Pools,
               NEW e \in Budgets, OracleReport(b, t, p, m, e)
        PROVE  Kept
    <3>1. /\ UNCHANGED requestVars /\ UNCHANGED now
          /\ pool' = p /\ lastReportTimestamp' = t
      BY <2>2, Zenon DEF OracleReport, OnOracleReport
    <3>2. t \in Nat
      BY DEF IndexInv
    <3> QED
      BY <3>1, <3>2 DEF IndexInv, requestVars
  <2> HIDE DEF Kept
  <2> QED
    BY <2>1, <2>2, Zenon
<1> QED
  BY <1>1 DEF requestVars, IndexInv, Indexed

\* One step per action.
LEMMA NextIndexed == IndexInv /\ [Next]_vars => IndexInv'
<1> SUFFICES ASSUME IndexInv, [Next]_vars PROVE IndexInv'
  OBVIOUS
<1>1. ASSUME NEW a \in Amounts, NEW o \in Owners, RequestWithdrawals(a, o) PROVE IndexInv'
  BY <1>1, RequestKeeps
<1>2. ASSUME NEW from \in Owners, NEW to \in Owners, NEW id \in DOMAIN queue,
             TransferFrom(from, to, id)
      PROVE  IndexInv'
  BY <1>2, TransferKeeps
<1>3. ASSUME NEW o \in Owners, NEW id \in DOMAIN queue, NEW hint, Claim(o, id, hint)
      PROVE  IndexInv'
  BY <1>3, ClaimKeeps
<1>4. ASSUME NEW o \in Owners, NEW id \in DOMAIN queue, ClaimWithdrawal(o, id) PROVE IndexInv'
  BY <1>4, <1>3 DEF ClaimWithdrawal
<1> QED
  BY <1>1, <1>2, <1>3, <1>4, OthersKeep, Zenon DEF Next

-------------------------------------------------------------------------------
\* The queue and its checkpoints

\* The inductive invariant: the index, and a queue whose amounts add up, finalized
\* up to where the checkpoints say.
EscrowInv ==
  /\ IndexInv
  /\ Rising(queue)
  /\ lastFinalizedRequestId \in 0..Len(queue)
  /\ Ascends(checkpoints, lastFinalizedRequestId)
  /\ \A id \in DOMAIN queue : queue[id].claimed => id <= lastFinalizedRequestId
  /\ resumeSince \in Nat /\ bunkerModeSince \in Nat
  /\ lockedEtherAmount \in Nat /\ sent \in Nat /\ mixed \in Nat

\* A request that is replaced by one of the same amount.
LEMMA Replaced ==
  ASSUME NEW q \in Seq(Request), Rising(q), NEW id \in DOMAIN q, NEW r \in Request,
         r.cumulativeStETH = q[id].cumulativeStETH,
         r.cumulativeShares = q[id].cumulativeShares
  PROVE  LET p == [q EXCEPT ![id] = r]
         IN /\ p \in Seq(Request) /\ Len(p) = Len(q) /\ DOMAIN p = DOMAIN q
            /\ Continues(p, q) /\ Rising(p)
            /\ p[id] = r /\ \A k \in DOMAIN q : k # id => p[k] = q[k]
<1> DEFINE p == [q EXCEPT ![id] = r]
<1>1. /\ p \in Seq(Request) /\ Len(p) = Len(q) /\ DOMAIN p = DOMAIN q
      /\ DOMAIN q = 1..Len(q) /\ Len(q) \in Nat
  BY ExceptSeq, LenProperties
<1>2. p[id] = r /\ \A k \in DOMAIN q : k # id => p[k] = q[k]
  BY <1>1
<1> HIDE DEF p
<1>3. Continues(p, q)
  BY <1>1, <1>2 DEF Continues
<1>4. Rising(p)
  BY <1>1, <1>3, SameRises
<1> QED
  BY <1>1, <1>2, <1>3, <1>4 DEF p

\* The queue after a request.
LEMMA RequestGrows ==
  ASSUME EscrowInv, NEW a \in Amounts, NEW o \in Owners, RequestWithdrawals(a, o)
  PROVE  /\ queue' \in Seq(Request) /\ Len(queue') = Len(queue) + 1
         /\ Rising(queue') /\ Continues(queue', queue)
         /\ \A id \in 1..Len(queue) : queue'[id] = queue[id]
         /\ queue'[Len(queue) + 1].owner = o /\ ~queue'[Len(queue) + 1].claimed
         /\ UNCHANGED <<lastFinalizedRequestId, checkpoints, mixed, lockedEtherAmount, sent>>
<1>1. PICK r \in Request :
             /\ queue' = Append(queue, r)
             /\ r.owner = o /\ ~r.claimed
             /\ r.cumulativeStETH = CumStETH(queue, Len(queue)) + a
             /\ r.cumulativeShares = CumShares(queue, Len(queue)) + GetSharesByPooledEth(a)
  BY RequestAppends DEF EscrowInv
<1>2. /\ GetSharesByPooledEth(a) \in Nat \ {0} /\ a \in Nat \ {0}
      /\ queue \in Seq(Request) /\ Rising(queue) /\ Len(queue) \in Nat
  BY SharesPositive, WithdrawalAssumption, LenProperties DEF EscrowInv, IndexInv
<1>3. CumStETH(queue, Len(queue)) \in Nat /\ CumShares(queue, Len(queue)) \in Nat
  BY <1>2, CumTyped
<1>4. /\ r.cumulativeStETH > CumStETH(queue, Len(queue))
      /\ r.cumulativeShares > CumShares(queue, Len(queue))
  BY <1>1, <1>2, <1>3
<1>5. Rising(queue') /\ Continues(queue', queue)
  BY <1>1, <1>2, <1>4, AppendRises
<1>6. /\ queue' \in Seq(Request) /\ Len(queue') = Len(queue) + 1
      /\ queue'[Len(queue) + 1] = r /\ \A id \in 1..Len(queue) : queue'[id] = queue[id]
  BY <1>1, <1>2, AppendProperties
<1>7. UNCHANGED <<lastFinalizedRequestId, checkpoints, mixed, lockedEtherAmount, sent>>
  BY DEF RequestWithdrawals, finalVars
<1> QED
  BY <1>1, <1>5, <1>6, <1>7

\* The queue after a transfer.
LEMMA TransferReplaces ==
  ASSUME EscrowInv, NEW from \in Owners, NEW to \in Owners, NEW id \in DOMAIN queue,
         TransferFrom(from, to, id)
  PROVE  /\ queue' \in Seq(Request) /\ Len(queue') = Len(queue) /\ DOMAIN queue' = DOMAIN queue
         /\ Rising(queue') /\ Continues(queue', queue)
         /\ \A k \in DOMAIN queue : k # id => queue'[k] = queue[k]
         /\ queue'[id].owner = to /\ ~queue'[id].claimed /\ ~queue[id].claimed
         /\ UNCHANGED <<lastFinalizedRequestId, checkpoints, mixed, lockedEtherAmount, sent>>
<1> DEFINE r == [queue[id] EXCEPT !.owner = to]
<1>1. /\ ~queue[id].claimed /\ queue' = [queue EXCEPT ![id] = r]
      /\ UNCHANGED <<lastFinalizedRequestId, checkpoints, mixed, lockedEtherAmount, sent>>
  BY DEF TransferFrom, finalVars
<1>2. queue \in Seq(Request) /\ Rising(queue) /\ queue[id] \in Request
  BY ElementOfSeq DEF EscrowInv, IndexInv
<1>3. /\ r \in Request /\ r.owner = to /\ r.claimed = queue[id].claimed
      /\ r.cumulativeStETH = queue[id].cumulativeStETH
      /\ r.cumulativeShares = queue[id].cumulativeShares
  BY <1>2 DEF Request
<1> HIDE DEF r
<1>4. /\ queue' \in Seq(Request) /\ Len(queue') = Len(queue) /\ DOMAIN queue' = DOMAIN queue
      /\ Continues(queue', queue) /\ Rising(queue')
      /\ queue'[id] = r /\ \A k \in DOMAIN queue : k # id => queue'[k] = queue[k]
  BY <1>1, <1>2, <1>3, Replaced
<1> QED
  BY <1>1, <1>3, <1>4

\* The queue after a claim.
LEMMA ClaimReplaces ==
  ASSUME EscrowInv, NEW sender \in Owners, NEW id \in DOMAIN queue, NEW hint,
         Claim(sender, id, hint)
  PROVE  /\ queue' \in Seq(Request) /\ Len(queue') = Len(queue) /\ DOMAIN queue' = DOMAIN queue
         /\ Rising(queue') /\ Continues(queue', queue)
         /\ \A k \in DOMAIN queue : k # id => queue'[k] = queue[k]
         /\ queue'[id].owner = queue[id].owner
         /\ queue'[id].claimed /\ ~queue[id].claimed
         /\ id \in 1..lastFinalizedRequestId
         /\ Hints(checkpoints, id, hint)
         /\ lockedEtherAmount >= CalculateClaimableEther(id, hint)
         /\ lockedEtherAmount' = lockedEtherAmount - CalculateClaimableEther(id, hint)
         /\ sent' = sent + CalculateClaimableEther(id, hint)
         /\ UNCHANGED <<lastFinalizedRequestId, checkpoints, mixed>>
<1> DEFINE r == [queue[id] EXCEPT !.claimed = TRUE]
<1>1. /\ ~queue[id].claimed /\ queue' = [queue EXCEPT ![id] = r]
      /\ id \in 1..lastFinalizedRequestId
      /\ HintAccepted(id, hint)
      /\ lockedEtherAmount >= CalculateClaimableEther(id, hint)
      /\ lockedEtherAmount' = lockedEtherAmount - CalculateClaimableEther(id, hint)
      /\ sent' = sent + CalculateClaimableEther(id, hint)
      /\ UNCHANGED <<lastFinalizedRequestId, checkpoints, mixed>>
  BY DEF Claim, finalVars
<1>2. queue \in Seq(Request) /\ Rising(queue) /\ queue[id] \in Request
  BY ElementOfSeq DEF EscrowInv, IndexInv
<1>3. /\ r \in Request /\ r.claimed /\ r.owner = queue[id].owner
      /\ r.cumulativeStETH = queue[id].cumulativeStETH
      /\ r.cumulativeShares = queue[id].cumulativeShares
  BY <1>2 DEF Request
<1> HIDE DEF r
<1>4. /\ queue' \in Seq(Request) /\ Len(queue') = Len(queue) /\ DOMAIN queue' = DOMAIN queue
      /\ Continues(queue', queue) /\ Rising(queue')
      /\ queue'[id] = r /\ \A k \in DOMAIN queue : k # id => queue'[k] = queue[k]
  BY <1>1, <1>2, <1>3, Replaced
<1>5. Hints(checkpoints, id, hint)
  BY <1>1 DEF HintAccepted, Hints
<1> QED
  BY <1>1, <1>3, <1>4, <1>5

\* A report that finalizes the batches at the rate.
Settles(rate, batches) ==
  /\ rate \in Nat \ {0}
  /\ InOrder(batches, lastFinalizedRequestId, Len(queue)) /\ Len(batches) # 0
  /\ lastFinalizedRequestId' = batches[Len(batches)]
  /\ lastFinalizedRequestId < lastFinalizedRequestId'
  /\ lastFinalizedRequestId' <= Len(queue)
  /\ checkpoints' = Append(checkpoints, [fromRequestId |-> lastFinalizedRequestId + 1,
                                         maxShareRate  |-> rate])
  /\ lockedEtherAmount' = lockedEtherAmount
                            + Prefinalize(queue, lastFinalizedRequestId, batches, rate)
  /\ mixed' = mixed + Cardinality(Mixed(queue, lastFinalizedRequestId, batches, rate))
  /\ Prefinalize(queue, lastFinalizedRequestId, batches, rate) \in Nat
  /\ Cardinality(Mixed(queue, lastFinalizedRequestId, batches, rate)) \in Nat

\* What the oracle puts into its report is in order.
LEMMA BatchesInOrder ==
  ASSUME EscrowInv, NEW rate \in Nat, NEW maxTimestamp, NEW budget \in Budgets
  PROVE  InOrder(BatchesFor(rate, maxTimestamp, budget), lastFinalizedRequestId, Len(queue))
<1> DEFINE fin == lastFinalizedRequestId
           s == StartState(budget)
           turns == MaxRequests + 1
<1>1. /\ queue \in Seq(Request) /\ Rising(queue) /\ fin \in Nat /\ turns \in Nat
      /\ budget \in Int
  BY LenProperties, WithdrawalAssumption DEF EscrowInv, IndexInv
<1>2. s \in LoopStates(fin, Len(queue))
  <2>1. s.batches = << >> /\ << >> \in Seq(Nat) /\ Len(<< >>) = 0
    BY DEF StartState
  <2>2. InOrder(s.batches, fin, Len(queue))
    BY <2>1 DEF InOrder
  <2>3. s \in [budget : Int, batches : Seq(Nat), stopped : BOOLEAN]
    BY <1>1, <2>1 DEF StartState
  <2> QED
    BY <2>2, <2>3 DEF LoopStates
<1> HIDE DEF s, turns, fin
<1>3. CalculateFinalizationBatches(queue, fin, rate, maxTimestamp, turns, s)
        \in LoopStates(fin, Len(queue))
  BY <1>1, <1>2, CallInOrder
<1> QED
  BY <1>3 DEF BatchesFor, LoopStates, s, turns, fin

\* The simulated rate is a number.
LEMMA RateTyped == ASSUME NEW p \in Pools PROVE SimulatedShareRate(p) \in Nat
<1> DEFINE e == p.ether
           s == p.shares
           x == e * E27_PRECISION_BASE
<1>1. e \in Nat /\ s \in Nat \ {0} /\ E27_PRECISION_BASE \in Nat
  BY WithdrawalAssumption, BatchesAssumption
<1>2. x \in Nat
  BY <1>1, ProductTyped
<1> HIDE DEF x, s
<1>3. x \div s \in Nat
  BY <1>1, <1>2, Quotient
<1> QED
  BY <1>3 DEF SimulatedShareRate, x, s

\* A report finalizes nothing, or what it says.
LEMMA ReportSettles ==
  ASSUME EscrowInv, NEW b \in BOOLEAN, NEW t \in 0..now, NEW m \in 0..now,
         NEW p \in Pools, NEW e \in Budgets, OracleReport(b, t, p, m, e)
  PROVE  /\ UNCHANGED <<queue, requestsByOwner, now, resumeSince, sent>>
         /\ pool' = p /\ lastReportTimestamp' \in Nat /\ bunkerModeSince' \in Nat
         /\ \/ UNCHANGED <<lastFinalizedRequestId, checkpoints, mixed, lockedEtherAmount>>
            \/ \E rate, batches : Settles(rate, batches)
<1> DEFINE rate == SimulatedShareRate(p)
           batches == BatchesFor(rate, m, e)
           fin == lastFinalizedRequestId
           total == Prefinalize(queue, fin, batches, rate)
<1>1. /\ UNCHANGED <<queue, requestsByOwner, now, resumeSince, sent>>
      /\ pool' = p /\ OnOracleReport(b, lastReportTimestamp, t)
      /\ FinalizeReported(batches, rate)
  BY Zenon DEF OracleReport, requestVars
<1>2. lastReportTimestamp' \in Nat /\ bunkerModeSince' \in Nat
  <2>1. lastReportTimestamp' = t /\ bunkerModeSince' \in {bunkerModeSince, lastReportTimestamp,
                                                           BUNKER_MODE_DISABLED_TIMESTAMP}
    BY <1>1 DEF OnOracleReport
  <2> QED
    BY <2>1, WithdrawalAssumption DEF EscrowInv, IndexInv
<1>3. rate \in Nat
  BY RateTyped
<1> HIDE DEF rate
<1>4. InOrder(batches, fin, Len(queue))
  BY <1>3, BatchesInOrder
<1> HIDE DEF batches
<1>5. queue \in Seq(Request) /\ Rising(queue) /\ fin \in 0..Len(queue) /\ Len(queue) \in Nat
  BY LenProperties DEF EscrowInv, IndexInv
<1>6. total \in Nat
  <2> HIDE DEF fin
  <2> QED
    BY <1>3, <1>4, <1>5, PrefinalizeTyped
<1>7. CASE EtherToLock(batches, rate) = 0
  <2>1. UNCHANGED <<lastFinalizedRequestId, checkpoints, mixed, lockedEtherAmount>>
    BY <1>1, <1>7 DEF FinalizeReported, finalVars
  <2> QED
    BY <1>1, <1>2, <2>1
<1>8. CASE EtherToLock(batches, rate) # 0
  <2>1. ~IsPaused /\ EtherToLock(batches, rate) = total
    BY <1>8 DEF EtherToLock
  <2>2. batches # << >>
    <3> SUFFICES ASSUME batches = << >> PROVE FALSE
      OBVIOUS
    <3> DEFINE d == [n \in DOMAIN batches |->
                       EtherFor(queue, BatchStart(fin, batches, n), batches[n], rate)]
               n == 0
    <3>1. d \in [1..n -> Int] /\ \A k \in 1..n : d[k] = 0
      OBVIOUS
    <3>2. Sum(d) = 0
      <4> HIDE DEF d
      <4>1. n \in Nat
        OBVIOUS
      <4> HIDE DEF n
      <4> QED
        BY <3>1, <4>1, SumZero
    <3>3. total = 0
      BY <3>2 DEF Prefinalize
    <3> QED
      BY <1>8, <2>1, <3>3
  <2>3. Len(batches) \in Nat /\ Len(batches) # 0 /\ DOMAIN batches = 1..Len(batches)
    BY <1>4, <2>2, LenProperties, EmptySeq DEF InOrder
  <2>4. rate # 0
    BY <1>1, <2>1, <2>2 DEF FinalizeReported
  <2>5. /\ Finalize(batches[Len(batches)], total, rate)
        /\ mixed' = mixed + Cardinality(MixedBatches(batches, rate))
    BY <1>1, <1>8, <2>1 DEF FinalizeReported
  <2>6. MixedBatches(batches, rate) = Mixed(queue, fin, batches, rate)
    BY DEF MixedBatches, Mixed
  <2>7. Cardinality(Mixed(queue, fin, batches, rate)) \in Nat
    <3>1. IsFiniteSet(1..Len(batches))
      BY <2>3, FS_Interval
    <3>2. Mixed(queue, fin, batches, rate) \subseteq 1..Len(batches)
      BY <2>3 DEF Mixed
    <3> QED
      BY <3>1, <3>2, FS_Subset, FS_CardinalityType
  <2>8. Settles(rate, batches)
    <3> DEFINE last == batches[Len(batches)]
    <3>1. last \in fin + 1..Len(queue)
          /\ checkpoints' = Append(checkpoints, [fromRequestId |-> fin + 1,
                                                 maxShareRate  |-> rate])
          /\ lockedEtherAmount' = lockedEtherAmount + total
          /\ lastFinalizedRequestId' = last
      BY <2>5 DEF Finalize, WithCheckpoint
    <3>2. fin < last /\ last <= Len(queue)
      <4> HIDE DEF last, fin
      <4> QED
        BY <1>5, <3>1
    <3> QED
      BY <1>3, <1>4, <1>6, <2>3, <2>4, <2>5, <2>6, <2>7, <3>1, <3>2 DEF Settles
  <2> QED
    BY <1>1, <1>2, <2>8
<1> QED
  BY <1>7, <1>8

\* What an action that leaves the queue and the checkpoints alone must keep.
Numbers ==
  /\ UNCHANGED <<queue, lastFinalizedRequestId, checkpoints, mixed, lockedEtherAmount, sent>>
  /\ resumeSince' \in Nat /\ bunkerModeSince' \in Nat

\* The clock and the pause move numbers only.
LEMMA PauseTyped ==
  ASSUME EscrowInv, Tick \/ ChangePause \/ UNCHANGED vars
  PROVE  Numbers
<1>1. CASE Tick \/ UNCHANGED vars
  BY <1>1 DEF Tick, vars, requestVars, finalVars, reportVars, EscrowInv, Numbers
<1>2. CASE ChangePause
  <2>1. /\ UNCHANGED <<queue, lastFinalizedRequestId, checkpoints, mixed, lockedEtherAmount,
                       sent, bunkerModeSince>>
        /\ Resume \/ (\E d \in Durations : PauseFor(d)) \/ (\E t \in PauseEnds : PauseUntil(t))
    BY <1>2 DEF ChangePause, requestVars, finalVars, reportVars
  <2>2. resumeSince' \in Nat
    <3>1. now \in Nat /\ PAUSE_INFINITELY \in Nat
      BY WithdrawalAssumption DEF EscrowInv, IndexInv
    <3>2. CASE Resume
      BY <3>1, <3>2 DEF Resume
    <3>3. ASSUME NEW d \in Durations, PauseFor(d) PROVE resumeSince' \in Nat
      BY <3>1, <3>3, WithdrawalAssumption DEF PauseFor
    <3>4. ASSUME NEW t \in PauseEnds, PauseUntil(t) PROVE resumeSince' \in Nat
      BY <3>1, <3>4, WithdrawalAssumption DEF PauseUntil
    <3> QED
      BY <2>1, <3>2, <3>3, <3>4
  <2> QED
    BY <2>1, <2>2 DEF EscrowInv, Numbers
<1> QED
  BY <1>1, <1>2

LEMMA InitEscrow == Init => EscrowInv
<1> SUFFICES ASSUME Init PROVE EscrowInv
  OBVIOUS
<1>1. /\ queue = << >> /\ checkpoints = << >> /\ lastFinalizedRequestId = 0
      /\ resumeSince = PAUSE_INFINITELY /\ bunkerModeSince = BUNKER_MODE_DISABLED_TIMESTAMP
      /\ lockedEtherAmount = 0 /\ sent = 0 /\ mixed = 0
  BY DEF Init
<1>2. Len(queue) = 0 /\ DOMAIN queue = {} /\ Len(checkpoints) = 0
  BY <1>1
<1>3. Rising(queue)
  BY <1>2 DEF Rising
<1>4. Ascends(checkpoints, lastFinalizedRequestId)
  BY <1>1, <1>2 DEF Ascends
<1> QED
  BY <1>1, <1>2, <1>3, <1>4, InitIndexed, WithdrawalAssumption DEF EscrowInv

\* One step per action.
LEMMA NextEscrow == EscrowInv /\ [Next]_vars => EscrowInv'
<1> SUFFICES ASSUME EscrowInv, [Next]_vars PROVE EscrowInv'
  OBVIOUS
<1> DEFINE fin == lastFinalizedRequestId
           Rest == /\ Rising(queue')
                   /\ fin' \in 0..Len(queue')
                   /\ Ascends(checkpoints', fin')
                   /\ \A id \in DOMAIN queue' : queue'[id].claimed => id <= fin'
                   /\ resumeSince' \in Nat /\ bunkerModeSince' \in Nat
                   /\ lockedEtherAmount' \in Nat /\ sent' \in Nat /\ mixed' \in Nat
<1>1. IndexInv'
  BY NextIndexed DEF EscrowInv
<1>2. /\ Rising(queue) /\ fin \in 0..Len(queue) /\ Len(queue) \in Nat
      /\ Ascends(checkpoints, fin) /\ queue \in Seq(Request) /\ DOMAIN queue = 1..Len(queue)
      /\ \A id \in DOMAIN queue : queue[id].claimed => id <= fin
      /\ resumeSince \in Nat /\ bunkerModeSince \in Nat
      /\ lockedEtherAmount \in Nat /\ sent \in Nat /\ mixed \in Nat
  BY LenProperties DEF EscrowInv, IndexInv
<1>3. ASSUME Numbers PROVE Rest
  BY <1>2, <1>3 DEF Numbers
<1>4. ASSUME NEW a \in Amounts, NEW o \in Owners, RequestWithdrawals(a, o) PROVE Rest
  <2>1. /\ queue' \in Seq(Request) /\ Len(queue') = Len(queue) + 1
        /\ Rising(queue') /\ \A id \in 1..Len(queue) : queue'[id] = queue[id]
        /\ ~queue'[Len(queue) + 1].claimed
        /\ UNCHANGED <<lastFinalizedRequestId, checkpoints, mixed, lockedEtherAmount, sent>>
    BY <1>4, RequestGrows
  <2>2. DOMAIN queue' = 1..Len(queue) + 1
    BY <2>1, LenProperties
  <2>3. UNCHANGED <<resumeSince, bunkerModeSince>>
    BY <1>4 DEF RequestWithdrawals, reportVars
  <2>4. fin' \in 0..Len(queue')
    BY <1>2, <2>1
  <2>5. \A id \in DOMAIN queue' : queue'[id].claimed => id <= fin'
    BY <1>2, <2>1, <2>2
  <2> QED
    BY <1>2, <2>1, <2>3, <2>4, <2>5
<1>5. ASSUME NEW from \in Owners, NEW to \in Owners, NEW id \in DOMAIN queue,
             TransferFrom(from, to, id)
      PROVE  Rest
  <2>1. /\ Len(queue') = Len(queue) /\ DOMAIN queue' = DOMAIN queue /\ Rising(queue')
        /\ \A k \in DOMAIN queue : k # id => queue'[k] = queue[k]
        /\ ~queue'[id].claimed
        /\ UNCHANGED <<lastFinalizedRequestId, checkpoints, mixed, lockedEtherAmount, sent>>
    BY <1>5, TransferReplaces
  <2>2. UNCHANGED <<resumeSince, bunkerModeSince>>
    BY <1>5 DEF TransferFrom, reportVars
  <2>3. \A k \in DOMAIN queue' : queue'[k].claimed => k <= fin'
    BY <1>2, <2>1
  <2> QED
    BY <1>2, <2>1, <2>2, <2>3
<1>6. ASSUME NEW o \in Owners, NEW id \in DOMAIN queue, NEW hint, Claim(o, id, hint)
      PROVE  Rest
  <2> DEFINE x == CalculateClaimableEther(id, hint)
  <2>1. /\ Len(queue') = Len(queue) /\ DOMAIN queue' = DOMAIN queue /\ Rising(queue')
        /\ \A k \in DOMAIN queue : k # id => queue'[k] = queue[k]
        /\ id \in 1..lastFinalizedRequestId /\ Hints(checkpoints, id, hint)
        /\ lockedEtherAmount >= x /\ lockedEtherAmount' = lockedEtherAmount - x
        /\ sent' = sent + x
        /\ UNCHANGED <<lastFinalizedRequestId, checkpoints, mixed>>
    BY <1>6, ClaimReplaces
  <2>2. UNCHANGED <<resumeSince, bunkerModeSince>>
    BY <1>6 DEF Claim, reportVars
  <2>3. x \in Nat
    <3> DEFINE rate == checkpoints[hint].maxShareRate
               h == id - 1
    <3>1. checkpoints \in Seq(Checkpoint) /\ hint \in 1..Len(checkpoints)
      BY <2>1, LenProperties DEF Hints, EscrowInv, Ascends
    <3>2. rate \in Nat
      BY <3>1, CheckpointTyped
    <3>3. h \in 0..Len(queue) /\ id \in 0..Len(queue) /\ h < id
      BY <1>2
    <3> HIDE DEF rate, h
    <3>4. EtherFor(queue, h, id, rate) \in Nat
      BY <1>2, <3>2, <3>3, PriceBounds
    <3> QED
      BY <3>4 DEF CalculateClaimableEther, rate, h
  <2> HIDE DEF x
  <2>4. lockedEtherAmount' \in Nat /\ sent' \in Nat
    BY <1>2, <2>1, <2>3
  <2>5. \A k \in DOMAIN queue' : queue'[k].claimed => k <= fin'
    <3> SUFFICES ASSUME NEW k \in DOMAIN queue, queue'[k].claimed PROVE k <= fin
      BY <2>1
    <3> QED
      BY <1>2, <2>1
  <2> QED
    BY <1>2, <2>1, <2>2, <2>4, <2>5
<1>7. ASSUME NEW b \in BOOLEAN, NEW t \in 0..now, NEW m \in 0..now, NEW p \in Pools,
             NEW e \in Budgets, OracleReport(b, t, p, m, e)
      PROVE  Rest
  <2>1. /\ UNCHANGED <<queue, resumeSince, sent>> /\ bunkerModeSince' \in Nat
        /\ \/ UNCHANGED <<lastFinalizedRequestId, checkpoints, mixed, lockedEtherAmount>>
           \/ \E rate, batches : Settles(rate, batches)
    BY <1>7, ReportSettles
  <2>2. CASE UNCHANGED <<lastFinalizedRequestId, checkpoints, mixed, lockedEtherAmount>>
    BY <1>2, <2>1, <2>2
  <2>3. ASSUME NEW rate, NEW batches, Settles(rate, batches) PROVE Rest
    <3> DEFINE d == Append(checkpoints, [fromRequestId |-> fin + 1, maxShareRate |-> rate])
               locks == Prefinalize(queue, fin, batches, rate)
               uneven == Cardinality(Mixed(queue, fin, batches, rate))
    <3>1. /\ rate \in Nat \ {0} /\ fin < fin' /\ fin' <= Len(queue) /\ checkpoints' = d
          /\ lockedEtherAmount' = lockedEtherAmount + locks /\ locks \in Nat
          /\ mixed' = mixed + uneven /\ uneven \in Nat
          /\ fin' = batches[Len(batches)] /\ batches \in Seq(Nat)
          /\ Len(batches) # 0
      BY <2>3 DEF Settles, InOrder
    <3>2. fin' \in Nat /\ fin \in Nat
      BY <1>2, <3>1, ElementOfSeq, LenProperties
    <3>3. Ascends(d, fin')
      <4> HIDE DEF fin
      <4> QED
        BY <1>2, <3>1, <3>2, CheckpointAdded
    <3> HIDE DEF d, locks, uneven
    <3>4. lockedEtherAmount' \in Nat /\ mixed' \in Nat
      BY <1>2, <3>1
    <3>5. fin' \in 0..Len(queue')
      BY <1>2, <2>1, <3>1, <3>2
    <3>6. \A id \in DOMAIN queue' : queue'[id].claimed => id <= fin'
      BY <1>2, <2>1, <3>1, <3>2
    <3> QED
      BY <1>2, <2>1, <3>1, <3>3, <3>4, <3>5, <3>6
  <2> HIDE DEF Rest
  <2> QED
    BY <2>1, <2>2, <2>3
<1>8. Rest
  <2>1. CASE Tick \/ ChangePause \/ UNCHANGED vars
    BY <1>3, <2>1, PauseTyped
  <2>2. ASSUME NEW o \in Owners, NEW id \in DOMAIN queue, ClaimWithdrawal(o, id) PROVE Rest
    BY <1>6, <2>2 DEF ClaimWithdrawal
  <2> HIDE DEF Rest
  <2> QED
    BY <1>4, <1>5, <1>6, <1>7, <2>1, <2>2, Zenon DEF Next
<1> QED
  BY <1>1, <1>8 DEF EscrowInv

-------------------------------------------------------------------------------
\* What is owed

\* The shares still to be finalized are fewer than 10^27: the queue holds them, and
\* there never are as many (the price of all ether is some 10^26 wei).
FewShares ==
  lastFinalizedRequestId < Len(queue)
    => SharesIn(queue, lastFinalizedRequestId, Len(queue)) <= E27_PRECISION_BASE

\* Worth for a given queue and checkpoints.
WorthAt(q, c, id) ==
  EtherFor(q, id - 1, id, c[CHOOSE h \in DOMAIN c : Hints(c, id, h)].maxShareRate)

\* What each finalized request still has to be paid.
Owed(q, fin, c) == [id \in 1..fin |-> IF q[id].claimed THEN 0 ELSE WorthAt(q, c, id)]

LEMMA WorthIsWorthAt ==
  ASSUME NEW id PROVE Worth(id) = WorthAt(queue, checkpoints, id)
<1>1. \A h : HintAccepted(id, h) <=> Hints(checkpoints, id, h)
  BY DEF HintAccepted, Hints
<1>2. HintOf(id) = CHOOSE h \in DOMAIN checkpoints : Hints(checkpoints, id, h)
  BY <1>1, Zenon DEF HintOf
<1> QED
  BY <1>2 DEF Worth, WorthAt, CalculateClaimableEther

\* The worth of a request is its price at the one checkpoint that is its hint.
LEMMA WorthOfHint ==
  ASSUME NEW q \in Seq(Request), Rising(q), NEW fin \in 0..Len(q),
         NEW c, Ascends(c, fin), NEW id \in 1..fin
  PROVE  /\ WorthAt(q, c, id) \in Nat /\ WorthAt(q, c, id) <= StETHIn(q, id - 1, id)
         /\ \A h : Hints(c, id, h)
                   => WorthAt(q, c, id) = EtherFor(q, id - 1, id, c[h].maxShareRate)
<1>1. /\ c \in Seq(Checkpoint) /\ DOMAIN c = 1..Len(c) /\ Len(q) \in Nat /\ fin \in Nat
  BY LenProperties DEF Ascends
<1>2. PICK h \in 1..Len(c) : \A i : Hints(c, id, i) <=> i = h
  BY <1>1, OneHint
<1>3. (CHOOSE i \in DOMAIN c : Hints(c, id, i)) = h
  BY <1>1, <1>2
<1>4. WorthAt(q, c, id) = EtherFor(q, id - 1, id, c[h].maxShareRate)
  BY <1>3 DEF WorthAt
<1> DEFINE rate == c[h].maxShareRate
           pre == id - 1
<1>5. rate \in Nat
  BY <1>1, <1>2, CheckpointTyped
<1>6. pre \in 0..Len(q) /\ id \in 0..Len(q) /\ pre < id
  BY <1>1
<1>7. EtherFor(q, pre, id, rate) \in Nat /\ EtherFor(q, pre, id, rate) <= StETHIn(q, pre, id)
  <2> HIDE DEF pre, rate
  <2> QED
    BY <1>5, <1>6, PriceBounds
<1> QED
  BY <1>2, <1>4, <1>7

\* Requests that come in or change hands leave the worth of the others alone.
LEMMA WorthStays ==
  ASSUME NEW q \in Seq(Request), NEW p \in Seq(Request), Continues(p, q), NEW c,
         NEW id \in 1..Len(q)
  PROVE  WorthAt(p, c, id) = WorthAt(q, c, id)
<1> DEFINE rate == c[CHOOSE h \in DOMAIN c : Hints(c, id, h)].maxShareRate
           pre == id - 1
<1>1. pre \in 0..Len(q)
  BY LenProperties
<1>2. EtherFor(p, pre, id, rate) = EtherFor(q, pre, id, rate)
  <2> HIDE DEF pre, rate
  <2> QED
    BY <1>1, PriceStays
<1> QED
  BY <1>2 DEF WorthAt

\* A new checkpoint gives its requests their worth, and leaves that of the older ones.
LEMMA WorthSettled ==
  ASSUME NEW q \in Seq(Request), Rising(q), NEW fin \in 0..Len(q), NEW c, Ascends(c, fin),
         NEW rate \in Nat \ {0}, NEW last \in fin + 1..Len(q)
  PROVE  LET d == Append(c, [fromRequestId |-> fin + 1, maxShareRate |-> rate])
         IN /\ Ascends(d, last)
            /\ \A id \in 1..fin : WorthAt(q, d, id) = WorthAt(q, c, id)
            /\ \A id \in fin + 1..last : WorthAt(q, d, id) = EtherFor(q, id - 1, id, rate)
<1> DEFINE d == Append(c, [fromRequestId |-> fin + 1, maxShareRate |-> rate])
<1>1. fin \in Nat /\ last \in Nat /\ fin < last /\ last \in 0..Len(q)
  BY LenProperties
<1>2. /\ Ascends(d, last)
      /\ \A id \in 1..fin, h \in DOMAIN c : Hints(c, id, h) => Hints(d, id, h) /\ d[h] = c[h]
      /\ \A id \in fin + 1..last : Hints(d, id, Len(d))
      /\ d[Len(d)].maxShareRate = rate
  BY <1>1, CheckpointAdded
<1> HIDE DEF d
<1>3. ASSUME NEW id \in 1..fin PROVE WorthAt(q, d, id) = WorthAt(q, c, id)
  <2>1. PICK h \in 1..Len(c) : \A i : Hints(c, id, i) <=> i = h
    BY <1>1, OneHint
  <2>2. h \in DOMAIN c /\ Hints(c, id, h)
    BY <2>1 DEF Hints
  <2>3. Hints(d, id, h) /\ d[h] = c[h]
    BY <1>2, <2>2
  <2>4. id \in 1..last
    BY <1>1
  <2>5. WorthAt(q, d, id) = EtherFor(q, id - 1, id, d[h].maxShareRate)
    BY <1>1, <1>2, <2>3, <2>4, WorthOfHint
  <2>6. WorthAt(q, c, id) = EtherFor(q, id - 1, id, c[h].maxShareRate)
    BY <2>2, WorthOfHint
  <2> QED
    BY <2>3, <2>5, <2>6
<1>4. ASSUME NEW id \in fin + 1..last
      PROVE  WorthAt(q, d, id) = EtherFor(q, id - 1, id, rate)
  <2>1. id \in 1..last /\ Hints(d, id, Len(d))
    BY <1>1, <1>2
  <2>2. WorthAt(q, d, id) = EtherFor(q, id - 1, id, d[Len(d)].maxShareRate)
    BY <1>1, <1>2, <2>1, WorthOfHint
  <2> QED
    BY <1>2, <2>2
<1> QED
  BY <1>2, <1>3, <1>4 DEF d

\* What is owed is a number for each request.
LEMMA OwedTyped ==
  ASSUME NEW q \in Seq(Request), Rising(q), NEW fin \in 0..Len(q), NEW c, Ascends(c, fin)
  PROVE  /\ Owed(q, fin, c) \in [1..fin -> Int]
         /\ \A id \in 1..fin : Owed(q, fin, c)[id] = IF q[id].claimed THEN 0
                                                     ELSE WorthAt(q, c, id)
<1>1. \A id \in 1..fin : WorthAt(q, c, id) \in Nat
  BY WorthOfHint
<1> QED
  BY <1>1 DEF Owed

\* What is owed grows by the worth of the requests that are settled.
LEMMA OwedAfterSettling ==
  ASSUME EscrowInv, NEW rate, NEW batches, Settles(rate, batches), UNCHANGED queue,
         SharesIn(queue, lastFinalizedRequestId, Len(queue)) <= E27_PRECISION_BASE
  PROVE  Sum(Owed(queue, lastFinalizedRequestId', checkpoints'))
           <= Sum(Owed(queue, lastFinalizedRequestId, checkpoints))
                + Prefinalize(queue, lastFinalizedRequestId, batches, rate)
                + Cardinality(Mixed(queue, lastFinalizedRequestId, batches, rate))
<1> DEFINE fin == lastFinalizedRequestId
           last == lastFinalizedRequestId'
           c == checkpoints
           d == Append(c, [fromRequestId |-> fin + 1, maxShareRate |-> rate])
           old == Owed(queue, fin, c)
           new == Owed(queue, last, d)
           a == [id \in 1..last |-> IF id <= fin THEN old[id] ELSE 0]
           w == WorthAfter(queue, fin, last, rate)
<1>1. /\ queue \in Seq(Request) /\ Rising(queue) /\ fin \in 0..Len(queue) /\ fin \in Nat
      /\ Ascends(c, fin) /\ Len(queue) \in Nat /\ DOMAIN queue = 1..Len(queue)
      /\ \A id \in 1..Len(queue) : queue[id].claimed => id <= fin
  BY LenProperties DEF EscrowInv, IndexInv
<1>2. /\ rate \in Nat \ {0} /\ rate \in Nat /\ InOrder(batches, fin, Len(queue))
      /\ Len(batches) # 0
      /\ last = batches[Len(batches)] /\ fin < last /\ last <= Len(queue) /\ checkpoints' = d
  BY DEF Settles
<1>3. last \in Nat /\ last \in fin + 1..Len(queue) /\ last \in 0..Len(queue)
  <2>1. batches \in Seq(Nat)
    BY <1>2 DEF InOrder
  <2>2. batches[Len(batches)] \in Nat
    BY <1>2, <2>1, ElementOfSeq, LenProperties
  <2> HIDE DEF last, d
  <2> QED
    BY <1>1, <1>2, <2>2
<1> HIDE DEF last
<1>4. /\ Ascends(d, last)
      /\ \A id \in 1..fin : WorthAt(queue, d, id) = WorthAt(queue, c, id)
      /\ \A id \in fin + 1..last : WorthAt(queue, d, id) = EtherFor(queue, id - 1, id, rate)
  <2> HIDE DEF fin, c
  <2> QED
    BY <1>1, <1>2, <1>3, WorthSettled
<1> HIDE DEF d
<1>5. /\ old \in [1..fin -> Int]
      /\ \A id \in 1..fin : old[id] = IF queue[id].claimed THEN 0 ELSE WorthAt(queue, c, id)
  <2> HIDE DEF fin, c
  <2> QED
    BY <1>1, OwedTyped
<1>6. /\ new \in [1..last -> Int]
      /\ \A id \in 1..last : new[id] = IF queue[id].claimed THEN 0 ELSE WorthAt(queue, d, id)
  <2> HIDE DEF fin, c
  <2> QED
    BY <1>1, <1>3, <1>4, OwedTyped
<1> HIDE DEF old, new
<1>7. a \in [1..last -> Int] /\ Sum(a) = Sum(old)
  <2>1. a \in [1..last -> Int]
    BY <1>1, <1>3, <1>5
  <2>2. fin <= last
    <3> HIDE DEF fin
    <3> QED
      BY <1>1, <1>2, <1>3
  <2>3. Sum(a) = Sum(old)
    <3> HIDE DEF fin
    <3> QED
      BY <1>1, <1>3, <1>5, <2>2, SumExtend
  <2> QED
    BY <2>1, <2>3
<1>8. ASSUME NEW id \in 1..last
      PROVE  w[id] \in Int /\ w[id] = new[id] - a[id]
  <2>1. /\ w[id] = (IF id <= fin THEN 0 ELSE EtherFor(queue, id - 1, id, rate))
        /\ a[id] = IF id <= fin THEN old[id] ELSE 0
    BY DEF WorthAfter
  <2>2. new[id] \in Int
    BY <1>6
  <2>3. CASE id <= fin
    <3>1. id \in 1..fin
      BY <1>1, <1>3, <2>3
    <3>2. new[id] = old[id]
      BY <1>4, <1>5, <1>6, <3>1
    <3> HIDE DEF w, a
    <3> QED
      BY <2>1, <2>2, <2>3, <3>2
  <2>4. CASE ~(id <= fin)
    <3>1. id \in fin + 1..last /\ id \in 1..Len(queue) /\ ~queue[id].claimed
      BY <1>1, <1>3, <2>4
    <3>2. new[id] = EtherFor(queue, id - 1, id, rate)
      BY <1>4, <1>6, <3>1
    <3> HIDE DEF w, a
    <3> QED
      BY <2>1, <2>2, <2>4, <3>2
  <2> QED
    BY <2>3, <2>4
<1>9. w \in [1..last -> Int]
  <2>1. w = [id \in 1..last |-> w[id]]
    BY DEF WorthAfter
  <2> HIDE DEF w
  <2> QED
    BY <1>8, <2>1
<1>10. Sum(new) = Sum(a) + Sum(w)
  <2> HIDE DEF a, w
  <2> QED
    BY <1>3, <1>6, <1>7, <1>8, <1>9, SumDifference
<1>11. Sum(w) <= Prefinalize(queue, fin, batches, rate)
                   + Cardinality(Mixed(queue, fin, batches, rate))
  <2>1. SharesIn(queue, fin, Len(queue)) <= E27_PRECISION_BASE
    OBVIOUS
  <2> HIDE DEF fin
  <2>2. Sum(WorthAfter(queue, fin, batches[Len(batches)], rate))
          <= Prefinalize(queue, fin, batches, rate)
               + Cardinality(Mixed(queue, fin, batches, rate))
    BY <1>1, <1>2, <2>1, BatchesCover
  <2> QED
    BY <1>2, <2>2
<1>12. Sum(old) \in Int /\ Sum(w) \in Int
  <2> HIDE DEF w, fin
  <2> QED
    BY <1>1, <1>3, <1>5, <1>9, SumType
<1>13. /\ Prefinalize(queue, fin, batches, rate) \in Nat
       /\ Cardinality(Mixed(queue, fin, batches, rate)) \in Nat
  BY DEF Settles
<1>14. Sum(new) <= Sum(old) + Prefinalize(queue, fin, batches, rate)
                     + Cardinality(Mixed(queue, fin, batches, rate))
  <2> HIDE DEF w, a, fin
  <2> QED
    BY <1>7, <1>10, <1>11, <1>12, <1>13
<1> QED
  BY <1>2, <1>14 DEF old, new, last

\* ClaimsCovered, with what is owed for the given state.
Covered == Sum(Owed(queue, lastFinalizedRequestId, checkpoints)) <= lockedEtherAmount + mixed

\* Requests that come in or change hands leave what is owed alone.
LEMMA SameOwed ==
  ASSUME EscrowInv, queue' \in Seq(Request), Continues(queue', queue),
         \A id \in DOMAIN queue : queue'[id].claimed = queue[id].claimed,
         UNCHANGED <<lastFinalizedRequestId, checkpoints, mixed, lockedEtherAmount>>,
         Covered
  PROVE  Covered'
<1> DEFINE fin == lastFinalizedRequestId
<1>1. /\ queue \in Seq(Request) /\ fin \in 0..Len(queue)
      /\ Len(queue) \in Nat /\ DOMAIN queue = 1..Len(queue)
  BY LenProperties DEF EscrowInv, IndexInv
<1>2. ASSUME NEW id \in 1..fin
      PROVE  /\ WorthAt(queue', checkpoints, id) = WorthAt(queue, checkpoints, id)
             /\ queue'[id].claimed = queue[id].claimed
  <2>1. id \in 1..Len(queue)
    BY <1>1
  <2> QED
    BY <1>1, <2>1, WorthStays
<1>3. Owed(queue', fin, checkpoints) = Owed(queue, fin, checkpoints)
  BY <1>2 DEF Owed
<1> QED
  BY <1>3 DEF Covered

\* A claim takes out of the locked ether what was owed for the request.
LEMMA ClaimCovered ==
  ASSUME EscrowInv, Covered, NEW sender \in Owners, NEW id \in DOMAIN queue, NEW hint,
         Claim(sender, id, hint)
  PROVE  Covered'
<1> DEFINE fin == lastFinalizedRequestId
           c == checkpoints
           x == CalculateClaimableEther(id, hint)
           old == Owed(queue, fin, c)
           new == Owed(queue', fin, c)
<1>1. /\ queue \in Seq(Request) /\ Rising(queue) /\ fin \in 0..Len(queue) /\ fin \in Nat
      /\ Ascends(c, fin) /\ Len(queue) \in Nat /\ DOMAIN queue = 1..Len(queue)
      /\ lockedEtherAmount \in Nat /\ mixed \in Nat
  BY LenProperties DEF EscrowInv, IndexInv
<1>2. /\ queue' \in Seq(Request) /\ Len(queue') = Len(queue) /\ Rising(queue')
      /\ Continues(queue', queue)
      /\ \A k \in DOMAIN queue : k # id => queue'[k] = queue[k]
      /\ queue'[id].claimed /\ ~queue[id].claimed
      /\ id \in 1..lastFinalizedRequestId
      /\ Hints(checkpoints, id, hint)
      /\ lockedEtherAmount' = lockedEtherAmount - x
      /\ UNCHANGED <<lastFinalizedRequestId, checkpoints, mixed>>
  BY ClaimReplaces
<1>3. WorthAt(queue, c, id) = x /\ x \in Nat
  <2>1. WorthAt(queue, c, id) \in Nat
        /\ WorthAt(queue, c, id) = EtherFor(queue, id - 1, id, c[hint].maxShareRate)
    BY <1>1, <1>2, WorthOfHint
  <2> QED
    BY <2>1 DEF CalculateClaimableEther
<1> HIDE DEF x
<1>4. /\ old \in [1..fin -> Int]
      /\ \A k \in 1..fin : old[k] = IF queue[k].claimed THEN 0 ELSE WorthAt(queue, c, k)
  <2> HIDE DEF fin, c
  <2> QED
    BY <1>1, OwedTyped
<1>5. /\ new \in [1..fin -> Int]
      /\ \A k \in 1..fin : new[k] = IF queue'[k].claimed THEN 0 ELSE WorthAt(queue', c, k)
  <2>1. fin \in 0..Len(queue')
    BY <1>1, <1>2
  <2> HIDE DEF fin, c
  <2> QED
    BY <1>1, <1>2, <2>1, OwedTyped
<1> HIDE DEF old, new
<1>6. old[id] = x /\ new[id] = 0
  BY <1>2, <1>3, <1>4, <1>5
<1>7. ASSUME NEW k \in 1..fin, k # id PROVE new[k] = old[k]
  <2>1. k \in 1..Len(queue) /\ queue'[k] = queue[k]
    BY <1>1, <1>2, <1>7
  <2>2. WorthAt(queue', c, k) = WorthAt(queue, c, k)
    BY <1>1, <1>2, <2>1, WorthStays
  <2> QED
    BY <1>4, <1>5, <2>1, <2>2
<1>8. new = [old EXCEPT ![id] = 0]
  BY <1>4, <1>5, <1>6, <1>7
<1>9. Sum(new) = Sum(old) - x
  <2> DEFINE y == 0
  <2>1. y \in Int /\ id \in 1..fin
    BY <1>2
  <2> HIDE DEF y, fin
  <2>2. Sum([old EXCEPT ![id] = y]) = Sum(old) + y - old[id]
    BY <1>1, <1>4, <2>1, SumUpdate
  <2>3. Sum(old) \in Int
    BY <1>1, <1>4, SumType
  <2> QED
    BY <1>3, <1>6, <1>8, <2>2, <2>3 DEF y
<1>10. Sum(old) \in Int
  <2> HIDE DEF fin
  <2> QED
    BY <1>1, <1>4, SumType
<1>11. Sum(old) <= lockedEtherAmount + mixed
  BY DEF Covered, old
<1>12. Sum(new) <= lockedEtherAmount' + mixed'
  BY <1>1, <1>2, <1>3, <1>9, <1>10, <1>11
<1> QED
  BY <1>2, <1>12 DEF Covered, new

\* A report locks what it makes owed, but for the uneven batches.
LEMMA ReportCovered ==
  ASSUME EscrowInv, FewShares, Covered, NEW b \in BOOLEAN, NEW t \in 0..now, NEW m \in 0..now,
         NEW p \in Pools, NEW e \in Budgets, OracleReport(b, t, p, m, e)
  PROVE  Covered'
<1>1. /\ UNCHANGED queue
      /\ \/ UNCHANGED <<lastFinalizedRequestId, checkpoints, mixed, lockedEtherAmount>>
         \/ \E rate, batches : Settles(rate, batches)
  BY ReportSettles
<1>2. CASE UNCHANGED <<lastFinalizedRequestId, checkpoints, mixed, lockedEtherAmount>>
  BY <1>1, <1>2 DEF Covered
<1>3. ASSUME NEW rate, NEW batches, Settles(rate, batches) PROVE Covered'
  <2> DEFINE fin == lastFinalizedRequestId
             locks == Prefinalize(queue, fin, batches, rate)
             uneven == Cardinality(Mixed(queue, fin, batches, rate))
             old == Sum(Owed(queue, fin, checkpoints))
             new == Sum(Owed(queue, fin', checkpoints'))
  <2>1. /\ queue \in Seq(Request) /\ Rising(queue) /\ fin \in 0..Len(queue)
        /\ Len(queue) \in Nat /\ Ascends(checkpoints, fin)
        /\ lockedEtherAmount \in Nat /\ mixed \in Nat
    BY LenProperties DEF EscrowInv, IndexInv
  <2>2. /\ fin < fin' /\ fin' <= Len(queue) /\ rate \in Nat \ {0}
        /\ lockedEtherAmount' = lockedEtherAmount + locks /\ mixed' = mixed + uneven
        /\ locks \in Nat /\ uneven \in Nat
        /\ fin' = batches[Len(batches)] /\ InOrder(batches, fin, Len(queue))
        /\ Len(batches) # 0
        /\ checkpoints' = Append(checkpoints, [fromRequestId |-> fin + 1,
                                               maxShareRate |-> rate])
    BY <1>3 DEF Settles
  <2>3. fin' \in Nat /\ fin < Len(queue) /\ fin' \in fin + 1..Len(queue)
    <3>1. batches \in Seq(Nat)
      BY <2>2 DEF InOrder
    <3>2. batches[Len(batches)] \in Nat
      BY <2>2, <3>1, ElementOfSeq, LenProperties
    <3> QED
      BY <2>1, <2>2, <3>2
  <2>4. SharesIn(queue, fin, Len(queue)) <= E27_PRECISION_BASE
    BY <2>3 DEF FewShares
  <2>5. new <= old + locks + uneven
    BY <1>1, <1>3, <2>4, OwedAfterSettling
  <2>6. old <= lockedEtherAmount + mixed
    BY DEF Covered
  <2>7. old \in Int
    <3>1. Owed(queue, fin, checkpoints) \in [1..fin -> Int] /\ fin \in Nat
      BY <2>1, OwedTyped
    <3> HIDE DEF fin
    <3> QED
      BY <3>1, SumType
  <2>8. new \in Int
    <3>1. Ascends(checkpoints', fin')
      <4> HIDE DEF fin
      <4> QED
        BY <2>1, <2>2, <2>3, WorthSettled
    <3> DEFINE last == fin'
               d == checkpoints'
    <3>2. last \in 0..Len(queue) /\ last \in Nat /\ Ascends(d, last)
      BY <2>1, <2>3, <3>1
    <3> HIDE DEF last, d
    <3>3. Owed(queue, last, d) \in [1..last -> Int]
      BY <2>1, <3>2, OwedTyped
    <3>4. Sum(Owed(queue, last, d)) \in Int
      BY <3>2, <3>3, SumType
    <3> QED
      BY <3>4 DEF last, d
  <2>9. Covered' <=> new <= lockedEtherAmount' + mixed'
    BY <1>1 DEF Covered
  <2> HIDE DEF new, old, locks, uneven
  <2> QED
    BY <2>1, <2>2, <2>5, <2>6, <2>7, <2>8, <2>9
<1> QED
  BY <1>1, <1>2, <1>3

\* One step per action.
LEMMA NextCovered ==
  ASSUME EscrowInv, FewShares, Covered, [Next]_vars PROVE Covered'
<1>1. ASSUME Numbers PROVE Covered'
  BY <1>1 DEF Numbers, Covered
<1>2. CASE Tick \/ ChangePause \/ UNCHANGED vars
  BY <1>1, <1>2, PauseTyped
<1>3. ASSUME NEW a \in Amounts, NEW o \in Owners, RequestWithdrawals(a, o) PROVE Covered'
  <2>1. /\ queue' \in Seq(Request) /\ Continues(queue', queue)
        /\ \A id \in 1..Len(queue) : queue'[id] = queue[id]
        /\ UNCHANGED <<lastFinalizedRequestId, checkpoints, mixed, lockedEtherAmount>>
    BY <1>3, RequestGrows
  <2>2. \A id \in DOMAIN queue : queue'[id].claimed = queue[id].claimed
    BY <2>1, LenProperties DEF EscrowInv, IndexInv
  <2> QED
    BY <2>1, <2>2, SameOwed
<1>4. ASSUME NEW from \in Owners, NEW to \in Owners, NEW id \in DOMAIN queue,
             TransferFrom(from, to, id)
      PROVE  Covered'
  <2>1. /\ queue' \in Seq(Request) /\ Continues(queue', queue)
        /\ \A k \in DOMAIN queue : k # id => queue'[k] = queue[k]
        /\ ~queue'[id].claimed /\ ~queue[id].claimed
        /\ UNCHANGED <<lastFinalizedRequestId, checkpoints, mixed, lockedEtherAmount>>
    BY <1>4, TransferReplaces
  <2>2. queue'[id].claimed = queue[id].claimed
    <3>1. queue[id] \in Request /\ queue'[id] \in Request
      <4>1. DOMAIN queue' = DOMAIN queue /\ queue \in Seq(Request)
        BY <1>4, TransferReplaces DEF EscrowInv, IndexInv
      <4> QED
        BY <2>1, <4>1, ElementOfSeq
    <3>2. queue[id].claimed \in BOOLEAN /\ queue'[id].claimed \in BOOLEAN
      BY <3>1 DEF Request
    <3> QED
      BY <2>1, <3>2
  <2>3. \A k \in DOMAIN queue : queue'[k].claimed = queue[k].claimed
    BY <2>1, <2>2
  <2> QED
    BY <2>1, <2>3, SameOwed
<1>5. ASSUME NEW o \in Owners, NEW id \in DOMAIN queue, NEW hint, Claim(o, id, hint)
      PROVE  Covered'
  BY <1>5, ClaimCovered
<1>6. ASSUME NEW o \in Owners, NEW id \in DOMAIN queue, ClaimWithdrawal(o, id) PROVE Covered'
  BY <1>5, <1>6 DEF ClaimWithdrawal
<1>7. ASSUME NEW b \in BOOLEAN, NEW t \in 0..now, NEW m \in 0..now, NEW p \in Pools,
             NEW e \in Budgets, OracleReport(b, t, p, m, e)
      PROVE  Covered'
  BY <1>7, ReportCovered
<1> QED
  BY <1>2, <1>3, <1>4, <1>5, <1>6, <1>7, Zenon DEF Next

-------------------------------------------------------------------------------
\* The escrow

Entry == [owner : Owners, amount : Nat]

\* The escrow's entries and worth for given state.
EntriesOf(q) ==
  [id \in DOMAIN q |-> [owner |-> q[id].owner, amount |-> StETHIn(q, id - 1, id)]]

WorthsOf(q, fin, c) == [id \in 1..fin |-> WorthAt(q, c, id)]

PaidOf(q) == {id \in DOMAIN q : q[id].claimed}

\* A function on 1..n is a sequence of n.
LEMMA FunctionIsSeq ==
  ASSUME NEW n \in Nat, NEW S, NEW f \in [1..n -> S]
  PROVE  f \in Seq(S) /\ Len(f) = n /\ DOMAIN f = 1..n
OBVIOUS

\* The first entries of a sequence that goes on.
LEMMA Prefix ==
  ASSUME NEW S, NEW s \in Seq(S), NEW p \in Seq(S), Len(s) <= Len(p),
         \A i \in 1..Len(s) : p[i] = s[i]
  PROVE  SubSeq(p, 1, Len(s)) = s
<1> DEFINE n == Len(s)
           t == SubSeq(p, 1, n)
           m == 1
<1>1. n \in Nat /\ Len(p) \in Nat /\ DOMAIN s = 1..n /\ m \in Int /\ n \in Int
  BY LenProperties
<1>2. \A i \in m..n : p[i] \in S
  BY <1>1, ElementOfSeq
<1>3. /\ SubSeq(p, m, n) \in Seq(S)
      /\ Len(SubSeq(p, m, n)) = IF m <= n THEN n - m + 1 ELSE 0
      /\ \A i \in 1..n - m + 1 : SubSeq(p, m, n)[i] = p[m + i - 1]
  <2> HIDE DEF n, m
  <2> QED
    BY <1>1, <1>2, SubSeqProperties
<1>4. t \in Seq(S) /\ Len(t) = n /\ \A i \in 1..n : t[i] = s[i]
  <2>1. Len(t) = n
    BY <1>1, <1>3
  <2>2. \A i \in 1..n : t[i] = p[i]
    BY <1>1, <1>3
  <2> QED
    BY <1>3, <2>1, <2>2
<1> HIDE DEF t, n
<1>5. t = s
  BY <1>1, <1>4, LenProperties
<1> QED
  BY <1>5 DEF t, n

\* The escrow's entries are one for each request.
LEMMA EntriesTyped ==
  ASSUME NEW q \in Seq(Request), Rising(q)
  PROVE  /\ EntriesOf(q) \in Seq(Entry) /\ Len(EntriesOf(q)) = Len(q)
         /\ DOMAIN EntriesOf(q) = 1..Len(q)
         /\ \A id \in 1..Len(q) :
              EntriesOf(q)[id] = [owner |-> q[id].owner, amount |-> StETHIn(q, id - 1, id)]
<1> DEFINE n == Len(q)
           E == EntriesOf(q)
<1>1. n \in Nat /\ DOMAIN q = 1..n
  BY LenProperties
<1>2. \A id \in 1..n : E[id] = [owner |-> q[id].owner, amount |-> StETHIn(q, id - 1, id)]
  BY <1>1 DEF EntriesOf
<1>3. ASSUME NEW id \in 1..n PROVE q[id].owner \in Owners /\ StETHIn(q, id - 1, id) \in Nat
  <2> DEFINE pre == id - 1
  <2>1. q[id] \in Request
    BY ElementOfSeq
  <2>2. pre \in 0..Len(q) /\ id \in 0..Len(q) /\ pre < id
    BY <1>1
  <2> HIDE DEF pre
  <2>3. StETHIn(q, pre, id) \in Nat
    BY <2>2, RangeTyped
  <2> QED
    BY <2>1, <2>3 DEF Request, pre
<1>4. E = [id \in 1..n |-> E[id]]
  BY <1>1 DEF EntriesOf
<1> HIDE DEF E, n
<1>5. ASSUME NEW id \in 1..n PROVE E[id] \in Entry
  <2> DEFINE o == q[id].owner
             x == StETHIn(q, id - 1, id)
  <2>1. E[id] = [owner |-> o, amount |-> x]
    BY <1>2
  <2>2. o \in Owners /\ x \in Nat
    BY <1>3
  <2> HIDE DEF o, x
  <2> QED
    BY <2>1, <2>2 DEF Entry
<1>6. E \in [1..n -> Entry]
  BY <1>4, <1>5
<1>7. E \in Seq(Entry) /\ Len(E) = n /\ DOMAIN E = 1..n
  BY <1>1, <1>6, FunctionIsSeq
<1> QED
  BY <1>2, <1>7 DEF E, n

\* Its worth is one number for each finalized request.
LEMMA WorthsTyped ==
  ASSUME NEW q \in Seq(Request), Rising(q), NEW fin \in 0..Len(q), NEW c, Ascends(c, fin)
  PROVE  /\ WorthsOf(q, fin, c) \in Seq(Nat) /\ Len(WorthsOf(q, fin, c)) = fin
         /\ DOMAIN WorthsOf(q, fin, c) = 1..fin
         /\ \A id \in 1..fin : WorthsOf(q, fin, c)[id] = WorthAt(q, c, id)
<1> DEFINE w == WorthsOf(q, fin, c)
<1>1. \A id \in 1..fin : w[id] = WorthAt(q, c, id)
  BY DEF WorthsOf
<1>2. \A id \in 1..fin : WorthAt(q, c, id) \in Nat
  BY WorthOfHint
<1>3. w = [id \in 1..fin |-> w[id]]
  BY DEF WorthsOf
<1> HIDE DEF w
<1>4. w \in [1..fin -> Nat] /\ fin \in Nat
  BY <1>1, <1>2, <1>3, LenProperties
<1>5. w \in Seq(Nat) /\ Len(w) = fin /\ DOMAIN w = 1..fin
  BY <1>4, FunctionIsSeq
<1> QED
  BY <1>1, <1>5 DEF w

\* The refinement mapping, in these terms.
LEMMA Mapping ==
  /\ [id \in Finalized |-> Worth(id)] = WorthsOf(queue, lastFinalizedRequestId, checkpoints)
  /\ [id \in Finalized |-> Worth(id)]'
       = WorthsOf(queue', lastFinalizedRequestId', checkpoints')
<1>1. ASSUME NEW id PROVE Worth(id) = WorthAt(queue, checkpoints, id)
  BY WorthIsWorthAt
<1>2. ASSUME NEW id PROVE Worth(id)' = WorthAt(queue', checkpoints', id)
  <2>1. \A h : HintAccepted(id, h)' <=> Hints(checkpoints', id, h)
    BY DEF HintAccepted, Hints
  <2>2. HintOf(id)' = CHOOSE h \in DOMAIN checkpoints' : Hints(checkpoints', id, h)
    BY <2>1, Zenon DEF HintOf
  <2> QED
    BY <2>2 DEF Worth, WorthAt, CalculateClaimableEther
<1> QED
  BY <1>1, <1>2, Zenon DEF WorthsOf, Finalized

\* A request enters the escrow.
LEMMA RequestEnters ==
  ASSUME EscrowInv, NEW a \in Amounts, NEW o \in Owners, RequestWithdrawals(a, o)
  PROVE  Escrow!Enter
<1> DEFINE fin == lastFinalizedRequestId
           n == Len(queue)
<1>1. /\ queue \in Seq(Request) /\ Rising(queue) /\ fin \in 0..n /\ n \in Nat
      /\ DOMAIN queue = 1..n /\ fin \in Nat
  BY LenProperties DEF EscrowInv, IndexInv
<1>2. /\ queue' \in Seq(Request) /\ Len(queue') = n + 1
      /\ Rising(queue') /\ Continues(queue', queue)
      /\ \A id \in 1..n : queue'[id] = queue[id]
      /\ queue'[n + 1].owner = o /\ ~queue'[n + 1].claimed
      /\ UNCHANGED <<lastFinalizedRequestId, checkpoints, sent>>
  BY RequestGrows
<1>3. DOMAIN queue' = 1..n + 1
  BY <1>2, LenProperties
<1>4. /\ EntriesOf(queue) \in Seq(Entry) /\ Len(EntriesOf(queue)) = n
      /\ \A id \in 1..n : EntriesOf(queue)[id] =
                            [owner |-> queue[id].owner, amount |-> StETHIn(queue, id - 1, id)]
  BY <1>1, EntriesTyped
<1>5. /\ EntriesOf(queue') \in Seq(Entry) /\ Len(EntriesOf(queue')) = n + 1
      /\ \A id \in 1..n + 1 :
           EntriesOf(queue')[id] =
             [owner |-> queue'[id].owner, amount |-> StETHIn(queue', id - 1, id)]
  BY <1>2, EntriesTyped
<1>6. ASSUME NEW id \in 1..n PROVE EntriesOf(queue')[id] = EntriesOf(queue)[id]
  <2> DEFINE pre == id - 1
  <2>1. pre \in 0..Len(queue) /\ id \in 1..n + 1
    BY <1>1
  <2> HIDE DEF pre
  <2>2. StETHIn(queue', pre, id) = StETHIn(queue, pre, id)
    BY <1>1, <1>2, <2>1, PriceStays
  <2> QED
    BY <1>2, <1>4, <1>5, <2>1, <2>2 DEF pre
<1>7. SubSeq(EntriesOf(queue'), 1, n) = EntriesOf(queue)
  <2>1. n <= n + 1
    BY <1>1
  <2> HIDE DEF n
  <2> QED
    BY <1>4, <1>5, <1>6, <2>1, Prefix
<1>8. EntriesOf(queue')[n + 1].owner \in Owners
  <2>1. n + 1 \in 1..n + 1
    BY <1>1
  <2> HIDE DEF n
  <2> QED
    BY <1>2, <1>5, <2>1
<1>9. WorthsOf(queue', fin', checkpoints') = WorthsOf(queue, fin, checkpoints)
  <2>1. \A id \in 1..fin : WorthAt(queue', checkpoints, id) = WorthAt(queue, checkpoints, id)
    <3> SUFFICES ASSUME NEW id \in 1..fin
                 PROVE  WorthAt(queue', checkpoints, id) = WorthAt(queue, checkpoints, id)
      OBVIOUS
    <3>1. id \in 1..Len(queue)
      BY <1>1
    <3> QED
      BY <1>1, <1>2, <3>1, WorthStays
  <2> QED
    BY <1>2, <2>1 DEF WorthsOf
<1>10. PaidOf(queue') = PaidOf(queue)
  BY <1>1, <1>2, <1>3 DEF PaidOf
<1>11. Len(EntriesOf(queue')) = Len(EntriesOf(queue)) + 1
  BY <1>4, <1>5
<1>12. SubSeq(EntriesOf(queue'), 1, Len(EntriesOf(queue))) = EntriesOf(queue)
  BY <1>4, <1>7
<1>13. EntriesOf(queue')[Len(EntriesOf(queue'))].owner \in Owners
  BY <1>5, <1>8
<1> QED
  BY <1>2, <1>9, <1>10, <1>11, <1>12, <1>13, Mapping, Zenon
     DEF Escrow!Enter, EntriesOf, PaidOf

\* Requests that change hands or are claimed keep their amounts and their worth.
LEMMA EntriesKept ==
  ASSUME EscrowInv, queue' \in Seq(Request), Rising(queue'), Continues(queue', queue),
         Len(queue') = Len(queue), UNCHANGED <<lastFinalizedRequestId, checkpoints>>
  PROVE  /\ \A id \in 1..Len(queue) :
              EntriesOf(queue')[id] = [owner  |-> queue'[id].owner,
                                       amount |-> EntriesOf(queue)[id].amount]
         /\ WorthsOf(queue', lastFinalizedRequestId', checkpoints')
              = WorthsOf(queue, lastFinalizedRequestId, checkpoints)
<1> DEFINE fin == lastFinalizedRequestId
           n == Len(queue)
<1>1. /\ queue \in Seq(Request) /\ Rising(queue) /\ fin \in 0..n /\ n \in Nat /\ fin \in Nat
  BY LenProperties DEF EscrowInv, IndexInv
<1>2. ASSUME NEW id \in 1..n
      PROVE  EntriesOf(queue')[id] = [owner  |-> queue'[id].owner,
                                      amount |-> EntriesOf(queue)[id].amount]
  <2> DEFINE pre == id - 1
             x == StETHIn(queue, id - 1, id)
             y == StETHIn(queue', id - 1, id)
  <2>1. pre \in 0..Len(queue)
    BY <1>1
  <2> HIDE DEF pre
  <2>2. StETHIn(queue', pre, id) = StETHIn(queue, pre, id)
    BY <1>1, <2>1, PriceStays
  <2>3. y = x
    BY <2>2 DEF pre
  <2>4. EntriesOf(queue)[id] = [owner |-> queue[id].owner, amount |-> x]
    BY <1>1, EntriesTyped
  <2>5. EntriesOf(queue')[id] = [owner |-> queue'[id].owner, amount |-> y]
    BY <1>1, EntriesTyped
  <2> HIDE DEF x, y
  <2> QED
    BY <2>3, <2>4, <2>5
<1>3. \A id \in 1..fin : WorthAt(queue', checkpoints, id) = WorthAt(queue, checkpoints, id)
  <2> SUFFICES ASSUME NEW id \in 1..fin
               PROVE  WorthAt(queue', checkpoints, id) = WorthAt(queue, checkpoints, id)
    OBVIOUS
  <2>1. id \in 1..Len(queue)
    BY <1>1
  <2> QED
    BY <1>1, <2>1, WorthStays
<1>4. WorthsOf(queue', fin', checkpoints') = WorthsOf(queue, fin, checkpoints)
  BY <1>3 DEF WorthsOf
<1> QED
  BY <1>2, <1>4

\* A transfer hands an entry over.
LEMMA TransferHandsOver ==
  ASSUME EscrowInv, NEW from \in Owners, NEW to \in Owners, NEW id \in DOMAIN queue,
         TransferFrom(from, to, id)
  PROVE  Escrow!HandOver(id, to)
<1> DEFINE n == Len(queue)
           E == EntriesOf(queue)
           F == EntriesOf(queue')
<1>1. queue \in Seq(Request) /\ Rising(queue) /\ n \in Nat /\ DOMAIN queue = 1..n
  BY LenProperties DEF EscrowInv, IndexInv
<1>2. /\ queue' \in Seq(Request) /\ Len(queue') = n /\ DOMAIN queue' = DOMAIN queue
      /\ Rising(queue') /\ Continues(queue', queue)
      /\ \A k \in DOMAIN queue : k # id => queue'[k] = queue[k]
      /\ queue'[id].owner = to /\ ~queue'[id].claimed /\ ~queue[id].claimed
      /\ UNCHANGED <<lastFinalizedRequestId, checkpoints, sent>>
  BY TransferReplaces
<1>3. /\ \A k \in 1..n : F[k] = [owner |-> queue'[k].owner, amount |-> E[k].amount]
      /\ WorthsOf(queue', lastFinalizedRequestId', checkpoints')
           = WorthsOf(queue, lastFinalizedRequestId, checkpoints)
  BY <1>2, EntriesKept
<1>4. /\ E \in Seq(Entry) /\ Len(E) = n /\ DOMAIN E = 1..n
      /\ \A k \in 1..n : E[k].owner = queue[k].owner
  <2>1. /\ E \in Seq(Entry) /\ Len(E) = n /\ DOMAIN E = 1..n
        /\ \A k \in 1..n : E[k] = [owner  |-> queue[k].owner,
                                    amount |-> StETHIn(queue, k - 1, k)]
    BY <1>1, EntriesTyped
  <2> HIDE DEF E
  <2> QED
    BY <2>1
<1>5. F \in Seq(Entry) /\ Len(F) = n /\ DOMAIN F = 1..n
  BY <1>2, EntriesTyped
<1> HIDE DEF E, F
<1>6. ASSUME NEW k \in 1..n PROVE F[k] = [E EXCEPT ![id].owner = to][k]
  <2>1. E[k] \in Entry /\ F[k] \in Entry
    BY <1>4, <1>5, ElementOfSeq
  <2>2. E[k] = [owner |-> E[k].owner, amount |-> E[k].amount]
    BY <2>1 DEF Entry
  <2>3. CASE k = id
    BY <1>2, <1>3, <1>4, <2>1, <2>3 DEF Entry
  <2>4. CASE k # id
    <3>1. F[k] = E[k]
      BY <1>1, <1>2, <1>3, <1>4, <2>2, <2>4
    <3>2. [E EXCEPT ![id].owner = to][k] = E[k]
      BY <1>4, <2>4
    <3> QED
      BY <3>1, <3>2
  <2> QED
    BY <2>3, <2>4
<1>7. F = [E EXCEPT ![id].owner = to]
  <2>1. F \in [1..n -> Entry]
    BY <1>5, LenProperties
  <2>2. E \in [1..n -> Entry]
    BY <1>4, LenProperties
  <2>3. F = [k \in 1..n |-> F[k]]
    BY <2>1
  <2>4. [E EXCEPT ![id].owner = to] = [k \in 1..n |-> [E EXCEPT ![id].owner = to][k]]
    BY <2>2
  <2> QED
    BY <1>6, <2>3, <2>4, Zenon
<1>8. PaidOf(queue') = PaidOf(queue)
  BY <1>2 DEF PaidOf
<1>9. id \notin PaidOf(queue)
  BY <1>2 DEF PaidOf
<1> QED
  BY <1>2, <1>3, <1>7, <1>8, <1>9, Mapping, Zenon
     DEF Escrow!HandOver, EntriesOf, PaidOf, E, F

\* A claim pays what the request is worth.
LEMMA ClaimPays ==
  ASSUME EscrowInv, NEW sender \in Owners, NEW id \in DOMAIN queue, NEW hint,
         Claim(sender, id, hint)
  PROVE  id \in DOMAIN WorthsOf(queue, lastFinalizedRequestId, checkpoints) /\ Escrow!Pay(id)
<1> DEFINE n == Len(queue)
           fin == lastFinalizedRequestId
           E == EntriesOf(queue)
           F == EntriesOf(queue')
           w == WorthsOf(queue, fin, checkpoints)
           x == CalculateClaimableEther(id, hint)
<1>1. /\ queue \in Seq(Request) /\ Rising(queue) /\ n \in Nat /\ DOMAIN queue = 1..n
      /\ fin \in 0..n /\ fin \in Nat /\ Ascends(checkpoints, fin)
  BY LenProperties DEF EscrowInv, IndexInv
<1>2. /\ queue' \in Seq(Request) /\ Len(queue') = n /\ DOMAIN queue' = DOMAIN queue
      /\ Rising(queue') /\ Continues(queue', queue)
      /\ \A k \in DOMAIN queue : k # id => queue'[k] = queue[k]
      /\ queue'[id].owner = queue[id].owner
      /\ queue'[id].claimed /\ ~queue[id].claimed
      /\ id \in 1..fin
      /\ Hints(checkpoints, id, hint)
      /\ sent' = sent + x
      /\ UNCHANGED <<lastFinalizedRequestId, checkpoints>>
  BY ClaimReplaces
<1>3. /\ \A k \in 1..n : F[k] = [owner |-> queue'[k].owner, amount |-> E[k].amount]
      /\ WorthsOf(queue', fin', checkpoints') = w
  BY <1>2, EntriesKept
<1>4. /\ E \in Seq(Entry) /\ Len(E) = n /\ DOMAIN E = 1..n
      /\ \A k \in 1..n : E[k].owner = queue[k].owner
  <2>1. /\ E \in Seq(Entry) /\ Len(E) = n /\ DOMAIN E = 1..n
        /\ \A k \in 1..n : E[k] = [owner  |-> queue[k].owner,
                                    amount |-> StETHIn(queue, k - 1, k)]
    BY <1>1, EntriesTyped
  <2> HIDE DEF E
  <2> QED
    BY <2>1
<1>5. F \in Seq(Entry) /\ Len(F) = n /\ DOMAIN F = 1..n
  BY <1>2, EntriesTyped
<1> HIDE DEF E, F
<1>6. ASSUME NEW k \in 1..n PROVE F[k] = E[k]
  <2>1. E[k] \in Entry
    BY <1>4, ElementOfSeq
  <2>2. E[k] = [owner |-> E[k].owner, amount |-> E[k].amount]
    BY <2>1 DEF Entry
  <2>3. queue'[k].owner = queue[k].owner
    BY <1>1, <1>2
  <2> QED
    BY <1>3, <1>4, <2>2, <2>3
<1>7. F = E
  <2>1. F = [k \in 1..n |-> F[k]] /\ E = [k \in 1..n |-> E[k]]
    BY <1>4, <1>5, LenProperties
  <2> QED
    BY <1>6, <2>1, Zenon
<1>8. DOMAIN w = 1..fin /\ w[id] = x
  <2>1. DOMAIN w = 1..fin /\ w[id] = WorthAt(queue, checkpoints, id)
    <3> HIDE DEF fin
    <3> QED
      BY <1>1, <1>2, WorthsTyped
  <2>2. WorthAt(queue, checkpoints, id)
          = EtherFor(queue, id - 1, id, checkpoints[hint].maxShareRate)
    <3> HIDE DEF fin
    <3> QED
      BY <1>1, <1>2, WorthOfHint
  <2> HIDE DEF w
  <2> QED
    BY <2>1, <2>2 DEF CalculateClaimableEther
<1> HIDE DEF w, x
<1>9. PaidOf(queue') = PaidOf(queue) \cup {id} /\ id \notin PaidOf(queue)
  BY <1>2 DEF PaidOf
<1>10. sent' = sent + w[id]
  BY <1>2, <1>8
<1>11. Escrow!Pay(id)
  BY <1>3, <1>7, <1>9, <1>10, Mapping, Zenon
     DEF Escrow!Pay, EntriesOf, PaidOf, E, F, w
<1> QED
  BY <1>2, <1>8, <1>11 DEF w

\* A report that finalizes settles the oldest open requests.
LEMMA ReportEscrows ==
  ASSUME EscrowInv, NEW rate, NEW batches, Settles(rate, batches),
         UNCHANGED <<queue, sent>>
  PROVE  Escrow!Settle
<1> DEFINE n == Len(queue)
           fin == lastFinalizedRequestId
           last == lastFinalizedRequestId'
           c == checkpoints
           d == checkpoints'
           w == WorthsOf(queue, fin, c)
           v == WorthsOf(queue, last, d)
           E == EntriesOf(queue)
<1>1. /\ queue \in Seq(Request) /\ Rising(queue) /\ n \in Nat /\ DOMAIN queue = 1..n
      /\ fin \in 0..n /\ fin \in Nat /\ Ascends(c, fin)
  BY LenProperties DEF EscrowInv, IndexInv
<1>2. /\ rate \in Nat \ {0} /\ last = batches[Len(batches)] /\ fin < last /\ last <= n
      /\ d = Append(c, [fromRequestId |-> fin + 1, maxShareRate |-> rate])
      /\ batches \in Seq(Nat) /\ Len(batches) # 0
  BY DEF Settles, InOrder
<1>3. last \in Nat /\ last \in fin + 1..n /\ last \in 0..n
  <2>1. batches[Len(batches)] \in Nat
    BY <1>2, ElementOfSeq, LenProperties
  <2> HIDE DEF last, d
  <2> QED
    BY <1>1, <1>2, <2>1
<1> HIDE DEF last, d
<1>4. Ascends(d, last) /\ \A id \in 1..fin : WorthAt(queue, d, id) = WorthAt(queue, c, id)
  <2> HIDE DEF fin, c, n
  <2> QED
    BY <1>1, <1>2, <1>3, WorthSettled DEF n
<1>5. /\ w \in Seq(Nat) /\ Len(w) = fin /\ \A id \in 1..fin : w[id] = WorthAt(queue, c, id)
  <2> HIDE DEF fin, c
  <2> QED
    BY <1>1, WorthsTyped
<1>6. v \in Seq(Nat) /\ Len(v) = last /\ \A id \in 1..last : v[id] = WorthAt(queue, d, id)
  <2>1. last \in 0..Len(queue)
    BY <1>3
  <2> QED
    BY <1>1, <1>4, <2>1, WorthsTyped
<1> HIDE DEF w, v
<1>7. SubSeq(v, 1, Len(w)) = w
  <2>1. Len(w) <= Len(v)
    <3> HIDE DEF fin
    <3> QED
      BY <1>1, <1>2, <1>3, <1>5, <1>6
  <2>2. \A id \in 1..Len(w) : v[id] = w[id]
    <3> SUFFICES ASSUME NEW id \in 1..fin PROVE v[id] = w[id]
      BY <1>5
    <3>1. id \in 1..last
      BY <1>1, <1>3
    <3> QED
      BY <1>4, <1>5, <1>6, <3>1
  <2> QED
    BY <1>5, <1>6, <2>1, <2>2, Prefix
<1>8. Len(v) \in Len(w) + 1..Len(E)
  <2>1. Len(E) = n
    BY <1>1, EntriesTyped
  <2> HIDE DEF E
  <2> QED
    BY <1>3, <1>5, <1>6, <2>1
<1>9. ASSUME NEW id \in Len(w) + 1..Len(v) PROVE v[id] \in 0..E[id].amount
  <2>1. id \in 1..last /\ id \in 1..n
    BY <1>1, <1>3, <1>5, <1>6
  <2>2. E[id].amount = StETHIn(queue, id - 1, id)
    <3>1. E[id] = [owner |-> queue[id].owner, amount |-> StETHIn(queue, id - 1, id)]
      BY <1>1, <2>1, EntriesTyped
    <3> HIDE DEF E
    <3> QED
      BY <3>1
  <2>3. /\ WorthAt(queue, d, id) \in Nat
        /\ WorthAt(queue, d, id) <= StETHIn(queue, id - 1, id)
    <3>1. last \in 0..Len(queue)
      BY <1>3
    <3> QED
      BY <1>1, <1>4, <2>1, <3>1, WorthOfHint
  <2>4. StETHIn(queue, id - 1, id) \in Nat
    <3> DEFINE pre == id - 1
    <3>1. pre \in 0..Len(queue) /\ id \in 0..Len(queue) /\ pre < id
      BY <1>1, <2>1
    <3> HIDE DEF pre
    <3>2. StETHIn(queue, pre, id) \in Nat
      BY <1>1, <3>1, RangeTyped
    <3> QED
      BY <3>2 DEF pre
  <2> HIDE DEF E
  <2> QED
    BY <1>6, <2>1, <2>2, <2>3, <2>4
<1>10. EntriesOf(queue') = E /\ PaidOf(queue') = PaidOf(queue) /\ sent' = sent
  OBVIOUS
<1>11. WorthsOf(queue', lastFinalizedRequestId', checkpoints') = v
  BY DEF v, last, d
<1> HIDE DEF E
<1> QED
  BY <1>7, <1>8, <1>9, <1>10, <1>11, Mapping, Zenon
     DEF Escrow!Settle, EntriesOf, PaidOf, E, w

\* An action that leaves the queue and the checkpoints alone is a stutter of the escrow.
LEMMA NumbersStutter ==
  ASSUME UNCHANGED <<queue, lastFinalizedRequestId, checkpoints, sent>>
  PROVE  UNCHANGED Escrow!vars
<1>1. /\ EntriesOf(queue') = EntriesOf(queue) /\ PaidOf(queue') = PaidOf(queue)
      /\ WorthsOf(queue', lastFinalizedRequestId', checkpoints')
           = WorthsOf(queue, lastFinalizedRequestId, checkpoints)
  OBVIOUS
<1> QED
  BY <1>1, Mapping, Zenon DEF Escrow!vars, EntriesOf, PaidOf

\* One step per action.
LEMMA StepEscrows ==
  ASSUME EscrowInv, [Next]_vars PROVE [Escrow!Next]_Escrow!vars
<1>1. CASE Tick \/ ChangePause \/ UNCHANGED vars
  <2>1. UNCHANGED <<queue, lastFinalizedRequestId, checkpoints, sent>>
    BY <1>1, PauseTyped DEF Numbers
  <2> QED
    BY <2>1, NumbersStutter
<1>2. ASSUME NEW a \in Amounts, NEW o \in Owners, RequestWithdrawals(a, o)
      PROVE  [Escrow!Next]_Escrow!vars
  BY <1>2, RequestEnters DEF Escrow!Next
<1>3. ASSUME NEW from \in Owners, NEW to \in Owners, NEW id \in DOMAIN queue,
             TransferFrom(from, to, id)
      PROVE  [Escrow!Next]_Escrow!vars
  <2>1. Escrow!HandOver(id, to)
    BY <1>3, TransferHandsOver
  <2>2. id \in DOMAIN [k \in DOMAIN queue |-> [owner  |-> queue[k].owner,
                                               amount |-> StETHIn(queue, k - 1, k)]]
    OBVIOUS
  <2> QED
    BY <2>1, <2>2 DEF Escrow!Next
<1>4. ASSUME NEW o \in Owners, NEW id \in DOMAIN queue, NEW hint, Claim(o, id, hint)
      PROVE  [Escrow!Next]_Escrow!vars
  <2>1. id \in DOMAIN [k \in Finalized |-> Worth(k)] /\ Escrow!Pay(id)
    BY <1>4, ClaimPays, Mapping, Zenon
  <2> QED
    BY <2>1 DEF Escrow!Next
<1>5. ASSUME NEW o \in Owners, NEW id \in DOMAIN queue, ClaimWithdrawal(o, id)
      PROVE  [Escrow!Next]_Escrow!vars
  BY <1>4, <1>5 DEF ClaimWithdrawal
<1>6. ASSUME NEW b \in BOOLEAN, NEW t \in 0..now, NEW m \in 0..now, NEW p \in Pools,
             NEW e \in Budgets, OracleReport(b, t, p, m, e)
      PROVE  [Escrow!Next]_Escrow!vars
  <2>1. /\ UNCHANGED <<queue, sent>>
        /\ \/ UNCHANGED <<lastFinalizedRequestId, checkpoints, mixed, lockedEtherAmount>>
           \/ \E rate, batches : Settles(rate, batches)
    BY <1>6, ReportSettles
  <2>2. CASE UNCHANGED <<lastFinalizedRequestId, checkpoints, mixed, lockedEtherAmount>>
    <3>1. UNCHANGED Escrow!vars
      BY <2>1, <2>2, NumbersStutter
    <3> QED
      BY <3>1
  <2>3. ASSUME NEW rate, NEW batches, Settles(rate, batches) PROVE Escrow!Settle
    BY <2>1, <2>3, ReportEscrows
  <2> QED
    BY <2>1, <2>2, <2>3 DEF Escrow!Next
<1> QED
  BY <1>1, <1>2, <1>3, <1>4, <1>5, <1>6, Zenon DEF Next

LEMMA InitEscrows == Init => Escrow!Init
<1> SUFFICES ASSUME Init PROVE Escrow!Init
  OBVIOUS
<1>1. queue = << >> /\ lastFinalizedRequestId = 0 /\ sent = 0
  BY DEF Init
<1>2. DOMAIN queue = {} /\ Finalized = {}
  BY <1>1 DEF Finalized
<1> DEFINE e == [id \in DOMAIN queue |-> [owner  |-> queue[id].owner,
                                          amount |-> StETHIn(queue, id - 1, id)]]
           w == [id \in Finalized |-> Worth(id)]
<1>3. e = << >>
  BY <1>2
<1>4. w = << >>
  BY <1>2
<1>5. {id \in DOMAIN queue : queue[id].claimed} = {}
  BY <1>2
<1> QED
  BY <1>1, <1>3, <1>4, <1>5, Zenon DEF Escrow!Init

-------------------------------------------------------------------------------
\* Theorems

\* Every variable keeps its type.
THEOREM TypeCorrect == Spec => []TypeOK
<1>1. EscrowInv => TypeOK
  <2> SUFFICES ASSUME EscrowInv PROVE TypeOK
    OBVIOUS
  <2>1. requestsByOwner \in [Owners -> SUBSET (1..Len(queue))]
    <3>1. queue \in Seq(Request) /\ DOMAIN queue = 1..Len(queue)
      BY LenProperties DEF EscrowInv, IndexInv
    <3>2. \A o \in Owners : requestsByOwner[o] \subseteq 1..Len(queue)
      BY <3>1 DEF EscrowInv, IndexInv, Indexed
    <3> QED
      BY <3>2 DEF EscrowInv, IndexInv
  <2> QED
    BY <2>1 DEF EscrowInv, IndexInv, Ascends, TypeOK
<1> QED
  BY <1>1, InitEscrow, NextEscrow, PTL DEF Spec

\* However requests and reports come, each finalized request is claimed against
\* one checkpoint, and the search of findCheckpointHints finds it in any range
\* that has it (WithdrawalQueueBase.sol:407-453).
THEOREM OneHintAlwaysFound == Spec => []OneHintAndFound
<1>1. EscrowInv => OneHintAndFound
  <2> SUFFICES ASSUME EscrowInv, NEW id \in Finalized
               PROVE  \E hint \in DOMAIN checkpoints :
                        /\ {h \in DOMAIN checkpoints : HintAccepted(id, h)} = {hint}
                        /\ \A start, end \in DOMAIN checkpoints :
                             FindCheckpointHint(id, start, end) =
                               IF hint \in start..end THEN hint ELSE NOT_FOUND
    BY DEF OneHintAndFound
  <2>1. /\ lastFinalizedRequestId \in Nat /\ id \in 1..lastFinalizedRequestId
        /\ Ascends(checkpoints, lastFinalizedRequestId)
        /\ DOMAIN checkpoints = 1..Len(checkpoints)
    BY LenProperties DEF EscrowInv, IndexInv, Ascends, Finalized
  <2>2. PICK hint \in 1..Len(checkpoints) :
          /\ \A i \in 1..Len(checkpoints) :
               checkpoints[i].fromRequestId <= id <=> i <= hint
          /\ \A i : Hints(checkpoints, id, i) <=> i = hint
    BY <2>1, OneHint
  <2>3. \A h : HintAccepted(id, h) <=> Hints(checkpoints, id, h)
    BY DEF HintAccepted, Hints
  <2>4. {h \in DOMAIN checkpoints : HintAccepted(id, h)} = {hint}
    BY <2>1, <2>2, <2>3
  <2>5. ASSUME NEW start \in DOMAIN checkpoints, NEW end \in DOMAIN checkpoints
        PROVE  FindCheckpointHint(id, start, end) =
                 IF hint \in start..end THEN hint ELSE NOT_FOUND
    BY <2>1, <2>2, HintFound
  <2> QED
    BY <2>1, <2>4, <2>5
<1> QED
  BY <1>1, InitEscrow, NextEscrow, PTL DEF Spec

\* The index of requests by owner never comes apart from the queue, so that no
\* assert on it ever blocks a request, a transfer or a claim
\* (WithdrawalQueueBase.sol:471, WithdrawalQueueERC721.sol _transfer).
THEOREM OwnersAlwaysIndexed == Spec => []OwnersIndexed
<1>1. IndexInv => OwnersIndexed
  BY DEF IndexInv, Indexed, OwnersIndexed
<1> QED
  BY <1>1, InitIndexed, NextIndexed, PTL DEF Spec

\* The locked ether pays for every finalized request not claimed yet, but for a wei
\* for each discounted batch with a request that is not: the price of a batch is
\* rounded once, the payouts one by one (WithdrawalQueueBase.sol:298, 490).
THEOREM ClaimsAlwaysCovered == Spec /\ []FewShares => []ClaimsCovered
<1>1. Init => Covered
  <2> SUFFICES ASSUME Init PROVE Covered
    OBVIOUS
  <2> DEFINE n == 0
             s == Owed(queue, n, checkpoints)
  <2>1. lastFinalizedRequestId = n /\ lockedEtherAmount = 0 /\ mixed = 0
    BY DEF Init
  <2>2. s \in [1..n -> Int] /\ \A k \in 1..n : s[k] = 0
    BY DEF Owed
  <2>3. Sum(s) = 0
    <3>1. n \in Nat
      OBVIOUS
    <3> HIDE DEF n, s
    <3> QED
      BY <2>2, <3>1, SumZero
  <2> HIDE DEF n
  <2> QED
    BY <2>1, <2>3 DEF Covered
<1>2. EscrowInv /\ FewShares /\ Covered /\ [Next]_vars => Covered'
  BY NextCovered
<1>3. EscrowInv /\ Covered => ClaimsCovered
  <2>1. ASSUME EscrowInv, Covered PROVE ClaimsCovered
    <3>1. \A id \in Finalized : Worth(id) = WorthAt(queue, checkpoints, id)
      BY WorthIsWorthAt
    <3>2. [id \in Finalized |-> IF queue[id].claimed THEN 0 ELSE Worth(id)]
            = Owed(queue, lastFinalizedRequestId, checkpoints)
      BY <3>1, Zenon DEF Owed, Finalized
    <3> QED
      BY <2>1, <3>2 DEF Covered, ClaimsCovered
  <2> QED
    BY <2>1
<1> QED
  BY <1>1, <1>2, <1>3, InitEscrow, NextEscrow, PTL DEF Spec

\* To its users the queue is the escrow of WithdrawalEscrow.tla: requests are settled
\* in the order they came, none above what was asked; no later report changes what a
\* request is worth; it is paid once, to whoever owns it then.
THEOREM QueueImplementsEscrow == Spec => ImplementsEscrow
<1>1. EscrowInv /\ [Next]_vars => [Escrow!Next]_Escrow!vars
  BY StepEscrows
<1> QED
  BY <1>1, InitEscrows, InitEscrow, NextEscrow, PTL DEF Spec, ImplementsEscrow, Escrow!Spec
===================================================================================
