-------------------------------- MODULE Foundations -------------------------------
(***************************************************************************)
(* What the proofs of several components rest on: rounded quotients;       *)
(* induction on natural numbers in terms of sets, and from it the facts    *)
(* about minima, iterated functions, folds over sequences and sums that    *)
(* loops and totals need; and reporting frames and their fast lane, for    *)
(* every slot, frame configuration and SLOTS_PER_EPOCH.  (A component      *)
(* without frames uses nothing of the last parts: SLOTS_PER_EPOCH means    *)
(* nothing to its proofs.)                                                 *)
(***************************************************************************)
EXTENDS Frames, Totals, FiniteSets, TLAPS, WellFoundedInduction, SequenceTheorems,
        FiniteSetTheorems, FunctionTheorems

\* Rounded quotients, and products: what the provers need to be told.
LEMMA Quotient ==
  ASSUME NEW a \in Nat, NEW b \in Nat \ {0}
  PROVE  /\ a \div b \in Nat
         /\ b * (a \div b) <= a
         /\ a < b * (a \div b) + b
OBVIOUS

LEMMA ProductTyped == ASSUME NEW a \in Nat, NEW b \in Nat PROVE a * b \in Nat
OBVIOUS

LEMMA ProductMonotone ==
  ASSUME NEW a \in Nat, NEW b \in Nat, NEW c \in Nat, a <= b
  PROVE  a * c <= b * c
OBVIOUS

LEMMA QuotientMonotone ==
  ASSUME NEW a \in Nat, NEW c \in Nat, NEW b \in Nat \ {0}, a <= c
  PROVE  a \div b <= c \div b
<1> DEFINE q == a \div b
           r == c \div b
<1>1. q \in Nat /\ r \in Nat /\ b * q <= a /\ c < b * r + b
  BY Quotient
<1> HIDE DEF q, r
<1>2. b * q < b * (r + 1)
  BY <1>1
<1>3. q < r + 1
  BY <1>1, <1>2
<1> QED
  BY <1>1, <1>3 DEF q, r

-------------------------------------------------------------------------------
\* A nonempty set of natural numbers has a smallest element.
THEOREM NatMin ==
  ASSUME NEW S \in SUBSET Nat, S # {}
  PROVE  \E m \in S : \A n \in S : m <= n
<1>1. PICK m \in S : \A n \in S : ~(<<n, m>> \in OpToRel(<, Nat))
  BY NatLessThanWellFounded, WFMin
<1>2. ASSUME NEW n \in S PROVE m <= n
  <2>1. ~(n < m)
    <3>1. ASSUME n < m PROVE <<n, m>> \in OpToRel(<, Nat)
      BY <3>1 DEF OpToRel
    <3> QED
      BY <3>1, <1>1
  <2> QED
    BY <2>1
<1> QED
  BY <1>2

\* Induction: a set that contains 0 and, below n, the successor of each of its
\* elements, contains all numbers up to n.
THEOREM SetInduction ==
  ASSUME NEW n \in Nat, NEW S, 0 \in S, \A k \in 0..n - 1 : k \in S => k + 1 \in S
  PROVE  0..n \subseteq S
<1> DEFINE T == {k \in 0..n : k \notin S}
<1>1. SUFFICES T = {}
  OBVIOUS
<1>2. SUFFICES ASSUME T # {} PROVE FALSE
  OBVIOUS
<1>3. PICK m \in T : \A k \in T : m <= k
  <2>1. T \in SUBSET Nat
    OBVIOUS
  <2> HIDE DEF T
  <2> QED
    BY <2>1, <1>2, NatMin
<1>4. m # 0 /\ m - 1 \in 0..n - 1 /\ m - 1 \notin T
  BY <1>3
<1>5. m - 1 \in S
  BY <1>4
<1> QED
  BY <1>3, <1>4, <1>5

\* g[k] is b after the first k steps of f.
Iterates(g, b, n, f) == g[0] = b /\ \A k \in 1..n : g[k] = f[k][g[k - 1]]

\* Iterates exist.
THEOREM IterationExists ==
  ASSUME NEW R, NEW b \in R, NEW n \in Nat, NEW f \in [1..n -> [R -> R]]
  PROVE  \E g \in [0..n -> R] : Iterates(g, b, n, f)
<1> DEFINE Good(m) == \E g \in [0..m -> R] : g[0] = b /\ \A k \in 1..m : g[k] = f[k][g[k - 1]]
           S == {m \in 0..n : Good(m)}
<1>1. 0 \in S
  <2> DEFINE g == [k \in 0..0 |-> b]
  <2>1. g \in [0..0 -> R] /\ g[0] = b /\ 1..0 = {}
    OBVIOUS
  <2>2. Good(0)
    <3> HIDE DEF g
    <3> QED
      BY <2>1
  <2> QED
    BY <2>2
<1>2. ASSUME NEW m \in 0..n - 1, m \in S PROVE m + 1 \in S
  <2>1. PICK g \in [0..m -> R] : g[0] = b /\ \A k \in 1..m : g[k] = f[k][g[k - 1]]
    BY <1>2
  <2> DEFINE h == [k \in 0..m + 1 |-> IF k = m + 1 THEN f[m + 1][g[m]] ELSE g[k]]
  <2>2. h \in [0..m + 1 -> R]
    <3>1. g[m] \in R /\ m + 1 \in 1..n
      OBVIOUS
    <3>2. f[m + 1][g[m]] \in R
      BY <3>1
    <3> QED
      BY <3>2
  <2>3. h[0] = b
    BY <2>1
  <2>4. ASSUME NEW k \in 1..m + 1 PROVE h[k] = f[k][h[k - 1]]
    BY <2>1
  <2>5. Good(m + 1)
    <3> HIDE DEF h
    <3> QED
      BY <2>2, <2>3, <2>4
  <2> QED
    BY <2>5
<1>3. 0..n \subseteq S
  <2> HIDE DEF S
  <2> QED
  BY <1>1, <1>2, SetInduction
<1>4. Good(n)
  BY <1>3
<1> QED
  BY <1>4 DEF Iterates

\* The recursive function in the definition of Sum exists.
THEOREM SumIterates ==
  ASSUME NEW n \in Nat, NEW s \in [1..n -> Int]
  PROVE  \E g \in [0..n -> Int] : /\ g[0] = 0
                                  /\ \A k \in 1..n : g[k] = g[k - 1] + s[k]
                                  /\ g[n] = Sum(s)
<1> DEFINE f == [k \in 1..n |-> [x \in Int |-> x + s[k]]]
           Eq(u) == u = [k \in 0..n |-> IF k = 0 THEN 0 ELSE u[k - 1] + s[k]]
<1>1. f \in [1..n -> [Int -> Int]]
  OBVIOUS
<1>2. PICK h \in [0..n -> Int] : h[0] = 0 /\ \A k \in 1..n : h[k] = f[k][h[k - 1]]
  <2> DEFINE b == 0
  <2>1. b \in Int
    OBVIOUS
  <2>2. PICK h \in [0..n -> Int] : Iterates(h, b, n, f)
    <3> HIDE DEF f, b
    <3> QED
      BY <1>1, <2>1, IterationExists
  <2> HIDE DEF f
  <2> QED
    BY <2>2 DEF Iterates
<1>3. ASSUME NEW k \in 1..n PROVE h[k] = h[k - 1] + s[k]
  <2>1. h[k] = f[k][h[k - 1]]
    <3> HIDE DEF f
    <3> QED
      BY <1>2
  <2>2. h[k - 1] \in Int
    <3>1. k - 1 \in 0..n
      OBVIOUS
    <3> QED
      BY <3>1
  <2> QED
    BY <2>1, <2>2
<1>4. Eq(h)
  BY <1>2, <1>3
<1>5. s \in Seq(Int) /\ DOMAIN s = 1..n
  BY SeqDef
<1>6. Len(s) = n
  BY <1>5, LenProperties
<1>7. Eq(CHOOSE u : Eq(u))
  <2> HIDE DEF Eq
  <2> QED
    BY <1>4
<1>8. \A u : Eq(u) => u[n] = h[n]
  <2> SUFFICES ASSUME NEW u, Eq(u) PROVE u[n] = h[n]
    OBVIOUS
  <2>1. u[0] = 0 /\ \A k \in 1..n : u[k] = u[k - 1] + s[k]
    OBVIOUS
  <2> DEFINE S == {k \in 0..n : u[k] = h[k]}
  <2>2. 0 \in S /\ \A k \in 0..n - 1 : k \in S => k + 1 \in S
    BY <2>1, <1>2, <1>3
  <2>3. 0..n \subseteq S
    <3> HIDE DEF S
    <3> QED
      BY <2>2, SetInduction
  <2> QED
    BY <2>3
<1>9. Sum(s) = h[n]
  <2>1. Sum(s) = (CHOOSE u : Eq(u))[n]
    BY <1>6 DEF Sum
  <2> QED
    BY <2>1, <1>7, <1>8
<1> QED
  BY <1>2, <1>3, <1>9

\* A sum of integers is an integer.
THEOREM SumType ==
  ASSUME NEW n \in Nat, NEW s \in [1..n -> Int]
  PROVE  Sum(s) \in Int
<1>1. PICK g \in [0..n -> Int] : g[n] = Sum(s)
  BY SumIterates
<1> QED
  BY <1>1

\* The sum of what was added to each entry is what the sum grew by.
THEOREM SumDifference ==
  ASSUME NEW n \in Nat, NEW a \in [1..n -> Int], NEW b \in [1..n -> Int],
         NEW d \in [1..n -> Int], \A k \in 1..n : d[k] = b[k] - a[k]
  PROVE  Sum(b) = Sum(a) + Sum(d)
<1>1. PICK f \in [0..n -> Int] : /\ f[0] = 0 /\ f[n] = Sum(a)
                                 /\ \A k \in 1..n : f[k] = f[k - 1] + a[k]
  BY SumIterates
<1>2. PICK g \in [0..n -> Int] : /\ g[0] = 0 /\ g[n] = Sum(b)
                                 /\ \A k \in 1..n : g[k] = g[k - 1] + b[k]
  BY SumIterates
<1>3. PICK h \in [0..n -> Int] : /\ h[0] = 0 /\ h[n] = Sum(d)
                                 /\ \A k \in 1..n : h[k] = h[k - 1] + d[k]
  BY SumIterates
<1> DEFINE S == {k \in 0..n : g[k] = f[k] + h[k]}
<1>4. 0 \in S
  BY <1>1, <1>2, <1>3
<1>5. ASSUME NEW k \in 0..n - 1, k \in S PROVE k + 1 \in S
  <2>1. g[k] = f[k] + h[k] /\ k + 1 \in 1..n /\ k + 1 \in 0..n
    BY <1>5
  <2>2. /\ f[k + 1] = f[k] + a[k + 1]
        /\ g[k + 1] = g[k] + b[k + 1]
        /\ h[k + 1] = h[k] + d[k + 1]
    <3>1. (k + 1) - 1 = k
      OBVIOUS
    <3> QED
      BY <2>1, <3>1, <1>1, <1>2, <1>3
  <2>3. /\ a[k + 1] \in Int /\ b[k + 1] \in Int /\ d[k + 1] = b[k + 1] - a[k + 1]
        /\ f[k] \in Int /\ h[k] \in Int
    BY <2>1
  <2> QED
    BY SMTT(20), <2>1, <2>2, <2>3
<1>6. 0..n \subseteq S
  <2> HIDE DEF S
  <2> QED
    BY <1>4, <1>5, SetInduction
<1> QED
  BY <1>1, <1>2, <1>3, <1>6

\* A sum of zeros.
THEOREM SumZero ==
  ASSUME NEW n \in Nat, NEW d \in [1..n -> Int], \A k \in 1..n : d[k] = 0
  PROVE  Sum(d) = 0
<1>1. Sum(d) = Sum(d) + Sum(d)
  BY SumDifference
<1>2. Sum(d) \in Int
  BY SumIterates
<1> QED
  BY <1>1, <1>2

\* A sum of which one entry is not zero.
THEOREM SumSingle ==
  ASSUME NEW n \in Nat, NEW d \in [1..n -> Int], NEW i \in 1..n,
         \A k \in 1..n : k # i => d[k] = 0
  PROVE  Sum(d) = d[i]
<1>1. PICK h \in [0..n -> Int] : /\ h[0] = 0 /\ h[n] = Sum(d)
                                 /\ \A k \in 1..n : h[k] = h[k - 1] + d[k]
  BY SumIterates
<1> DEFINE S == {k \in 0..n : h[k] = IF k < i THEN 0 ELSE d[i]}
<1>2. 0 \in S
  BY <1>1
<1>3. ASSUME NEW k \in 0..n - 1, k \in S PROVE k + 1 \in S
  <2>1. h[k + 1] = h[k] + d[k + 1] /\ k + 1 \in 1..n /\ k + 1 \in 0..n /\ d[k + 1] \in Int
    BY <1>1
  <2>2. h[k] = IF k < i THEN 0 ELSE d[i]
    BY <1>3
  <2> QED
    BY <2>1, <2>2
<1>4. 0..n \subseteq S
  <2> HIDE DEF S
  <2> QED
    BY <1>2, <1>3, SetInduction
<1> QED
  BY <1>1, <1>4

\* One entry is changed.
THEOREM SumUpdate ==
  ASSUME NEW n \in Nat, NEW a \in [1..n -> Int], NEW i \in 1..n, NEW x \in Int
  PROVE  Sum([a EXCEPT ![i] = x]) = Sum(a) + x - a[i]
<1> DEFINE b == [a EXCEPT ![i] = x]
           d == [k \in 1..n |-> b[k] - a[k]]
<1>1. /\ b \in [1..n -> Int] /\ d \in [1..n -> Int]
      /\ \A k \in 1..n : d[k] = b[k] - a[k]
  OBVIOUS
<1>2. d[i] = x - a[i] /\ \A k \in 1..n : k # i => d[k] = 0
  OBVIOUS
<1>3. Sum(a) \in Int /\ a[i] \in Int
  BY SumIterates
<1> HIDE DEF b, d
<1>4. Sum(b) = Sum(a) + Sum(d)
  BY <1>1, SumDifference
<1>5. Sum(d) = d[i]
  BY <1>1, <1>2, SumSingle
<1>6. Sum(b) = Sum(a) + x - a[i]
  BY <1>2, <1>3, <1>4, <1>5
<1> QED
  BY <1>6 DEF b

\* Appending adds.
THEOREM SumAppend ==
  ASSUME NEW n \in Nat, NEW a \in [1..n -> Int], NEW b \in [1..n + 1 -> Int],
         \A k \in 1..n : b[k] = a[k]
  PROVE  Sum(b) = Sum(a) + b[n + 1]
<1>1. PICK f \in [0..n -> Int] : /\ f[0] = 0 /\ f[n] = Sum(a)
                                 /\ \A k \in 1..n : f[k] = f[k - 1] + a[k]
  BY SumIterates
<1>2. PICK g \in [0..n + 1 -> Int] : /\ g[0] = 0 /\ g[n + 1] = Sum(b)
                                     /\ \A k \in 1..n + 1 : g[k] = g[k - 1] + b[k]
  <2> DEFINE m == n + 1
  <2>1. m \in Nat /\ b \in [1..m -> Int]
    OBVIOUS
  <2>2. \E g \in [0..m -> Int] : /\ g[0] = 0 /\ g[m] = Sum(b)
                                 /\ \A k \in 1..m : g[k] = g[k - 1] + b[k]
    <3> HIDE DEF m
    <3> QED
      BY <2>1, SumIterates
  <2> QED
    BY <2>2
<1> DEFINE S == {k \in 0..n : g[k] = f[k]}
<1>3. 0 \in S
  BY <1>1, <1>2
<1>4. ASSUME NEW k \in 0..n - 1, k \in S PROVE k + 1 \in S
  BY <1>1, <1>2, <1>4
<1>5. 0..n \subseteq S
  <2> HIDE DEF S
  <2> QED
    BY <1>3, <1>4, SetInduction
<1>6. g[n] = f[n] /\ g[n + 1] = g[n] + b[n + 1]
  BY <1>2, <1>5
<1> QED
  BY <1>1, <1>2, <1>6

\* Sums are ordered like their parts.
THEOREM SumMonotone ==
  ASSUME NEW n \in Nat, NEW a \in [1..n -> Int], NEW b \in [1..n -> Int],
         \A k \in 1..n : a[k] <= b[k]
  PROVE  Sum(a) <= Sum(b)
<1>1. PICK f \in [0..n -> Int] : /\ f[0] = 0 /\ f[n] = Sum(a)
                                 /\ \A k \in 1..n : f[k] = f[k - 1] + a[k]
  BY SumIterates
<1>2. PICK g \in [0..n -> Int] : /\ g[0] = 0 /\ g[n] = Sum(b)
                                 /\ \A k \in 1..n : g[k] = g[k - 1] + b[k]
  BY SumIterates
<1> DEFINE S == {k \in 0..n : f[k] <= g[k]}
<1>3. 0 \in S
  BY <1>1, <1>2
<1>4. ASSUME NEW k \in 0..n - 1, k \in S PROVE k + 1 \in S
  <2>1. k + 1 \in 1..n /\ k + 1 \in 0..n /\ (k + 1) - 1 = k /\ k \in 0..n
    OBVIOUS
  <2>2. f[k + 1] = f[k] + a[k + 1] /\ g[k + 1] = g[k] + b[k + 1]
    BY <2>1, <1>1, <1>2
  <2> QED
    BY <2>1, <2>2, <1>4
<1>5. 0..n \subseteq S
  <2> HIDE DEF S
  <2> QED
    BY <1>3, <1>4, SetInduction
<1> QED
  BY <1>1, <1>2, <1>5

\* A common factor.
THEOREM SumScaled ==
  ASSUME NEW n \in Nat, NEW a \in [1..n -> Int], NEW b \in [1..n -> Int], NEW c \in Int,
         \A k \in 1..n : b[k] = c * a[k]
  PROVE  Sum(b) = c * Sum(a)
<1>1. PICK f \in [0..n -> Int] : /\ f[0] = 0 /\ f[n] = Sum(a)
                                 /\ \A k \in 1..n : f[k] = f[k - 1] + a[k]
  BY SumIterates
<1>2. PICK g \in [0..n -> Int] : /\ g[0] = 0 /\ g[n] = Sum(b)
                                 /\ \A k \in 1..n : g[k] = g[k - 1] + b[k]
  BY SumIterates
<1> DEFINE S == {k \in 0..n : g[k] = c * f[k]}
<1>3. 0 \in S
  BY <1>1, <1>2
<1>4. ASSUME NEW k \in 0..n - 1, k \in S PROVE k + 1 \in S
  <2>1. k + 1 \in 1..n /\ k + 1 \in 0..n /\ (k + 1) - 1 = k /\ k \in 0..n
    OBVIOUS
  <2>2. /\ f[k + 1] = f[k] + a[k + 1] /\ g[k + 1] = g[k] + b[k + 1]
        /\ b[k + 1] = c * a[k + 1] /\ g[k] = c * f[k]
    BY <2>1, <1>1, <1>2, <1>4
  <2>3. f[k] \in Int /\ a[k + 1] \in Int
    BY <2>1
  <2>4. \A x, y \in Int : c * x + c * y = c * (x + y)
    OBVIOUS
  <2>5. g[k + 1] = c * f[k + 1]
    BY <2>2, <2>3, <2>4
  <2> QED
    BY <2>1, <2>5
<1>5. 0..n \subseteq S
  <2> HIDE DEF S
  <2> QED
    BY <1>3, <1>4, SetInduction
<1> QED
  BY <1>1, <1>2, <1>5

\* Counting the members of a set one by one.
THEOREM SumCounts ==
  ASSUME NEW n \in Nat, NEW A \in SUBSET (1..n), NEW e \in [1..n -> Int],
         \A k \in 1..n : e[k] = IF k \in A THEN 1 ELSE 0
  PROVE  Sum(e) = Cardinality(A)
<1>1. PICK f \in [0..n -> Int] : /\ f[0] = 0 /\ f[n] = Sum(e)
                                 /\ \A k \in 1..n : f[k] = f[k - 1] + e[k]
  BY SumIterates
<1> DEFINE S == {k \in 0..n : f[k] = Cardinality(A \cap (1..k))}
<1>3. 0 \in S
  <2>1. A \cap (1..0) = {}
    OBVIOUS
  <2> QED
    BY <1>1, <2>1, FS_EmptySet
<1>4. ASSUME NEW k \in 0..n - 1, k \in S PROVE k + 1 \in S
  <2>1. k + 1 \in 1..n /\ k + 1 \in 0..n /\ (k + 1) - 1 = k /\ k \in 0..n
    OBVIOUS
  <2>2. f[k + 1] = f[k] + e[k + 1] /\ f[k] = Cardinality(A \cap (1..k))
    BY <2>1, <1>1, <1>4
  <2>3. IsFiniteSet(A \cap (1..k))
    <3>1. A \cap (1..k) \subseteq 1..k /\ IsFiniteSet(1..k)
      BY FS_Interval
    <3> QED
      BY <3>1, FS_Subset
  <2>4. k + 1 \notin A \cap (1..k)
    OBVIOUS
  <2>5. Cardinality(A \cap (1..k)) \in Nat
    BY <2>3, FS_CardinalityType
  <2>6. CASE k + 1 \in A
    <3>1. A \cap (1..k + 1) = (A \cap (1..k)) \cup {k + 1}
      BY <2>6
    <3>2. Cardinality(A \cap (1..k + 1)) = Cardinality(A \cap (1..k)) + 1
      BY <2>3, <2>4, <3>1, FS_AddElement
    <3>3. f[k + 1] = f[k] + 1
      BY <2>1, <2>2, <2>6
    <3>4. f[k + 1] = Cardinality(A \cap (1..k + 1))
      BY <2>2, <3>2, <3>3
    <3> QED
      BY <2>1, <3>4
  <2>7. CASE k + 1 \notin A
    <3>1. A \cap (1..k + 1) = A \cap (1..k)
      BY <2>7
    <3>2. f[k + 1] = f[k]
      BY <2>1, <2>2, <2>5, <2>7
    <3>3. f[k + 1] = Cardinality(A \cap (1..k + 1))
      BY Zenon, <2>2, <3>1, <3>2
    <3> QED
      BY <2>1, <3>3
  <2> QED
    BY <2>6, <2>7
<1>5. 0..n \subseteq S
  <2> HIDE DEF S
  <2> QED
    BY <1>3, <1>4, SetInduction
<1>6. A \cap (1..n) = A
  OBVIOUS
<1> QED
  BY <1>1, <1>5, <1>6

\* A sum of natural numbers is at least each of them.
THEOREM SumPart ==
  ASSUME NEW n \in Nat, NEW a \in [1..n -> Int], \A k \in 1..n : a[k] >= 0
  PROVE  Sum(a) \in Nat /\ \A i \in 1..n : a[i] <= Sum(a)
<1>1. ASSUME NEW i \in 1..n PROVE a[i] <= Sum(a)
  <2> DEFINE one == [k \in 1..n |-> IF k = i THEN a[i] ELSE 0]
  <2>1. /\ one \in [1..n -> Int] /\ \A k \in 1..n : one[k] <= a[k]
        /\ one[i] = a[i] /\ \A k \in 1..n : k # i => one[k] = 0
    OBVIOUS
  <2> HIDE DEF one
  <2>2. Sum(one) <= Sum(a) /\ Sum(one) = one[i]
    BY <2>1, SumMonotone, SumSingle
  <2> QED
    BY <2>1, <2>2
<1> DEFINE z == [k \in 1..n |-> 0]
<1>2. z \in [1..n -> Int] /\ \A k \in 1..n : z[k] = 0 /\ z[k] <= a[k]
  OBVIOUS
<1> HIDE DEF z
<1>3. Sum(z) <= Sum(a) /\ Sum(z) = 0 /\ Sum(a) \in Int
  BY <1>2, SumMonotone, SumZero, SumType
<1> QED
  BY <1>1, <1>3

\* What starts no larger and never grows by more stays no larger.
THEOREM Telescope ==
  ASSUME NEW a \in Nat, NEW b \in Nat, NEW x, NEW y, a <= b,
         \A k \in a..b : x[k] \in Int /\ y[k] \in Int,
         x[a] <= y[a],
         \A k \in a + 1..b : x[k] - x[k - 1] <= y[k] - y[k - 1]
  PROVE  \A k \in a..b : x[k] <= y[k]
<1> DEFINE S == {k \in 0..b - a : x[a + k] <= y[a + k]}
<1>1. 0 \in S
  BY a + 0 = a
<1>2. \A k \in 0..(b - a) - 1 : k \in S => k + 1 \in S
  <2> SUFFICES ASSUME NEW k \in 0..(b - a) - 1, x[a + k] <= y[a + k]
               PROVE  k + 1 \in 0..b - a /\ x[a + (k + 1)] <= y[a + (k + 1)]
    OBVIOUS
  <2> DEFINE m == a + (k + 1)
  <2>1. m \in a + 1..b /\ m \in a..b /\ m - 1 = a + k /\ a + k \in a..b /\ k + 1 \in 0..b - a
    OBVIOUS
  <2> HIDE DEF m
  <2>2. x[m] - x[m - 1] <= y[m] - y[m - 1] /\ x[m - 1] <= y[m - 1]
    BY <2>1
  <2>3. x[m] \in Int /\ y[m] \in Int /\ x[m - 1] \in Int /\ y[m - 1] \in Int
    BY <2>1
  <2>4. x[m] <= y[m]
    BY <2>2, <2>3
  <2> QED
    BY <2>1, <2>4 DEF m
<1>3. 0..b - a \subseteq S
  <2> HIDE DEF S
  <2> QED
    BY <1>1, <1>2, b - a \in Nat, SetInduction
<1>4. ASSUME NEW k \in a..b PROVE x[k] <= y[k]
  <2>1. k - a \in 0..b - a /\ a + (k - a) = k
    OBVIOUS
  <2>2. k - a \in S
    <3> HIDE DEF S
    <3> QED
      BY <1>3, <2>1
  <2> QED
    BY <2>1, <2>2
<1> QED
  BY <1>4

\* Sums of the first entries.
THEOREM SumPrefix ==
  ASSUME NEW n \in Nat, NEW s \in [1..n -> Int], NEW g \in [0..n -> Int],
         g[0] = 0, \A k \in 1..n : g[k] = g[k - 1] + s[k],
         NEW m \in 0..n
  PROVE  g[m] = Sum([k \in 1..m |-> s[k]])
<1> DEFINE t == [k \in 1..m |-> s[k]]
<1>1. t \in [1..m -> Int] /\ m \in Nat
  OBVIOUS
<1>2. PICK h \in [0..m -> Int] : /\ h[0] = 0
                                 /\ \A k \in 1..m : h[k] = h[k - 1] + t[k]
                                 /\ h[m] = Sum(t)
  <2> HIDE DEF t
  <2> QED
    BY <1>1, SumIterates
<1> DEFINE S == {k \in 0..m : g[k] = h[k]}
<1>3. 0 \in S /\ \A k \in 0..m - 1 : k \in S => k + 1 \in S
  <2>1. 0 \in S
    BY <1>2
  <2>2. ASSUME NEW k \in 0..m - 1, g[k] = h[k] PROVE g[k + 1] = h[k + 1]
    <3>1. k + 1 \in 1..n /\ k + 1 \in 1..m /\ (k + 1) - 1 = k
      OBVIOUS
    <3> QED
      BY <1>2, <2>2, <3>1
  <2> QED
    BY <2>1, <2>2
<1>4. 0..m \subseteq S
  <2> HIDE DEF S
  <2> QED
    BY <1>1, <1>3, SetInduction
<1>5. g[m] = h[m]
  <2>1. m \in 0..m
    BY <1>1
  <2> QED
    BY <1>4, <2>1
<1>6. g[m] = Sum(t)
  <2> HIDE DEF t
  <2> QED
    BY <1>2, <1>5
<1> QED
  BY <1>6

\* Zeros at the end add nothing.
THEOREM SumExtend ==
  ASSUME NEW n \in Nat, NEW m \in Nat, n <= m, NEW a \in [1..n -> Int]
  PROVE  Sum([k \in 1..m |-> IF k <= n THEN a[k] ELSE 0]) = Sum(a)
<1> DEFINE b == [k \in 1..m |-> IF k <= n THEN a[k] ELSE 0]
<1>1. b \in [1..m -> Int]
  OBVIOUS
<1>2. PICK g \in [0..m -> Int] : /\ g[0] = 0
                                 /\ \A k \in 1..m : g[k] = g[k - 1] + b[k]
                                 /\ g[m] = Sum(b)
  <2> HIDE DEF b
  <2> QED
    BY <1>1, SumIterates
<1>3. \A k \in 1..m : b[k] \in Int /\ g[k] = g[k - 1] + b[k]
  BY <1>1, <1>2
<1>4. g[n] = Sum([k \in 1..n |-> b[k]])
  <2>1. n \in 0..m /\ g[0] = 0
    BY <1>2
  <2> HIDE DEF b
  <2> QED
    BY <1>1, <1>2, <2>1, SumPrefix
<1>5. [k \in 1..n |-> b[k]] = a
  OBVIOUS
<1> DEFINE S == {k \in 0..m - n : g[n + k] = g[n]}
<1>6. 0 \in S /\ \A k \in 0..(m - n) - 1 : k \in S => k + 1 \in S
  <2>1. 0 \in S
    BY n + 0 = n
  <2>2. ASSUME NEW k \in 0..(m - n) - 1, g[n + k] = g[n] PROVE g[n + (k + 1)] = g[n]
    <3>1. /\ n + (k + 1) \in 1..m /\ (n + (k + 1)) - 1 = n + k /\ ~(n + (k + 1) <= n)
          /\ n \in 0..m
      OBVIOUS
    <3> QED
      BY <1>2, <1>3, <2>2, <3>1
  <2> QED
    BY <2>1, <2>2
<1>7. 0..m - n \subseteq S
  <2> HIDE DEF S
  <2> QED
    BY <1>6, m - n \in Nat, SetInduction
<1>8. g[m] = g[n]
  <2>1. m - n \in 0..m - n /\ n + (m - n) = m
    OBVIOUS
  <2>2. m - n \in S
    <3> HIDE DEF S
    <3> QED
      BY <1>7, <2>1
  <2> QED
    BY <2>1, <2>2
<1> HIDE DEF b
<1> QED
  BY <1>2, <1>4, <1>5, <1>8 DEF b

\* Counting: a sum of ones over some positions.
THEOREM SumOfOnes ==
  ASSUME NEW n \in Nat, NEW T \in SUBSET (1..n)
  PROVE  Sum([k \in 1..n |-> IF k \in T THEN 1 ELSE 0]) = Cardinality(T)
<1> DEFINE s == [k \in 1..n |-> IF k \in T THEN 1 ELSE 0]
<1>1. s \in [1..n -> Int]
  OBVIOUS
<1>2. PICK g \in [0..n -> Int] : /\ g[0] = 0
                                 /\ \A k \in 1..n : g[k] = g[k - 1] + s[k]
                                 /\ g[n] = Sum(s)
  <2> HIDE DEF s
  <2> QED
    BY <1>1, SumIterates
<1> DEFINE S == {k \in 0..n : g[k] = Cardinality(T \cap 1..k)}
<1>3. IsFiniteSet(T)
  <2> DEFINE N == 1..n
  <2>1. IsFiniteSet(N) /\ T \in SUBSET N
    BY FS_Interval
  <2> HIDE DEF N
  <2> QED
    BY <2>1, FS_Subset
<1>4. 0 \in S /\ \A k \in 0..n - 1 : k \in S => k + 1 \in S
  <2>1. 0 \in S
    <3>1. T \cap 1..0 = {}
      OBVIOUS
    <3> QED
      BY <1>2, <3>1, FS_EmptySet
  <2>2. ASSUME NEW k \in 0..n - 1, g[k] = Cardinality(T \cap 1..k)
        PROVE  g[k + 1] = Cardinality(T \cap 1..k + 1)
    <3> DEFINE U == T \cap 1..k
    <3>1. k + 1 \in 1..n /\ (k + 1) - 1 = k /\ 1..k + 1 = 1..k \cup {k + 1}
      OBVIOUS
    <3>2. g[k + 1] = g[k] + s[k + 1]
      BY <1>2, <3>1
    <3>3. CASE k + 1 \in T
      <4>1. T \cap 1..k + 1 = U \cup {k + 1} /\ k + 1 \notin U
        BY <3>1, <3>3
      <4>2. U \in SUBSET T
        OBVIOUS
      <4> DEFINE e == k + 1
      <4>3. e \notin U /\ Cardinality(T \cap 1..k + 1) = Cardinality(U \cup {e})
        BY <4>1
      <4>4. Cardinality(U \cup {e}) = Cardinality(U) + 1
        <5> HIDE DEF U, e
        <5> QED
          BY <1>3, <4>2, <4>3, FS_AddElement, FS_Subset
      <4>5. s[k + 1] = 1 /\ g[k] = Cardinality(U)
        BY <2>2, <3>1, <3>3
      <4>6. Cardinality(T \cap 1..k + 1) = g[k] + 1
        BY <4>3, <4>4, <4>5, Zenon
      <4>7. g[k + 1] = g[k] + 1
        BY <3>2, <4>5, Zenon
      <4> QED
        BY <4>6, <4>7, Zenon
    <3>4. CASE k + 1 \notin T
      <4>1. T \cap 1..k + 1 = U
        BY <3>1, <3>4
      <4>2. s[k + 1] = 0 /\ g[k] \in Int
        BY <3>1, <3>4
      <4>3. g[k + 1] = g[k]
        <5> HIDE DEF s
        <5> QED
          BY <3>2, <4>2
      <4> QED
        BY <2>2, <4>1, <4>3, Zenon
    <3> QED
      BY <3>3, <3>4
  <2> QED
    BY <2>1, <2>2
<1>5. 0..n \subseteq S
  <2> HIDE DEF S
  <2> QED
    BY <1>4, SetInduction
<1>6. g[n] = Cardinality(T)
  <2>1. T \cap 1..n = T
    OBVIOUS
  <2> QED
    BY <1>5, <2>1
<1>7. Sum(s) = Cardinality(T)
  <2> HIDE DEF s
  <2> QED
    BY <1>2, <1>6
<1> QED
  BY <1>7

-------------------------------------------------------------------------------
\* Folds over sequences

\* The largest element of a set of positions.
LEMMA MaxFacts ==
  ASSUME NEW n \in Nat, NEW T \in SUBSET (1..n), T # {}
  PROVE  Max(T) \in T /\ \A y \in T : Max(T) >= y
<1> DEFINE S == {x \in 0..n : n - x \in T}
<1>1. S \in SUBSET Nat /\ S # {}
  <2>1. PICK y \in T : TRUE
    OBVIOUS
  <2>2. n - y \in S
    <3>1. y \in 1..n /\ n - (n - y) = y
      BY <2>1
    <3> QED
      BY <2>1, <3>1
  <2>3. S \in SUBSET Nat
    OBVIOUS
  <2> HIDE DEF S
  <2> QED
    BY <2>2, <2>3
<1>2. PICK m \in S : \A x \in S : m <= x
  <2> HIDE DEF S
  <2> QED
    BY <1>1, NatMin
<1>3. n - m \in T /\ \A y \in T : n - m >= y
  <2> SUFFICES ASSUME NEW y \in T PROVE n - m >= y
    BY <1>2
  <2>1. n - y \in S /\ y \in Nat /\ m \in Nat
    OBVIOUS
  <2>2. m <= n - y
    BY <1>2, <2>1
  <2> QED
    BY <2>1, <2>2
<1> QED
  BY <1>3 DEF Max

\* What the recursive function in the definition of FoldLeft satisfies, where
\* f[k] is what the fold does with the k-th element.
FoldsUp(u, b, n, f) ==
  \A T \in SUBSET (1..n) : u[T] = IF T = {} THEN b ELSE f[Max(T)][u[T \ {Max(T)}]]

\* That function exists: its value on k positions is a k-th iterate.
THEOREM FoldExists ==
  ASSUME NEW R, NEW b \in R, NEW n \in Nat, NEW f \in [1..n -> [R -> R]]
  PROVE  \E u \in [SUBSET (1..n) -> R] : FoldsUp(u, b, n, f)
<1> DEFINE N == 1..n
           F == [SUBSET N -> R]
           step(v) == [T \in SUBSET N |-> IF T = {} THEN b ELSE f[Max(T)][v[T \ {Max(T)}]]]
           base == [T \in SUBSET N |-> b]
           steps == [k \in 1..n |-> [v \in F |-> step(v)]]
<1>1. \A T \in SUBSET N : IsFiniteSet(T) /\ Cardinality(T) \in 0..n
  <2>1. IsFiniteSet(N) /\ Cardinality(N) = n
    BY FS_Interval
  <2>2. ASSUME NEW T \in SUBSET N PROVE IsFiniteSet(T) /\ Cardinality(T) \in 0..n
    <3> HIDE DEF N
    <3> QED
      BY <2>1, FS_Subset, FS_CardinalityType
  <2> QED
    BY <2>2
<1>2. \A T \in SUBSET N : T # {} => Max(T) \in T /\ T \ {Max(T)} \in SUBSET N
  BY MaxFacts
<1>3. \A v \in F : step(v) \in F
  <2> SUFFICES ASSUME NEW v \in F, NEW T \in SUBSET N, T # {}
               PROVE  f[Max(T)][v[T \ {Max(T)}]] \in R
    OBVIOUS
  <2>1. v[T \ {Max(T)}] \in R /\ Max(T) \in 1..n
    BY <1>2
  <2> QED
    BY <2>1
<1>4. base \in F /\ steps \in [1..n -> [F -> F]]
  <2>1. base \in F
    OBVIOUS
  <2> HIDE DEF F, step
  <2> QED
    BY <1>3, <2>1
<1>5. PICK g \in [0..n -> F] : Iterates(g, base, n, steps)
  <2> HIDE DEF base, steps, F
  <2> QED
    BY <1>4, IterationExists
<1>6. ASSUME NEW k \in 1..n PROVE g[k] = step(g[k - 1])
  <2>1. g[k] = steps[k][g[k - 1]] /\ k - 1 \in 0..n
    <3> HIDE DEF F, steps, base
    <3> QED
      BY <1>5 DEF Iterates
  <2> HIDE DEF F, step
  <2>2. g[k - 1] \in F
    BY <1>5, <2>1
  <2> QED
    BY <2>1, <2>2
<1>7. g[0] = base
  BY <1>5 DEF Iterates
<1> DEFINE u == [T \in SUBSET N |-> g[Cardinality(T)][T]]
<1>8. u \in [SUBSET N -> R]
  <2>1. ASSUME NEW T \in SUBSET N PROVE u[T] \in R
    <3>1. g[Cardinality(T)] \in F
      BY <1>1, <1>5
    <3> QED
      BY <3>1
  <2> QED
    BY <2>1
<1>9. ASSUME NEW T \in SUBSET N
      PROVE  u[T] = IF T = {} THEN b ELSE f[Max(T)][u[T \ {Max(T)}]]
  <2>1. CASE T = {}
    <3>1. Cardinality(T) = 0
      BY <2>1, FS_EmptySet
    <3> QED
      BY <2>1, <3>1, <1>7
  <2>2. CASE T # {}
    <3> DEFINE Q == T \ {Max(T)}
               c == Cardinality(T)
    <3>1. Max(T) \in T /\ Q \in SUBSET N /\ c \in 0..n /\ IsFiniteSet(T)
      BY <1>1, <1>2, <2>2
    <3>2. c # 0 /\ Cardinality(Q) = c - 1
      BY <2>2, <3>1, FS_EmptySet, FS_RemoveElement
    <3>3. c \in 1..n
      BY <3>1, <3>2
    <3>4. g[c] = step(g[c - 1])
      <4> HIDE DEF c, step
      <4> QED
        BY <3>3, <1>6
    <3>5. g[c][T] = f[Max(T)][g[c - 1][Q]]
      BY <3>4, <2>2
    <3>6. u[T] = g[c][T] /\ u[Q] = g[c - 1][Q]
      BY <3>1, <3>2
    <3> QED
      BY <2>2, <3>5, <3>6
  <2> QED
    BY <2>1, <2>2
<1>10. FoldsUp(u, b, n, f)
  <2> HIDE DEF u
  <2> QED
    BY <1>9 DEF FoldsUp
<1> HIDE DEF u
<1> QED
  BY <1>8, <1>10

\* Any function that satisfies that equation goes through the positions in order.
LEMMA FoldInOrder ==
  ASSUME NEW n \in Nat, NEW k \in 1..n
  PROVE  1..k \in SUBSET (1..n) /\ 1..k # {} /\ Max(1..k) = k /\ (1..k) \ {k} = 1..k - 1
<1> DEFINE K == 1..k
<1>1. K \in SUBSET (1..n) /\ K # {} /\ k \in K /\ \A y \in K : k >= y /\ y \in Int
  OBVIOUS
<1>2. Max(K) \in K /\ \A y \in K : Max(K) >= y
  <2> HIDE DEF K
  <2> QED
    BY <1>1, MaxFacts
<1>3. Max(K) = k
  BY <1>1, <1>2
<1> QED
  BY <1>1, <1>3

-------------------------------------------------------------------------------
\* Sums over sets

\* The next element that SumOver takes, and what it does at each step.
Taken(T) == CHOOSE x \in T : TRUE

SumsUp(u, f, S) ==
  u = [T \in SUBSET S |-> IF T = {} THEN 0 ELSE f[Taken(T)] + u[T \ {Taken(T)}]]

\* The recursive function in the definition of SumOver exists: up to k elements
\* it is the k-th iterate of its defining step.
LEMMA SumsUpExists ==
  ASSUME NEW S, IsFiniteSet(S), NEW f, \A x \in S : f[x] \in Int
  PROVE  \E u : SumsUp(u, f, S) /\ u \in [SUBSET S -> Int]
<1> DEFINE n == Cardinality(S)
           F == [SUBSET S -> Int]
           step(v) == [T \in SUBSET S |-> IF T = {} THEN 0
                                          ELSE f[Taken(T)] + v[T \ {Taken(T)}]]
           zero == [T \in SUBSET S |-> 0]
           steps == [k \in 1..n |-> [v \in F |-> step(v)]]
<1>1. n \in Nat /\ \A T \in SUBSET S : IsFiniteSet(T) /\ Cardinality(T) \in 0..n
  <2>1. n \in Nat
    BY FS_CardinalityType
  <2>2. ASSUME NEW T \in SUBSET S PROVE IsFiniteSet(T) /\ Cardinality(T) \in 0..n
    BY <2>1, FS_Subset, FS_CardinalityType
  <2> QED
    BY <2>1, <2>2
<1>2. \A T \in SUBSET S : T # {} => Taken(T) \in T /\ T \ {Taken(T)} \in SUBSET S
  BY DEF Taken
<1>3. \A v \in F : step(v) \in F
  BY <1>2
<1>4. zero \in F /\ steps \in [1..n -> [F -> F]]
  <2>1. zero \in F
    OBVIOUS
  <2> HIDE DEF F, step
  <2> QED
    BY <1>3, <2>1
<1>5. PICK g \in [0..n -> F] : Iterates(g, zero, n, steps)
  <2> HIDE DEF zero, steps, n, F
  <2> QED
    BY <1>1, <1>4, IterationExists
<1>6. ASSUME NEW k \in 1..n PROVE g[k] = step(g[k - 1])
  <2>1. g[k] = steps[k][g[k - 1]] /\ k - 1 \in 0..n
    <3> HIDE DEF n, F, steps, zero
    <3> QED
      BY <1>1, <1>5 DEF Iterates
  <2> HIDE DEF n, F, step
  <2>2. g[k - 1] \in F
    BY <1>5, <2>1
  <2> QED
    BY <2>1, <2>2
<1>7. g[0] = zero
  BY <1>5 DEF Iterates
<1> DEFINE u == [T \in SUBSET S |-> g[Cardinality(T)][T]]
<1>8. u \in [SUBSET S -> Int]
  <2>1. ASSUME NEW T \in SUBSET S PROVE u[T] \in Int
    <3>1. g[Cardinality(T)] \in F
      BY <1>1, <1>5
    <3> QED
      BY <3>1
  <2> QED
    BY <2>1
<1>9. ASSUME NEW T \in SUBSET S
      PROVE  u[T] = IF T = {} THEN 0 ELSE f[Taken(T)] + u[T \ {Taken(T)}]
  <2>1. CASE T = {}
    <3>1. Cardinality(T) = 0
      BY <2>1, FS_EmptySet
    <3> QED
      BY <2>1, <3>1, <1>7
  <2>2. CASE T # {}
    <3> DEFINE R == T \ {Taken(T)}
               c == Cardinality(T)
    <3>1. Taken(T) \in T /\ R \in SUBSET S /\ c \in 0..n /\ IsFiniteSet(T)
      BY <1>1, <1>2, <2>2
    <3>2. c # 0 /\ Cardinality(R) = c - 1
      BY <2>2, <3>1, FS_EmptySet, FS_RemoveElement
    <3>3. c \in 1..n
      BY <3>1, <3>2, <1>1
    <3>4. g[c] = step(g[c - 1])
      <4> HIDE DEF c, n, step
      <4> QED
        BY <3>3, <1>6
    <3>5. g[c][T] = f[Taken(T)] + g[c - 1][R]
      BY <3>4, <2>2
    <3>6. u[T] = g[c][T] /\ u[R] = g[c - 1][R]
      BY <3>1, <3>2
    <3> QED
      BY <2>2, <3>5, <3>6
  <2> QED
    BY <2>1, <2>2
<1>10. SumsUp(u, f, S)
  <2> HIDE DEF u
  <2> DEFINE w == [T \in SUBSET S |-> IF T = {} THEN 0 ELSE f[Taken(T)] + u[T \ {Taken(T)}]]
  <2>1. \A T \in SUBSET S : u[T] = w[T]
    BY <1>9
  <2>2. u = w
    BY <1>8, <2>1
  <2> QED
    BY <2>2 DEF SumsUp
<1> QED
  BY <1>8, <1>10

\* SumOver follows that function from the whole set down.
LEMMA SumOverUnfolds ==
  ASSUME NEW S, IsFiniteSet(S), NEW f, \A x \in S : f[x] \in Int
  PROVE  \E u : SumsUp(u, f, S) /\ SumOver(f, S) = u[S]
<1>1. \E u : SumsUp(u, f, S)
  BY SumsUpExists
<1>2. SumsUp(CHOOSE u : SumsUp(u, f, S), f, S)
  BY <1>1
<1>3. SumOver(f, S) = (CHOOSE u : SumsUp(u, f, S))[S]
  BY DEF SumOver, MapThenSumSet, MapThenFoldSet, SumsUp, Taken
<1> QED
  BY <1>2, <1>3

\* A sum over a set is the sum of a sequence that enumerates the set.
LEMMA SumOverEnumerates ==
  ASSUME NEW S, IsFiniteSet(S)
  PROVE  \E e \in [1..Cardinality(S) -> S] :
           /\ \A i, j \in 1..Cardinality(S) : e[i] = e[j] => i = j
           /\ \A x \in S : \E i \in 1..Cardinality(S) : e[i] = x
           /\ \A f : (\A x \in S : f[x] \in Int)
                     => SumOver(f, S) = Sum([i \in 1..Cardinality(S) |-> f[e[i]]])
<1> DEFINE Int1(f) == \A x \in S : f[x] \in Int
           Enum(e, k, T) ==
             /\ \A i, j \in 1..k : e[i] = e[j] => i = j
             /\ \A x \in T : \E i \in 1..k : e[i] = x
             /\ \A f, u : Int1(f) /\ SumsUp(u, f, S) => u[T] = Sum([i \in 1..k |-> f[e[i]]])
           Good(k) == \A T \in SUBSET S : Cardinality(T) = k => \E e \in [1..k -> T] : Enum(e, k, T)
           n == Cardinality(S)
           A == {k \in 0..n : Good(k)}
<1>1. n \in Nat
  BY FS_CardinalityType
<1>2. Good(0)
  <2> SUFFICES ASSUME NEW T \in SUBSET S, Cardinality(T) = 0
               PROVE  \E e \in [1..0 -> T] : Enum(e, 0, T)
    OBVIOUS
  <2>1. T = {} /\ 1..0 = {}
    BY FS_Subset, FS_EmptySet
  <2> DEFINE e == [i \in 1..0 |-> i]
  <2>2. e \in [1..0 -> T]
    BY <2>1
  <2>3. ASSUME NEW f, NEW u, SumsUp(u, f, S) PROVE u[T] = Sum([i \in 1..0 |-> f[e[i]]])
    <3> DEFINE s == [i \in 1..0 |-> f[e[i]]]
    <3>1. s \in [1..0 -> Int] /\ \A k \in 1..0 : s[k] = 0
      BY <2>1
    <3>2. Sum(s) = 0
      <4> DEFINE z == 0
      <4>1. z \in Nat /\ s \in [1..z -> Int] /\ \A k \in 1..z : s[k] = 0
        BY <3>1
      <4> HIDE DEF s, z
      <4> QED
        BY <4>1, SumZero
    <3> QED
      BY <2>1, <2>3, <3>2 DEF SumsUp
  <2> HIDE DEF e
  <2>4. Enum(e, 0, T)
    BY <2>1, <2>3
  <2> QED
    BY <2>2, <2>4
<1>3. ASSUME NEW k \in 0..n - 1, Good(k) PROVE Good(k + 1)
  <2> SUFFICES ASSUME NEW T \in SUBSET S, Cardinality(T) = k + 1
               PROVE  \E e \in [1..k + 1 -> T] : Enum(e, k + 1, T)
    OBVIOUS
  <2> DEFINE R == T \ {Taken(T)}
  <2>1. /\ IsFiniteSet(T) /\ T # {} /\ Taken(T) \in T /\ k \in Nat
        /\ Cardinality(R) = k /\ R \in SUBSET S
    <3>1. IsFiniteSet(T) /\ k \in Nat
      BY <1>1, FS_Subset
    <3>2. T # {}
      BY <3>1, FS_EmptySet
    <3>3. Taken(T) \in T
      BY <3>2 DEF Taken
    <3>4. Cardinality(R) = k
      BY <3>1, <3>3, FS_RemoveElement
    <3> QED
      BY <3>1, <3>2, <3>3, <3>4
  <2>2. PICK d \in [1..k -> R] : Enum(d, k, R)
    BY <1>3, <2>1
  <2> DEFINE e == [i \in 1..k + 1 |-> IF i = k + 1 THEN Taken(T) ELSE d[i]]
  <2>3. e \in [1..k + 1 -> T]
    BY <2>1
  <2>4. \A i, j \in 1..k + 1 : e[i] = e[j] => i = j
    BY <2>1, <2>2
  <2>5. \A x \in T : \E i \in 1..k + 1 : e[i] = x
    <3> SUFFICES ASSUME NEW x \in T PROVE \E i \in 1..k + 1 : e[i] = x
      OBVIOUS
    <3>1. CASE x = Taken(T)
      BY <3>1, <2>1
    <3>2. CASE x \in R
      <4>1. PICK i \in 1..k : d[i] = x
        BY <2>2, <3>2
      <4> QED
        BY <4>1, <2>1
    <3> QED
      BY <3>1, <3>2
  <2>6. ASSUME NEW f, NEW u, Int1(f), SumsUp(u, f, S)
        PROVE  u[T] = Sum([i \in 1..k + 1 |-> f[e[i]]])
    <3> DEFINE a == [i \in 1..k |-> f[d[i]]]
               b == [i \in 1..k + 1 |-> f[e[i]]]
    <3>1. u[T] = f[Taken(T)] + u[R]
      BY <2>1, <2>6 DEF SumsUp
    <3>2. u[R] = Sum(a)
      BY <2>2, <2>6
    <3>3. a \in [1..k -> Int] /\ b \in [1..k + 1 -> Int]
      BY <2>1, <2>3, <2>6
    <3>4. (\A i \in 1..k : b[i] = a[i]) /\ b[k + 1] = f[Taken(T)]
      BY <2>1
    <3>5. Sum(a) \in Int /\ Sum(b) = Sum(a) + b[k + 1] /\ f[Taken(T)] \in Int
      <4>1. f[Taken(T)] \in Int
        BY <2>1, <2>6
      <4> HIDE DEF a, b
      <4> QED
        BY <2>1, <3>3, <3>4, <4>1, SumType, SumAppend
    <3> QED
      BY <3>1, <3>2, <3>4, <3>5
  <2>7. Enum(e, k + 1, T)
    <3> HIDE DEF e
    <3> QED
      BY <2>4, <2>5, <2>6
  <2> QED
    BY <2>3, <2>7
<1>4. 0..n \subseteq A
  <2>1. 0 \in A /\ \A k \in 0..n - 1 : k \in A => k + 1 \in A
    <3> HIDE DEF Good
    <3> QED
      BY <1>1, <1>2, <1>3
  <2> HIDE DEF A, n
  <2> QED
    BY <1>1, <2>1, SetInduction
<1>5. Good(n)
  <2>1. n \in 0..n
    BY <1>1
  <2>2. n \in A
    <3> HIDE DEF A, n
    <3> QED
      BY <2>1, <1>4
  <2> HIDE DEF Good
  <2> QED
    BY <2>2
<1>6. PICK e \in [1..n -> S] : Enum(e, n, S)
  BY <1>5
<1>7. ASSUME NEW f, Int1(f) PROVE SumOver(f, S) = Sum([i \in 1..n |-> f[e[i]]])
  BY <1>6, <1>7, SumOverUnfolds
<1> QED
  BY <1>6, <1>7

\* A sum of natural numbers is one.
LEMMA SumNat ==
  ASSUME NEW n \in Nat, NEW s \in [1..n -> Int], \A k \in 1..n : s[k] >= 0
  PROVE  Sum(s) \in Nat
<1>1. PICK g \in [0..n -> Int] : /\ g[0] = 0 /\ g[n] = Sum(s)
                                 /\ \A k \in 1..n : g[k] = g[k - 1] + s[k]
  BY SumIterates
<1> DEFINE S == {k \in 0..n : g[k] >= 0}
<1>2. 0 \in S /\ \A k \in 0..n - 1 : k \in S => k + 1 \in S
  <2>1. ASSUME NEW k \in 0..n - 1, g[k] >= 0 PROVE g[k + 1] >= 0
    <3>1. g[k + 1] = g[k] + s[k + 1] /\ s[k + 1] >= 0 /\ s[k + 1] \in Int /\ g[k] \in Int
      BY <1>1
    <3> QED
      BY <2>1, <3>1
  <2> QED
    BY <1>1, <2>1
<1>3. 0..n \subseteq S
  <2> HIDE DEF S
  <2> QED
    BY <1>2, SetInduction
<1> QED
  BY <1>1, <1>3

\* A sum over a finite set of integers is an integer, and not negative if none
\* of them is.
THEOREM SumOverType ==
  ASSUME NEW S, IsFiniteSet(S), NEW f, \A x \in S : f[x] \in Int
  PROVE  /\ SumOver(f, S) \in Int
         /\ (\A x \in S : f[x] >= 0) => SumOver(f, S) \in Nat
<1> DEFINE n == Cardinality(S)
<1>1. PICK e \in [1..n -> S] :
        \A g : (\A x \in S : g[x] \in Int) => SumOver(g, S) = Sum([i \in 1..n |-> g[e[i]]])
  BY SumOverEnumerates
<1> DEFINE s == [i \in 1..n |-> f[e[i]]]
<1>2. n \in Nat /\ s \in [1..n -> Int]
  BY FS_CardinalityType
<1>3. (\A x \in S : f[x] >= 0) => \A k \in 1..n : s[k] >= 0
  OBVIOUS
<1> HIDE DEF n, s
<1>4. Sum(s) \in Int /\ ((\A x \in S : f[x] >= 0) => Sum(s) \in Nat)
  BY <1>2, <1>3, SumType, SumNat
<1>5. SumOver(f, S) = Sum(s)
  BY <1>1 DEF s
<1> QED
  BY <1>4, <1>5

\* What was added to each entry is what the sum grew by.
THEOREM SumOverDifference ==
  ASSUME NEW S, IsFiniteSet(S), NEW a, NEW b, NEW d,
         \A x \in S : a[x] \in Int /\ b[x] \in Int /\ d[x] \in Int /\ d[x] = b[x] - a[x]
  PROVE  SumOver(b, S) = SumOver(a, S) + SumOver(d, S)
<1> DEFINE n == Cardinality(S)
<1>1. PICK e \in [1..n -> S] :
        \A f : (\A x \in S : f[x] \in Int) => SumOver(f, S) = Sum([i \in 1..n |-> f[e[i]]])
  BY SumOverEnumerates
<1> DEFINE sa == [i \in 1..n |-> a[e[i]]]
           sb == [i \in 1..n |-> b[e[i]]]
           sd == [i \in 1..n |-> d[e[i]]]
<1>2. /\ n \in Nat /\ sa \in [1..n -> Int] /\ sb \in [1..n -> Int] /\ sd \in [1..n -> Int]
      /\ \A k \in 1..n : sd[k] = sb[k] - sa[k]
  BY FS_CardinalityType
<1>3. SumOver(a, S) = Sum(sa) /\ SumOver(b, S) = Sum(sb) /\ SumOver(d, S) = Sum(sd)
  BY <1>1
<1> HIDE DEF n, sa, sb, sd
<1>4. Sum(sb) = Sum(sa) + Sum(sd)
  BY <1>2, SumDifference
<1> QED
  BY <1>3, <1>4

\* A sum of which at most one entry is not zero.
THEOREM SumOverSingle ==
  ASSUME NEW S, IsFiniteSet(S), NEW d, NEW y \in S, d[y] \in Int,
         \A x \in S : x # y => d[x] = 0
  PROVE  SumOver(d, S) = d[y]
<1> DEFINE n == Cardinality(S)
<1>1. \A x \in S : d[x] \in Int
  OBVIOUS
<1>2. PICK e \in [1..n -> S] :
        /\ \A i, j \in 1..n : e[i] = e[j] => i = j
        /\ \A x \in S : \E i \in 1..n : e[i] = x
        /\ SumOver(d, S) = Sum([i \in 1..n |-> d[e[i]]])
  BY <1>1, SumOverEnumerates
<1>3. PICK i \in 1..n : e[i] = y
  BY <1>2
<1> DEFINE s == [k \in 1..n |-> d[e[k]]]
<1>4. n \in Nat /\ s \in [1..n -> Int]
  BY <1>1, FS_CardinalityType
<1>5. s[i] = d[y] /\ \A k \in 1..n : k # i => s[k] = 0
  BY <1>2, <1>3
<1> HIDE DEF n, s
<1>6. Sum(s) = s[i]
  BY <1>3, <1>4, <1>5, SumSingle
<1> QED
  BY <1>2, <1>5, <1>6 DEF s

\* No entry larger: no larger sum.  Equal entries: equal sums.
THEOREM SumOverMonotone ==
  ASSUME NEW S, IsFiniteSet(S), NEW a, NEW b,
         \A x \in S : a[x] \in Int /\ b[x] \in Int /\ a[x] <= b[x]
  PROVE  SumOver(a, S) <= SumOver(b, S)
<1> DEFINE d == [x \in S |-> b[x] - a[x]]
<1>1. \A x \in S : d[x] \in Int /\ d[x] >= 0 /\ d[x] = b[x] - a[x]
  OBVIOUS
<1> HIDE DEF d
<1>2. SumOver(b, S) = SumOver(a, S) + SumOver(d, S)
  BY <1>1, SumOverDifference
<1>3. SumOver(d, S) \in Nat /\ SumOver(a, S) \in Int
  BY <1>1, SumOverType
<1> QED
  BY <1>2, <1>3

THEOREM SumOverSame ==
  ASSUME NEW S, IsFiniteSet(S), NEW a, NEW b, \A x \in S : a[x] \in Int /\ a[x] = b[x]
  PROVE  SumOver(a, S) = SumOver(b, S)
<1>1. SumOver(a, S) <= SumOver(b, S) /\ SumOver(b, S) <= SumOver(a, S)
  BY SumOverMonotone
<1>2. SumOver(a, S) \in Int /\ SumOver(b, S) \in Int
  BY SumOverType
<1> QED
  BY <1>1, <1>2

\* One entry is changed.
THEOREM SumOverUpdate ==
  ASSUME NEW S, IsFiniteSet(S), NEW a, NEW b, NEW y \in S,
         \A x \in S : a[x] \in Int /\ b[x] \in Int,
         \A x \in S : x # y => a[x] = b[x]
  PROVE  SumOver(b, S) = SumOver(a, S) + b[y] - a[y]
<1> DEFINE d == [x \in S |-> b[x] - a[x]]
<1>1. /\ \A x \in S : d[x] \in Int /\ d[x] = b[x] - a[x]
      /\ \A x \in S : x # y => d[x] = 0
  OBVIOUS
<1> HIDE DEF d
<1>2. SumOver(b, S) = SumOver(a, S) + SumOver(d, S)
  BY <1>1, SumOverDifference
<1>3. SumOver(d, S) = d[y]
  BY <1>1, SumOverSingle
<1>4. SumOver(a, S) \in Int
  BY SumOverType
<1> QED
  BY <1>1, <1>2, <1>3, <1>4

\* A common factor.
THEOREM SumOverScaled ==
  ASSUME NEW S, IsFiniteSet(S), NEW a, NEW b, NEW c \in Int,
         \A x \in S : a[x] \in Int /\ b[x] \in Int /\ b[x] = c * a[x]
  PROVE  SumOver(b, S) = c * SumOver(a, S)
<1> DEFINE n == Cardinality(S)
<1>1. PICK e \in [1..n -> S] :
        \A f : (\A x \in S : f[x] \in Int) => SumOver(f, S) = Sum([i \in 1..n |-> f[e[i]]])
  BY SumOverEnumerates
<1> DEFINE sa == [i \in 1..n |-> a[e[i]]]
           sb == [i \in 1..n |-> b[e[i]]]
<1>2. /\ n \in Nat /\ sa \in [1..n -> Int] /\ sb \in [1..n -> Int]
      /\ \A k \in 1..n : sb[k] = c * sa[k]
  BY <1>1, FS_CardinalityType
<1>3. SumOver(a, S) = Sum(sa) /\ SumOver(b, S) = Sum(sb)
  BY <1>1
<1> HIDE DEF n, sa, sb
<1>4. Sum(sb) = c * Sum(sa)
  BY <1>2, SumScaled
<1> QED
  BY <1>3, <1>4

\* Entries that are zero need not be summed.
THEOREM SumOverSubset ==
  ASSUME NEW S, IsFiniteSet(S), NEW T \in SUBSET S, NEW f, \A x \in S : f[x] \in Int,
         \A x \in S : x \notin T => f[x] = 0
  PROVE  SumOver(f, S) = SumOver(f, T)
<1> DEFINE n == Cardinality(T)
<1>1. IsFiniteSet(T) /\ n \in Nat
  BY FS_Subset, FS_CardinalityType
<1>2. PICK e \in [1..n -> T] : /\ \A i, j \in 1..n : e[i] = e[j] => i = j
                               /\ \A x \in T : \E i \in 1..n : e[i] = x
  BY <1>1, SumOverEnumerates
<1> HIDE DEF n
<1> DEFINE part(k) == [x \in S |-> IF \E i \in 1..k : e[i] = x THEN f[x] ELSE 0]
           Agrees(k) == SumOver(part(k), S) = SumOver(part(k), T)
           K == {k \in 0..n : Agrees(k)}
<1>3. \A k \in 0..n : \A x \in S : part(k)[x] \in Int
  OBVIOUS
<1>4. 0 \in K
  <2> DEFINE p == part(0)
  <2>1. \A x \in S : p[x] = 0
    OBVIOUS
  <2>2. \A x \in S : p[x] \in Int /\ 0 \in Int /\ p[x] = 0 * p[x]
    BY <2>1
  <2> HIDE DEF p
  <2>3. SumOver(p, S) = 0 * SumOver(p, S) /\ SumOver(p, S) \in Int
    BY <2>2, SumOverScaled, SumOverType
  <2>4. SumOver(p, T) = 0 * SumOver(p, T) /\ SumOver(p, T) \in Int
    BY <1>1, <2>2, SumOverScaled, SumOverType
  <2>5. SumOver(p, S) = SumOver(p, T)
    BY <2>3, <2>4
  <2> QED
    BY <1>1, <2>5 DEF p
<1>5. ASSUME NEW k \in 0..n - 1, k \in K PROVE k + 1 \in K
  <2> DEFINE p == part(k)
             q == part(k + 1)
             y == e[k + 1]
             d == [x \in S |-> IF x = y THEN f[x] ELSE 0]
  <2>1. k + 1 \in 1..n /\ k + 1 \in 0..n /\ k \in 0..n /\ y \in T /\ y \in S
    BY <1>1, <1>2
  <2>2. \A i \in 1..k + 1 : i \in 1..k \/ i = k + 1
    BY <2>1
  <2>3. \A x \in S : p[x] \in Int /\ q[x] \in Int /\ d[x] \in Int
    BY <2>1, <1>3
  <2>4. ASSUME NEW x \in S PROVE d[x] = q[x] - p[x]
    <3>1. CASE x = y
      <4>1. ASSUME NEW i \in 1..k, e[i] = x PROVE FALSE
        <5>1. i \in 1..n /\ k + 1 \in 1..n /\ i # k + 1
          BY <1>1, <2>1
        <5>2. e[i] = e[k + 1]
          BY <3>1, <4>1
        <5> QED
          BY <1>2, <5>1, <5>2
      <4>2. p[x] = 0 /\ q[x] = f[x] /\ d[x] = f[x] /\ f[x] \in Int
        BY <2>1, <3>1, <4>1
      <4> HIDE DEF p, q, d
      <4> QED
        BY <4>2
    <3>2. CASE x # y
      <4>1. (\E i \in 1..k + 1 : e[i] = x) <=> (\E i \in 1..k : e[i] = x)
        BY <2>1, <2>2, <3>2
      <4>2. p[x] = q[x] /\ d[x] = 0 /\ p[x] \in Int
        BY <2>3, <3>2, <4>1
      <4> HIDE DEF p, q, d
      <4> QED
        BY <4>2
    <3> QED
      BY <3>1, <3>2
  <2>5. d[y] \in Int /\ \A x \in S : x # y => d[x] = 0
    BY <2>1, <2>3
  <2> HIDE DEF p, q, d, y, part
  <2>6. SumOver(d, S) = d[y] /\ SumOver(d, T) = d[y]
    <3>1. \A x \in T : x # y => d[x] = 0
      BY <2>5
    <3> QED
      BY <1>1, <2>1, <2>5, <3>1, SumOverSingle
  <2>7. SumOver(q, S) = SumOver(p, S) + SumOver(d, S)
    BY <2>3, <2>4, SumOverDifference
  <2>8. SumOver(q, T) = SumOver(p, T) + SumOver(d, T)
    <3>1. \A x \in T : p[x] \in Int /\ q[x] \in Int /\ d[x] \in Int /\ d[x] = q[x] - p[x]
      BY <2>3, <2>4
    <3> QED
      BY <1>1, <3>1, SumOverDifference
  <2>9. SumOver(p, S) = SumOver(p, T)
    BY <1>5 DEF p
  <2>10. SumOver(q, S) = SumOver(q, T)
    BY <2>6, <2>7, <2>8, <2>9
  <2> QED
    BY <2>1, <2>10 DEF q
<1>6. n \in K
  <2> HIDE DEF K
  <2>1. 0..n \subseteq K
    BY <1>1, <1>4, <1>5, SetInduction
  <2> QED
    BY <1>1, <2>1
<1> DEFINE p == part(n)
<1>7. \A x \in S : p[x] = f[x]
  BY <1>2
<1>8. SumOver(p, S) = SumOver(p, T)
  BY <1>6
<1> HIDE DEF p
<1>9. SumOver(p, S) = SumOver(f, S)
  BY <1>7, SumOverSame
<1>10. SumOver(p, T) = SumOver(f, T)
  <2>1. \A x \in T : p[x] \in Int /\ p[x] = f[x]
    BY <1>7
  <2> QED
    BY <1>1, <2>1, SumOverSame
<1> QED
  BY <1>8, <1>9, <1>10

\* Shares of an amount, each rounded down, add up to no more than it.
THEOREM SumOverParts ==
  ASSUME NEW S, IsFiniteSet(S), NEW w, NEW v, NEW amount \in Nat, NEW total \in Nat \ {0},
         \A x \in S : w[x] \in Nat /\ v[x] = (amount * w[x]) \div total,
         SumOver(w, S) <= total
  PROVE  /\ \A x \in S : v[x] \in Nat
         /\ SumOver(v, S) \in Nat /\ SumOver(v, S) <= amount
<1> DEFINE tv == [x \in S |-> total * v[x]]
           aw == [x \in S |-> amount * w[x]]
<1>1. ASSUME NEW x \in S PROVE v[x] \in Nat /\ aw[x] \in Nat /\ tv[x] \in Nat /\ tv[x] <= aw[x]
  <2> DEFINE a == amount * w[x]
  <2>1. a \in Nat
    <3>1. w[x] \in Nat
      OBVIOUS
    <3> QED
      BY <3>1, ProductTyped
  <2>2. v[x] = a \div total
    OBVIOUS
  <2> HIDE DEF a
  <2>3. a \div total \in Nat /\ total * (a \div total) <= a
    BY <2>1, Quotient
  <2>4. v[x] \in Nat /\ total * v[x] <= a
    BY <2>2, <2>3
  <2>5. total * v[x] \in Nat
    BY <2>4, ProductTyped
  <2>6. tv[x] = total * v[x] /\ aw[x] = a
    BY DEF a
  <2> HIDE DEF tv, aw
  <2> QED
    BY <2>1, <2>4, <2>5, <2>6
<1>2. \A x \in S : tv[x] = total * v[x] /\ aw[x] = amount * w[x]
  OBVIOUS
<1> HIDE DEF tv, aw
<1>3. SumOver(tv, S) = total * SumOver(v, S)
  <2>1. \A x \in S : v[x] \in Int /\ tv[x] \in Int /\ tv[x] = total * v[x]
    BY <1>1, <1>2
  <2>2. total \in Int
    OBVIOUS
  <2> QED
    BY <2>1, <2>2, SumOverScaled, Zenon
<1>4. SumOver(aw, S) = amount * SumOver(w, S)
  <2>1. \A x \in S : w[x] \in Int /\ aw[x] \in Int /\ aw[x] = amount * w[x]
    BY <1>1, <1>2
  <2> QED
    BY <2>1, SumOverScaled
<1>5. SumOver(tv, S) <= SumOver(aw, S)
  <2>1. \A x \in S : tv[x] \in Int /\ aw[x] \in Int /\ tv[x] <= aw[x]
    BY <1>1
  <2> QED
    BY <2>1, SumOverMonotone
<1>6. SumOver(v, S) \in Nat
  <2>1. \A x \in S : v[x] \in Int /\ v[x] >= 0
    BY <1>1
  <2> QED
    BY <2>1, SumOverType
<1>7. SumOver(w, S) \in Nat
  <2>1. \A x \in S : w[x] \in Int /\ w[x] >= 0
    OBVIOUS
  <2> QED
    BY <2>1, SumOverType
<1> DEFINE V == SumOver(v, S)
           W == SumOver(w, S)
<1>8. V \in Nat /\ W \in Nat /\ W <= total /\ total * V <= amount * W
  BY <1>3, <1>4, <1>5, <1>6, <1>7
<1> HIDE DEF V, W
<1>9. amount * W <= amount * total
  BY <1>8, ProductMonotone, amount * W = W * amount, amount * total = total * amount
<1>10. V <= amount
  <2>1. total * V <= amount * total
    BY <1>8, <1>9, total * V \in Nat, amount * W \in Nat, amount * total \in Nat
  <2> SUFFICES ASSUME V > amount PROVE FALSE
    BY <1>8
  <2>2. PICK d \in Nat : V = amount + 1 + d
    BY <1>8, V - (amount + 1) \in Nat
  <2>3. total * V = amount * total + total + total * d
    BY <2>2
  <2>4. total * d \in Nat /\ amount * total \in Nat
    BY ProductTyped
  <2> QED
    BY <2>1, <2>3, <2>4
<1> QED
  BY <1>1, <1>8, <1>10 DEF V

-------------------------------------------------------------------------------
\* Reporting frames

\* Epochs do not decrease with slots.
LEMMA EpochMonotone ==
  ASSUME NEW s \in Nat, NEW t \in Nat, s <= t
  PROVE  EpochAt(s) \in Nat /\ EpochAt(t) \in Nat /\ EpochAt(s) <= EpochAt(t)
BY SlotsAssumption, QuotientMonotone, Quotient DEF EpochAt

\* The current frame contains the current epoch.
LEMMA FrameFacts ==
  ASSUME NEW s \in Nat, NEW c \in FrameConfig, FrameStarted(s, c)
  PROVE  LET start == StartEpochOfFrame(FrameIndex(s, c), c)
         IN /\ FrameIndex(s, c) \in Nat
            /\ start \in Nat \ {0}
            /\ c.initialEpoch <= start
            /\ start <= EpochAt(s)
            /\ EpochAt(s) < start + c.epochsPerFrame
<1> DEFINE e == EpochAt(s)
           a == e - c.initialEpoch
           d == c.epochsPerFrame
           k == c.initialEpoch
<1>1. e \in Nat /\ d \in Nat \ {0} /\ k \in Nat \ {0} /\ a \in Nat
  BY EpochMonotone DEF FrameConfig, FrameStarted
<1>2. /\ a \div d \in Nat
      /\ d * (a \div d) <= a
      /\ a < d * (a \div d) + d
  BY <1>1, Quotient
<1>3. d * (a \div d) = (a \div d) * d /\ (a \div d) * d \in Nat
  BY <1>1, <1>2
<1>4. FrameIndex(s, c) = a \div d
  BY DEF FrameIndex
<1>5. StartEpochOfFrame(FrameIndex(s, c), c) = k + (a \div d) * d
  BY <1>4 DEF StartEpochOfFrame
<1> HIDE DEF d, k
<1>6. a = e - k
  BY DEF k
<1> HIDE DEF a, e
<1>7. /\ k + (a \div d) * d \in Nat \ {0}
      /\ k <= k + (a \div d) * d
      /\ k + (a \div d) * d <= e
      /\ e < k + (a \div d) * d + d
  BY <1>1, <1>2, <1>3, <1>6
<1> QED
  BY <1>2, <1>4, <1>5, <1>7 DEF k, d, e

\* The reference slot of the current frame, from its start epoch.
LEMMA RefSlotFromStart ==
  ASSUME NEW s \in Nat, NEW c \in FrameConfig, FrameStarted(s, c)
  PROVE  /\ RefSlotAt(s, c) = StartEpochOfFrame(FrameIndex(s, c), c) * SLOTS_PER_EPOCH - 1
         /\ RefSlotAt(s, c) \in Nat
<1>1. StartEpochOfFrame(FrameIndex(s, c), c) \in Nat \ {0}
  BY FrameFacts
<1>2. RefSlotAt(s, c) = StartEpochOfFrame(FrameIndex(s, c), c) * SLOTS_PER_EPOCH - 1
  BY DEF RefSlotAt, FrameAt, FrameAtIndex
<1> DEFINE st == StartEpochOfFrame(FrameIndex(s, c), c)
<1> HIDE DEF st
<1>3. st * SLOTS_PER_EPOCH >= 1 /\ st * SLOTS_PER_EPOCH \in Nat
  BY <1>1, SlotsAssumption DEF st
<1> QED
  BY <1>2, <1>3 DEF st

\* Start epochs that differ by n epochs give reference slots that differ by
\* n * SLOTS_PER_EPOCH slots.
LEMMA EpochsToSlots ==
  ASSUME NEW a \in Nat, NEW b \in Nat, NEW n \in Nat, a + n <= b
  PROVE  a * SLOTS_PER_EPOCH + n * SLOTS_PER_EPOCH <= b * SLOTS_PER_EPOCH
<1>1. PICK k \in Nat : b = a + n + k
  BY b - (a + n) \in Nat
<1>2. b * SLOTS_PER_EPOCH = a * SLOTS_PER_EPOCH + n * SLOTS_PER_EPOCH + k * SLOTS_PER_EPOCH
  BY <1>1, SlotsAssumption
<1>3. k * SLOTS_PER_EPOCH \in Nat /\ a * SLOTS_PER_EPOCH \in Nat /\ n * SLOTS_PER_EPOCH \in Nat
  BY SlotsAssumption
<1> QED
  BY <1>2, <1>3

\* As time passes under one configuration, the reference slot stays or grows
\* by at least one frame.
THEOREM RefSlotGrowsWithTime ==
  ASSUME NEW s \in Nat, NEW t \in Nat, s <= t, NEW c \in FrameConfig, FrameStarted(s, c)
  PROVE  /\ FrameStarted(t, c)
         /\ \/ RefSlotAt(t, c) = RefSlotAt(s, c)
            \/ RefSlotAt(t, c) >= RefSlotAt(s, c) + c.epochsPerFrame * SLOTS_PER_EPOCH
<1> DEFINE i == FrameIndex(s, c)
           j == FrameIndex(t, c)
           n == c.epochsPerFrame
<1>0. n \in Nat \ {0} /\ c.initialEpoch \in Nat
  BY DEF FrameConfig
<1>1. FrameStarted(t, c)
  BY EpochMonotone, <1>0 DEF FrameStarted
<1>2. i \in Nat /\ j \in Nat
  BY <1>1, FrameFacts
<1>3. i <= j
  <2>1. /\ EpochAt(s) - c.initialEpoch \in Nat
        /\ EpochAt(t) - c.initialEpoch \in Nat
        /\ EpochAt(s) - c.initialEpoch <= EpochAt(t) - c.initialEpoch
    BY EpochMonotone, <1>0, <1>1 DEF FrameStarted
  <2> QED
    BY <2>1, <1>0, QuotientMonotone DEF FrameIndex
<1>4. CASE i = j
  BY <1>1, <1>4, RefSlotFromStart
<1>5. CASE i # j
  <2> DEFINE a == StartEpochOfFrame(i, c)
             b == StartEpochOfFrame(j, c)
  <2>1. PICK k \in Nat : j = i + 1 + k
    BY <1>2, <1>3, <1>5, j - (i + 1) \in Nat
  <2> HIDE DEF i, j, n
  <2>2. j * n = i * n + n + k * n /\ k * n \in Nat /\ i * n \in Nat
    BY <2>1, <1>0, <1>2
  <2>3. a \in Nat /\ b \in Nat /\ a + n <= b
    BY <2>2, <1>0 DEF StartEpochOfFrame, n
  <2>4. a * SLOTS_PER_EPOCH + n * SLOTS_PER_EPOCH <= b * SLOTS_PER_EPOCH
    BY <2>3, <1>0, EpochsToSlots
  <2>5. RefSlotAt(s, c) = a * SLOTS_PER_EPOCH - 1 /\ RefSlotAt(t, c) = b * SLOTS_PER_EPOCH - 1
    BY <1>1, RefSlotFromStart DEF i, j
  <2>6. /\ a * SLOTS_PER_EPOCH \in Nat /\ b * SLOTS_PER_EPOCH \in Nat
        /\ n * SLOTS_PER_EPOCH \in Nat
    BY <2>3, <1>0, SlotsAssumption
  <2> HIDE DEF a, b
  <2>7. RefSlotAt(t, c) >= RefSlotAt(s, c) + n * SLOTS_PER_EPOCH
    BY <2>4, <2>5, <2>6
  <2> QED
    BY <2>7, <1>1 DEF n
<1> QED
  BY <1>4, <1>5

FrameLength(c) == c.epochsPerFrame * SLOTS_PER_EPOCH

\* A slot lies after the reference slot of its frame and not after its deadline,
\* which is one frame later.
LEMMA SlotInFrame ==
  ASSUME NEW s \in Nat, NEW c \in FrameConfig, FrameStarted(s, c)
  PROVE  /\ FrameLength(c) \in Nat /\ RefSlotAt(s, c) \in Nat
         /\ FrameAt(s, c).deadlineSlot = RefSlotAt(s, c) + FrameLength(c)
         /\ RefSlotAt(s, c) < s
         /\ s <= RefSlotAt(s, c) + FrameLength(c)
<1> DEFINE e == EpochAt(s)
           a == StartEpochOfFrame(FrameIndex(s, c), c)
           n == c.epochsPerFrame
<1>1. e \in Nat /\ a \in Nat /\ n \in Nat /\ a <= e /\ e + 1 <= a + n
  BY FrameFacts, EpochMonotone DEF FrameConfig
<1>2. SLOTS_PER_EPOCH * e <= s /\ s < SLOTS_PER_EPOCH * e + SLOTS_PER_EPOCH
  BY SlotsAssumption, Quotient DEF EpochAt
<1>3. RefSlotAt(s, c) = a * SLOTS_PER_EPOCH - 1 /\ RefSlotAt(s, c) \in Nat
  BY RefSlotFromStart
<1>4. FrameAt(s, c).deadlineSlot = a * SLOTS_PER_EPOCH + n * SLOTS_PER_EPOCH - 1
  BY DEF FrameAt, FrameAtIndex
<1> HIDE DEF e, a, n
<1>5. a * SLOTS_PER_EPOCH <= e * SLOTS_PER_EPOCH
  <2>1. a * SLOTS_PER_EPOCH + 0 * SLOTS_PER_EPOCH <= e * SLOTS_PER_EPOCH
    BY <1>1, a + 0 <= e, EpochsToSlots
  <2> QED
    BY <2>1, <1>1, SlotsAssumption
<1>6. e * SLOTS_PER_EPOCH + SLOTS_PER_EPOCH <= a * SLOTS_PER_EPOCH + n * SLOTS_PER_EPOCH
  <2>1. (e + 1) * SLOTS_PER_EPOCH + 0 * SLOTS_PER_EPOCH <= (a + n) * SLOTS_PER_EPOCH
    BY <1>1, e + 1 + 0 <= a + n, e + 1 \in Nat, a + n \in Nat, EpochsToSlots
  <2> QED
    BY <2>1, <1>1, SlotsAssumption
<1>7. /\ e * SLOTS_PER_EPOCH \in Nat /\ e * SLOTS_PER_EPOCH = SLOTS_PER_EPOCH * e
      /\ a * SLOTS_PER_EPOCH \in Nat /\ n * SLOTS_PER_EPOCH \in Nat
  BY <1>1, SlotsAssumption
<1>8. FrameLength(c) = n * SLOTS_PER_EPOCH
  BY DEF FrameLength, n
<1> QED
  BY <1>2, <1>3, <1>4, <1>5, <1>6, <1>7, <1>8, SlotsAssumption

\* From one slot to the next the frame stays, or the slot that ends is the
\* reference slot of a frame that begins after the deadline of the last.
THEOREM NextSlot ==
  ASSUME NEW s \in Nat, NEW c \in FrameConfig, FrameStarted(s + 1, c)
  PROVE  \/ /\ FrameStarted(s, c)
            /\ RefSlotAt(s + 1, c) = RefSlotAt(s, c)
         \/ /\ RefSlotAt(s + 1, c) = s
            /\ FrameStarted(s, c) => /\ RefSlotAt(s, c) < s
                                     /\ s >= RefSlotAt(s, c) + FrameLength(c)
<1>1. s + 1 \in Nat
  OBVIOUS
<1>2. RefSlotAt(s + 1, c) \in Nat /\ RefSlotAt(s + 1, c) < s + 1
  BY <1>1, SlotInFrame
<1>3. CASE FrameStarted(s, c)
  <2>1. /\ FrameLength(c) \in Nat /\ RefSlotAt(s, c) \in Nat
        /\ RefSlotAt(s, c) < s /\ s <= RefSlotAt(s, c) + FrameLength(c)
    BY <1>3, SlotInFrame
  <2>2. \/ RefSlotAt(s + 1, c) = RefSlotAt(s, c)
        \/ RefSlotAt(s + 1, c) >= RefSlotAt(s, c) + FrameLength(c)
    BY <1>1, <1>3, s <= s + 1, RefSlotGrowsWithTime DEF FrameLength
  <2> QED
    BY <1>2, <1>3, <2>1, <2>2
<1>4. CASE ~FrameStarted(s, c)
  <2> DEFINE e == EpochAt(s)
             k == c.initialEpoch
             a == StartEpochOfFrame(FrameIndex(s + 1, c), c)
  <2>1. e \in Nat /\ k \in Nat /\ a \in Nat /\ k <= a /\ e + 1 <= k
    BY <1>1, <1>4, FrameFacts, EpochMonotone DEF FrameStarted, FrameConfig
  <2>2. s < SLOTS_PER_EPOCH * e + SLOTS_PER_EPOCH
    BY SlotsAssumption, Quotient DEF EpochAt
  <2>3. RefSlotAt(s + 1, c) = a * SLOTS_PER_EPOCH - 1
    BY <1>1, RefSlotFromStart
  <2> HIDE DEF e, k, a
  <2>4. (e + 1) * SLOTS_PER_EPOCH + 0 * SLOTS_PER_EPOCH <= a * SLOTS_PER_EPOCH
    BY <2>1, e + 1 + 0 <= a, e + 1 \in Nat, EpochsToSlots
  <2>5. /\ (e + 1) * SLOTS_PER_EPOCH + 0 * SLOTS_PER_EPOCH = SLOTS_PER_EPOCH * e + SLOTS_PER_EPOCH
        /\ SLOTS_PER_EPOCH * e \in Nat /\ a * SLOTS_PER_EPOCH \in Nat
    BY <2>1, SlotsAssumption
  <2> QED
    BY <1>2, <1>4, <2>2, <2>3, <2>4, <2>5, SlotsAssumption
<1> QED
  BY <1>3, <1>4

\* A slot less than two frames after a reference slot, and more than one, has the
\* reference slot one frame later.
LEMMA NextFrame ==
  ASSUME NEW s \in Nat, NEW c \in FrameConfig, FrameStarted(s, c),
         NEW k \in 1..FrameLength(c)
  PROVE  RefSlotAt(RefSlotAt(s, c) + FrameLength(c) + k, c) = RefSlotAt(s, c) + FrameLength(c)
<1> DEFINE n == FrameLength(c)
           r == RefSlotAt(s, c)
           u == r + n + 1
           t == r + n + k
<1>1. n \in Nat /\ r \in Nat /\ s <= r + n
  BY SlotInFrame
<1>2. u \in Nat /\ t \in Nat /\ s <= u /\ u <= t /\ k \in Nat /\ 1 <= k /\ k <= n
  BY <1>1
<1>3. FrameStarted(u, c) /\ (RefSlotAt(u, c) = r \/ RefSlotAt(u, c) >= r + n)
  BY <1>2, RefSlotGrowsWithTime DEF FrameLength
<1>4. RefSlotAt(u, c) \in Nat /\ RefSlotAt(u, c) < u /\ u <= RefSlotAt(u, c) + n
  BY <1>2, <1>3, SlotInFrame
<1>5. RefSlotAt(u, c) = r + n
  BY <1>1, <1>3, <1>4
<1>6. /\ FrameStarted(t, c)
      /\ RefSlotAt(t, c) = RefSlotAt(u, c) \/ RefSlotAt(t, c) >= RefSlotAt(u, c) + n
  BY <1>2, <1>3, RefSlotGrowsWithTime DEF FrameLength
<1>7. RefSlotAt(t, c) \in Nat /\ RefSlotAt(t, c) < t
  BY <1>2, <1>6, SlotInFrame
<1> HIDE DEF n, r
<1>8. RefSlotAt(t, c) = r + n
  BY <1>1, <1>2, <1>5, <1>6, <1>7
<1> QED
  BY <1>8 DEF n, r

\* setFrameConfig "either keeps the current reference slot the same or
\* increases it by at least" the new frame length (HashConsensus.sol:344-345).
THEOREM SetFrameConfigKeepsOrGrows ==
  ASSUME NEW s \in Nat, NEW c \in FrameConfig, FrameStarted(s, c),
         NEW n \in Nat \ {0}, NEW f \in Nat
  PROVE  LET d == Reconfigured(s, c, n, f)
         IN /\ d \in FrameConfig
            /\ FrameStarted(s, d)
            /\ \/ RefSlotAt(s, d) = RefSlotAt(s, c)
               \/ RefSlotAt(s, d) >= RefSlotAt(s, c) + n * SLOTS_PER_EPOCH
<1> DEFINE d == Reconfigured(s, c, n, f)
           a == StartEpochOfFrame(FrameIndex(s, c), c)
           k == FrameIndex(s, d)
           b == StartEpochOfFrame(k, d)
<1>1. a \in Nat \ {0} /\ a <= EpochAt(s)
  BY FrameFacts
<1>2. d.initialEpoch = a /\ d.epochsPerFrame = n /\ d \in FrameConfig
  BY <1>1 DEF Reconfigured, FrameConfig
<1>3. FrameStarted(s, d)
  BY <1>1, <1>2, EpochMonotone DEF FrameStarted
<1>4. k \in Nat /\ b \in Nat \ {0}
  BY <1>2, <1>3, FrameFacts
<1>5. RefSlotAt(s, c) = a * SLOTS_PER_EPOCH - 1 /\ RefSlotAt(s, d) = b * SLOTS_PER_EPOCH - 1
  BY <1>2, <1>3, RefSlotFromStart
<1>6. b = a + k * n
  BY <1>2 DEF StartEpochOfFrame
<1>7. CASE k = 0
  <2>1. b = a
    BY <1>1, <1>6, <1>7
  <2> QED
    BY <1>2, <1>3, <1>5, <2>1
<1>8. CASE k # 0
  <2>1. PICK m \in Nat : k = m + 1
    BY <1>4, <1>8, k - 1 \in Nat
  <2> HIDE DEF k, a, b, d
  <2>2. k * n = n + m * n /\ m * n \in Nat
    BY <2>1
  <2>3. a + n <= b
    BY <1>1, <1>6, <2>2
  <2>4. a * SLOTS_PER_EPOCH + n * SLOTS_PER_EPOCH <= b * SLOTS_PER_EPOCH
    BY <1>1, <1>4, <2>3, EpochsToSlots
  <2>5. /\ a * SLOTS_PER_EPOCH \in Nat /\ b * SLOTS_PER_EPOCH \in Nat
        /\ n * SLOTS_PER_EPOCH \in Nat
    BY <1>1, <1>4, SlotsAssumption
  <2>6. RefSlotAt(s, d) >= RefSlotAt(s, c) + n * SLOTS_PER_EPOCH
    BY <1>5, <2>4, <2>5
  <2> QED
    BY <1>2, <1>3, <2>6 DEF d
<1> QED
  BY <1>7, <1>8

-------------------------------------------------------------------------------
\* The fast lane

\* Adding the modulus, or a number below it, to a number below it.
LEMMA ModFacts ==
  ASSUME NEW n \in Nat \ {0}, NEW x \in Nat
  PROVE  /\ x % n \in 0..n - 1
         /\ x < n => x % n = x
         /\ n <= x /\ x < 2 * n => x % n = x - n
<1>1. x % n \in 0..n - 1 /\ x = n * (x \div n) + (x % n) /\ x \div n \in Nat
  OBVIOUS
<1> DEFINE d == x \div n
<1>2. x < n => x % n = x
  OBVIOUS
<1>3. n <= x /\ x < 2 * n => x % n = x - n
  OBVIOUS
<1> QED
  BY <1>1, <1>2, <1>3

\* The fast lane of a frame is the window of q member indices that starts at
\* the frame's index and wraps around after the last of n members.
LEMMA FastLaneWindow ==
  ASSUME NEW n \in Nat \ {0}, NEW q \in Nat \ {0}, q < n, NEW f \in Nat, NEW i \in 0..n - 1
  PROVE  LET a == f % n
         IN IsFastLaneIndex(i, f, q, n) <=> IF a <= i THEN i - a < q ELSE i + n - a < q
<1> DEFINE a == f % n
<1>1. a \in 0..n - 1
  BY ModFacts
<1>2. FastLaneSubset(f, q, n) = [left |-> a, pastRight |-> a + q]
  BY DEF FastLaneSubset
<1> HIDE DEF a
<1>3. (a + q - 1 - a) % n = q - 1
  <2>1. a + q - 1 - a = q - 1 /\ q - 1 \in Nat /\ q - 1 < n
    BY <1>1
  <2>2. (q - 1) % n = q - 1
    BY <2>1, ModFacts
  <2> QED
    BY <2>1, <2>2
<1>4. (i + n - a) % n = IF a <= i THEN i - a ELSE i + n - a
  <2> DEFINE x == i + n - a
  <2>1. x \in Nat /\ x < 2 * n /\ (n <= x <=> a <= i) /\ x - n = i - a
    BY <1>1
  <2> HIDE DEF x
  <2>2. (n <= x => x % n = x - n) /\ (x < n => x % n = x)
    BY <2>1, ModFacts
  <2> QED
    BY <2>1, <2>2 DEF x
<1>5. IsFastLaneIndex(i, f, q, n) <=> (i + n - a) % n <= (a + q - 1 - a) % n
  BY <1>1, <1>2, a + q # 0 DEF IsFastLaneIndex, PointInClosedIntervalModN
<1> QED
  BY <1>1, <1>3, <1>4, <1>5 DEF a

\* The fast lane of every frame has min(q, n) of the indices of n members, whatever the
\* index of the frame (HashConsensus.sol:370-375).
THEOREM FastLaneCounts ==
  ASSUME NEW n \in Nat, NEW q \in Nat, n = 0 \/ q > 0, NEW f \in Nat
  PROVE  LET lane == {i \in 0..n - 1 : IsFastLaneIndex(i, f, q, n)}
         IN IsFiniteSet(lane) /\ Cardinality(lane) = IF q < n THEN q ELSE n
<1> DEFINE lane == {i \in 0..n - 1 : IsFastLaneIndex(i, f, q, n)}
<1>1. CASE q >= n
  <2>1. \A i \in 0..n - 1 : IsFastLaneIndex(i, f, q, n)
    <3> TAKE i \in 0..n - 1
    <3>1. (i + n - 0) % n = i
      <4> DEFINE x == i + n - 0
      <4>1. x \in Nat /\ n <= x /\ x < 2 * n /\ x - n = i /\ n > 0
        OBVIOUS
      <4> HIDE DEF x
      <4> QED
        BY <4>1, ModFacts DEF x
    <3>2. (n - 1 - 0) % n = n - 1
      BY n \in Nat \ {0}, n - 1 - 0 = n - 1, n - 1 \in Nat, n - 1 < n, ModFacts
    <3> QED
      BY <1>1, <3>1, <3>2 DEF IsFastLaneIndex, FastLaneSubset, PointInClosedIntervalModN
  <2>2. lane = 0..n - 1
    BY <2>1
  <2> HIDE DEF lane
  <2> DEFINE last == n - 1
  <2>3. last \in Int /\ lane = 0..last
    BY <2>2
  <2> HIDE DEF last
  <2>4. /\ IsFiniteSet(lane)
        /\ Cardinality(lane) = IF 0 > last THEN 0 ELSE last - 0 + 1
    BY <2>3, FS_Interval
  <2>5. Cardinality(lane) = n
    BY <2>4 DEF last
  <2>6. ~(q < n)
    BY <1>1
  <2> QED
    BY <2>4, <2>5, <2>6 DEF lane
<1>2. CASE q < n
  <2> DEFINE s     == f % n
             At(k) == IF s + k <= n THEN s + k - 1 ELSE s + k - 1 - n
             g     == [k \in 1..q |-> At(k)]
  <2>1. n > 0 /\ q > 0
    BY <1>2
  <2>2. s \in 0..n - 1
    BY <2>1, ModFacts
  <2>3. \A i \in 0..n - 1 :
          IsFastLaneIndex(i, f, q, n) <=> IF s <= i THEN i - s < q ELSE i + n - s < q
    BY <1>2, <2>1, FastLaneWindow
  <2>4. \A i : i \in lane <=> i \in 0..n - 1 /\ (IF s <= i THEN i - s < q ELSE i + n - s < q)
    BY <2>3
  <2> HIDE DEF s, lane
  <2>5. \A k \in 1..q : At(k) \in lane
    BY <1>2, <2>2, <2>4
  <2>6. \A k, l \in 1..q : At(k) = At(l) => k = l
    BY <1>2, <2>2
  <2>7. ASSUME NEW i \in lane PROVE \E k \in 1..q : At(k) = i
    <3>1. i \in 0..n - 1 /\ (IF s <= i THEN i - s < q ELSE i + n - s < q)
      BY <2>4
    <3>2. CASE s <= i
      BY <1>2, <2>2, <3>1, <3>2, i - s + 1 \in 1..q, At(i - s + 1) = i
    <3>3. CASE ~(s <= i)
      BY <1>2, <2>2, <3>1, <3>3, i + n - s + 1 \in 1..q, At(i + n - s + 1) = i
    <3> QED
      BY <3>2, <3>3
  <2> HIDE DEF At
  <2>8. g \in Bijection(1..q, lane)
    <3>1. g \in [1..q -> lane]
      BY <2>5
    <3>2. \A k, l \in 1..q : g[k] = g[l] => k = l
      BY <2>6
    <3>3. \A i \in lane : \E k \in 1..q : g[k] = i
      BY <2>7
    <3> HIDE DEF g
    <3> QED
      BY <3>1, <3>2, <3>3, Fun_IsBij
  <2>9. ExistsBijection(1..q, lane)
    BY <2>8 DEF ExistsBijection
  <2>10. IsFiniteSet(lane) /\ Cardinality(lane) = q
    BY <2>9, FS_CountingElements, FS_NatBijection
  <2> QED
    BY <1>2, <2>10 DEF lane
<1> QED
  BY <1>1, <1>2
===================================================================================
