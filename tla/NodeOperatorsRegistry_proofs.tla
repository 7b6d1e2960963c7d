------------------------ MODULE NodeOperatorsRegistry_proofs ----------------------
(***************************************************************************)
(* The invariants of the registry and of the allocation of deposits, for   *)
(* any number of operators and keys.                                       *)
(*                                                                         *)
(* The inductive invariant RegistryInv adds to the type that a deactivated *)
(* operator has no vetted keys left, and that the cached limit is a        *)
(* function of the operator alone (Limit): it does not go stale as time    *)
(* passes, because a penalty ends by a call and not by the clock.          *)
(***************************************************************************)
EXTENDS NodeOperatorsRegistry, Foundations

-------------------------------------------------------------------------------
\* Allocation: for any number of buckets and of items it only adds, never fills
\* a bucket past its capacity, and reports exactly what it added.

\* A share is at least one item and at most all of them.
LEMMA ShareFits ==
  ASSUME NEW size \in Nat, size >= 1, NEW n \in Nat, n >= 1
  PROVE  ShareOf(size, n) \in 1..size
<1> DEFINE q == (size + n - 1) \div n
<1>1. q \in Int /\ q >= 1
  OBVIOUS
<1>2. q <= size
  OBVIOUS
<1> QED
  BY <1>1, <1>2 DEF ShareOf, CeilDiv

\* The bucket that is filled has free space, and no open one is emptier.
LEMMA BestCandidateIsBest ==
  ASSUME NEW N \in Nat, NEW b \in [1..N -> Nat], NEW c \in [1..N -> Nat],
         BestCandidates(b, c) # {}
  PROVE  /\ BestCandidate(b, c) \in 1..N
         /\ b[BestCandidate(b, c)] < c[BestCandidate(b, c)]
<1> DEFINE S == BestCandidates(b, c)
<1>1. S \in SUBSET Nat /\ S # {}
  BY DEF BestCandidates, Open
<1>2. \E m \in S : \A n \in S : m <= n
  <2> HIDE DEF S
  <2> QED
    BY <1>1, NatMin
<1>3. BestCandidate(b, c) \in S
  BY <1>2 DEF BestCandidate
<1> QED
  BY <1>3 DEF BestCandidates, Open

\* What is free up to the next level is at least one item, and is free.
LEMMA HeadroomIsFree ==
  ASSUME NEW N \in Nat, NEW b \in [1..N -> Nat], NEW c \in [1..N -> Nat],
         NEW i \in 1..N, b[i] < c[i]
  PROVE  Headroom(b, c, i) \in 1..(c[i] - b[i])
<1> DEFINE fuller == {j \in Open(b, c) : b[j] > b[i]}
           bound  == {c[i]} \cup {b[j] : j \in fuller}
           m      == CHOOSE x \in bound : \A y \in bound : x <= y
<1>1. bound \in SUBSET Nat /\ bound # {}
  BY DEF Open
<1>2. c[i] \in bound /\ \A x \in bound : x > b[i]
  BY DEF Open
<1>3. \E x \in bound : \A y \in bound : x <= y
  <2> HIDE DEF bound
  <2> QED
    BY <1>1, NatMin
<1>4. m \in bound /\ \A y \in bound : m <= y
  <2> HIDE DEF bound
  <2> QED
    BY <1>3
<1>5. Headroom(b, c, i) = m - b[i]
  BY DEF Headroom
<1>6. m \in Nat /\ m > b[i] /\ m <= c[i]
  <2> HIDE DEF m, bound
  <2> QED
    BY <1>1, <1>2, <1>4
<1> HIDE DEF m
<1> QED
  BY <1>5, <1>6

\* A round places nothing, or at least one item where there is space for it,
\* and no more than there are.
LEMMA AllocationFits ==
  ASSUME NEW N \in Nat, NEW b \in [1..N -> Nat], NEW c \in [1..N -> Nat], NEW size \in Nat
  PROVE  LET n == AllocateToBestCandidate(b, c, size)
             i == BestCandidate(b, c)
         IN n = 0 \/ (i \in 1..N /\ n \in 1..size /\ n <= c[i] - b[i])
<1> DEFINE S == BestCandidates(b, c)
           i == BestCandidate(b, c)
<1>1. CASE S = {} \/ size = 0
  BY <1>1 DEF AllocateToBestCandidate
<1>2. CASE S # {} /\ size # 0
  <2>1. i \in 1..N /\ b[i] < c[i]
    BY <1>2, BestCandidateIsBest
  <2>2. Headroom(b, c, i) \in 1..(c[i] - b[i])
    <3> HIDE DEF i
    <3> QED
      BY <2>1, HeadroomIsFree
  <2>3. Cardinality(S) \in Nat /\ Cardinality(S) >= 1
    <3>1. S \subseteq 1..N
      BY DEF BestCandidates, Open
    <3>2. IsFiniteSet(1..N)
      BY FS_Interval
    <3> HIDE DEF S
    <3>3. IsFiniteSet(S)
      BY <3>1, <3>2, FS_Subset
    <3>4. Cardinality(S) \in Nat /\ Cardinality(S) # 0
      BY <3>3, <1>2, FS_CardinalityType, FS_EmptySet
    <3> QED
      BY <3>4
  <2>4. ShareOf(size, Cardinality(S)) \in 1..size
    <3>1. size >= 1
      BY <1>2
    <3> HIDE DEF S
    <3> QED
      BY <3>1, <2>3, ShareFits
  <2>5. AllocateToBestCandidate(b, c, size)
          = Smaller(ShareOf(size, Cardinality(S)), Headroom(b, c, i))
    BY <1>2 DEF AllocateToBestCandidate
  <2>6. /\ AllocateToBestCandidate(b, c, size) \in 1..size
        /\ AllocateToBestCandidate(b, c, size) <= c[i] - b[i]
    <3> HIDE DEF S, i
    <3> QED
      BY <2>1, <2>2, <2>4, <2>5 DEF Smaller
  <2> QED
    BY <2>1, <2>6
<1> QED
  BY <1>1, <1>2

\* What r, the state of the loop, has placed on top of b.
Placed(r, b, c) ==
  /\ \A i \in DOMAIN b : /\ b[i] <= r.buckets[i]
                         /\ r.buckets[i] <= c[i] \/ r.buckets[i] = b[i]
  /\ Sum(r.buckets) = Sum(b) + r.allocated

\* One round keeps what the loop has placed so far within bounds.
LEMMA RoundPlaces ==
  ASSUME NEW N \in Nat, NEW b \in [1..N -> Nat], NEW c \in [1..N -> Nat], NEW size \in Nat,
         NEW r \in [buckets : [1..N -> Nat], allocated : 0..size], Placed(r, b, c)
  PROVE  /\ NextRound(r, c, size) \in [buckets : [1..N -> Nat], allocated : 0..size]
         /\ Placed(NextRound(r, c, size), b, c)
<1> DEFINE left == size - r.allocated
           old  == r.buckets
           n    == AllocateToBestCandidate(old, c, left)
           i    == BestCandidate(old, c)
           new  == [old EXCEPT ![i] = @ + n]
<1>1. left \in Nat /\ old \in [1..N -> Nat]
  OBVIOUS
<1>2. n = 0 \/ (i \in 1..N /\ n \in 1..left /\ n <= c[i] - old[i])
  <2> HIDE DEF left, old
  <2> QED
    BY <1>1, AllocationFits
<1>3. CASE n = 0
  BY <1>3 DEF NextRound
<1>4. CASE i \in 1..N /\ n \in 1..left /\ n <= c[i] - old[i]
  <2>1. NextRound(r, c, size) = [buckets |-> new, allocated |-> r.allocated + n]
    BY <1>4 DEF NextRound
  <2>2. new \in [1..N -> Nat] /\ r.allocated + n \in 0..size
    <3> HIDE DEF n, i
    <3> QED
      BY SMTT(20), <1>4
  <2>3. \A j \in 1..N : b[j] <= new[j] /\ (new[j] <= c[j] \/ new[j] = b[j])
    <3>1. \A j \in 1..N : b[j] <= old[j] /\ (old[j] <= c[j] \/ old[j] = b[j])
      BY DEF Placed
    <3> HIDE DEF n, i, old, left
    <3> QED
      BY <1>1, <1>4, <3>1
  <2>4. Sum(new) = Sum(b) + (r.allocated + n)
    <3>1. Sum(old) = Sum(b) + r.allocated
      BY DEF Placed
    <3>2. old \in [1..N -> Int] /\ Sum(b) \in Int /\ r.allocated \in Int
      BY SumType
    <3> DEFINE x == old[i] + n
    <3>3. x \in Int /\ old[i] \in Int /\ n \in Int
      <4> HIDE DEF n, i
      <4> QED
        BY <1>4
    <3>4. new = [old EXCEPT ![i] = x]
      OBVIOUS
    <3>5. Sum(new) = Sum(old) + x - old[i]
      <4> HIDE DEF n, i, old, x, new
      <4> QED
        BY <1>4, <3>2, <3>3, <3>4, SumUpdate
    <3> HIDE DEF new, n, i, old
    <3> QED
      BY <3>1, <3>2, <3>3, <3>5
  <2> DEFINE m == r.allocated + n
             s == [buckets |-> new, allocated |-> m]
  <2>5. s.buckets = new /\ s.allocated = m /\ DOMAIN b = 1..N
    OBVIOUS
  <2>6. Placed(s, b, c)
    <3> HIDE DEF new, m, s
    <3>1. Sum(new) = Sum(b) + m
      BY <2>4 DEF m
    <3> QED
      BY <2>3, <2>5, <3>1 DEF Placed
  <2>7. s \in [buckets : [1..N -> Nat], allocated : 0..size]
    <3> HIDE DEF new, n
    <3> QED
      BY <2>2
  <2>8. NextRound(r, c, size) = s
    BY <2>1
  <2> HIDE DEF s
  <2> QED
    BY <2>6, <2>7, <2>8
<1> QED
  BY <1>2, <1>3, <1>4

\* The rounds of the loop, through a set of states that no round leaves.
LEMMA AllocateRounds ==
  ASSUME NEW b, NEW c, NEW size \in Nat, NEW States,
         [buckets |-> b, allocated |-> 0] \in States,
         \A r \in States : NextRound(r, c, size) \in States
  PROVE  \E g \in [0..size -> States] :
           /\ g[0] = [buckets |-> b, allocated |-> 0]
           /\ \A k \in 1..size : g[k] = NextRound(g[k - 1], c, size)
           /\ g[size] = Allocate(b, c, size)
<1> DEFINE start  == [buckets |-> b, allocated |-> 0]
           step   == [k \in 1..size |-> [r \in States |-> NextRound(r, c, size)]]
           Eq(u)  == u = [k \in 0..size |-> IF k = 0 THEN start ELSE NextRound(u[k - 1], c, size)]
<1>1. step \in [1..size -> [States -> States]]
  OBVIOUS
<1>2. PICK g \in [0..size -> States] : Iterates(g, start, size, step)
  <2> HIDE DEF start, step
  <2> QED
    BY <1>1, IterationExists DEF start
<1>3. g[0] = start /\ \A k \in 1..size : g[k] = step[k][g[k - 1]]
  <2> HIDE DEF step, start
  <2> QED
    BY <1>2 DEF Iterates
<1>4. ASSUME NEW k \in 1..size PROVE g[k] = NextRound(g[k - 1], c, size)
  <2>1. k - 1 \in 0..size
    OBVIOUS
  <2> QED
    BY <1>3, <2>1
<1>5. Eq(g)
  <2> HIDE DEF start, step
  <2> QED
    BY <1>3, <1>4
<1>6. Eq(CHOOSE u : Eq(u))
  <2> HIDE DEF Eq
  <2> QED
    BY <1>5
<1>7. \A u : Eq(u) => u[size] = g[size]
  <2> SUFFICES ASSUME NEW u, Eq(u) PROVE u[size] = g[size]
    OBVIOUS
  <2> HIDE DEF start
  <2>1. u[0] = start /\ \A k \in 1..size : u[k] = NextRound(u[k - 1], c, size)
    OBVIOUS
  <2> DEFINE S == {k \in 0..size : u[k] = g[k]}
  <2>2. 0 \in S
    <3> HIDE DEF Eq, step
    <3> QED
      BY <2>1, <1>3
  <2>3. ASSUME NEW k \in 0..size - 1, k \in S PROVE k + 1 \in S
    <3> HIDE DEF Eq, step
    <3>1. u[k] = g[k] /\ k + 1 \in 1..size /\ k + 1 \in 0..size /\ (k + 1) - 1 = k
      BY <2>3
    <3>2. u[k + 1] = NextRound(u[k], c, size) /\ g[k + 1] = NextRound(g[k], c, size)
      BY <2>1, <1>4, <3>1
    <3> QED
      BY <3>1, <3>2
  <2>4. 0..size \subseteq S
    <3> HIDE DEF S
    <3> QED
      BY <2>2, <2>3, SetInduction
  <2> QED
    BY <2>4
<1>8. Allocate(b, c, size) = (CHOOSE u : Eq(u))[size]
  BY DEF Allocate
<1>9. Allocate(b, c, size) = g[size]
  <2> HIDE DEF Eq
  <2> QED
    BY <1>6, <1>7, <1>8
<1> QED
  BY <1>3, <1>4, <1>9

\* However the loop goes, it adds what it says, and where there is space.
THEOREM AllocatePlaces ==
  ASSUME NEW N \in Nat, NEW b \in [1..N -> Nat], NEW c \in [1..N -> Nat], NEW size \in Nat
  PROVE  /\ Allocate(b, c, size) \in [buckets : [1..N -> Nat], allocated : 0..size]
         /\ Placed(Allocate(b, c, size), b, c)
<1> DEFINE States == {r \in [buckets : [1..N -> Nat], allocated : 0..size] : Placed(r, b, c)}
<1>1. [buckets |-> b, allocated |-> 0] \in States
  <2>1. Sum(b) \in Int
    BY SumType
  <2> QED
    BY <2>1 DEF Placed
<1>2. \A r \in States : NextRound(r, c, size) \in States
  BY RoundPlaces
<1>3. Allocate(b, c, size) \in States
  <2> HIDE DEF States
  <2>1. PICK g \in [0..size -> States] :
             /\ g[0] = [buckets |-> b, allocated |-> 0]
             /\ \A k \in 1..size : g[k] = NextRound(g[k - 1], c, size)
             /\ g[size] = Allocate(b, c, size)
    BY <1>1, <1>2, AllocateRounds
  <2> QED
    BY <2>1
<1> QED
  BY <1>3 DEF States

\* Where there is an open bucket there is a least filled one.
LEMMA CandidateExists ==
  ASSUME NEW N \in Nat, NEW b \in [1..N -> Nat], NEW c \in [1..N -> Nat], Open(b, c) # {}
  PROVE  /\ BestCandidates(b, c) # {} /\ BestCandidate(b, c) \in BestCandidates(b, c)
         /\ BestCandidates(b, c) \subseteq Open(b, c) /\ Open(b, c) \subseteq 1..N
<1> DEFINE fills == {b[j] : j \in Open(b, c)}
           S == BestCandidates(b, c)
<1>1. Open(b, c) \subseteq 1..N
  BY DEF Open
<1>2. fills \in SUBSET Nat /\ fills # {}
  BY <1>1
<1>3. PICK m \in fills : \A x \in fills : m <= x
  <2> HIDE DEF fills
  <2> QED
    BY <1>2, NatMin
<1>4. PICK i \in Open(b, c) : b[i] = m
  BY <1>3
<1>5. i \in S
  BY <1>3, <1>4 DEF BestCandidates
<1>6. S \in SUBSET Nat /\ S # {} /\ S \subseteq Open(b, c)
  BY <1>1, <1>5 DEF BestCandidates
<1>7. \E x \in S : \A y \in S : x <= y
  <2> HIDE DEF S
  <2> QED
    BY <1>6, NatMin
<1>8. BestCandidate(b, c) \in S
  BY <1>7 DEF BestCandidate
<1> QED
  BY <1>1, <1>6, <1>8

\* What a round places while there are items and open buckets.
LEMMA RoundFills ==
  ASSUME NEW N \in Nat, NEW b \in [1..N -> Nat], NEW c \in [1..N -> Nat],
         NEW size \in Nat \ {0}, Open(b, c) # {}
  PROVE  LET n == AllocateToBestCandidate(b, c, size)
             i == BestCandidate(b, c)
         IN /\ n \in 1..size /\ n <= Headroom(b, c, i)
            /\ n <= ShareOf(size, Cardinality(BestCandidates(b, c)))
            /\ Cardinality(BestCandidates(b, c)) \in Nat \ {0}
<1> DEFINE S == BestCandidates(b, c)
           i == BestCandidate(b, c)
<1>1. S # {} /\ i \in S /\ S \subseteq Open(b, c) /\ Open(b, c) \subseteq 1..N
  BY CandidateExists
<1>2. i \in 1..N /\ b[i] < c[i]
  BY <1>1, BestCandidateIsBest
<1>3. Headroom(b, c, i) \in 1..(c[i] - b[i])
  <2> HIDE DEF i
  <2> QED
    BY <1>2, HeadroomIsFree
<1>4. Cardinality(S) \in Nat \ {0}
  <2>1. S \subseteq 1..N /\ IsFiniteSet(1..N)
    BY <1>1, FS_Interval
  <2> HIDE DEF S
  <2>2. IsFiniteSet(S)
    BY <2>1, FS_Subset
  <2>3. Cardinality(S) \in Nat /\ Cardinality(S) # 0
    BY <2>2, <1>1, FS_CardinalityType, FS_EmptySet
  <2> QED
    BY <2>3
<1>5. ShareOf(size, Cardinality(S)) \in 1..size
  <2> DEFINE k == Cardinality(S)
  <2>1. size >= 1 /\ size \in Nat /\ k \in Nat /\ k >= 1
    BY <1>4
  <2> HIDE DEF k
  <2> QED
    BY <2>1, ShareFits DEF k
<1>6. AllocateToBestCandidate(b, c, size)
        = Smaller(ShareOf(size, Cardinality(S)), Headroom(b, c, i))
  BY <1>1 DEF AllocateToBestCandidate
<1> HIDE DEF S, i
<1>7. \A x, y \in Int : Smaller(x, y) \in {x, y} /\ Smaller(x, y) <= x /\ Smaller(x, y) <= y
  BY DEF Smaller
<1>8. c[i] \in Nat /\ b[i] \in Nat
  BY <1>2
<1>9. /\ ShareOf(size, Cardinality(S)) \in Int /\ Headroom(b, c, i) \in Int
      /\ ShareOf(size, Cardinality(S)) \in 1..size /\ Headroom(b, c, i) >= 1
  BY <1>3, <1>5, <1>8
<1> DEFINE x == ShareOf(size, Cardinality(S))
           y == Headroom(b, c, i)
           z == Smaller(x, y)
<1>10. z \in {x, y} /\ z <= x /\ z <= y /\ x \in Int /\ y \in Int /\ x \in 1..size /\ y >= 1
  BY <1>7, <1>9
<1> HIDE DEF x, y, z
<1>11. z \in 1..size /\ z <= x /\ z <= y
  BY <1>10
<1> QED
  BY <1>4, <1>6, <1>11 DEF x, y, z, S, i

\* The loop ends because everything is placed or nothing is open.
LEMMA AllocateExhausts ==
  ASSUME NEW N \in Nat, NEW b \in [1..N -> Nat], NEW c \in [1..N -> Nat], NEW size \in Nat
  PROVE  LET r == Allocate(b, c, size)
         IN r.allocated = size \/ Open(r.buckets, c) = {}
<1> DEFINE States == {r \in [buckets : [1..N -> Nat], allocated : 0..size] : Placed(r, b, c)}
           Done(r) == r.allocated = size \/ Open(r.buckets, c) = {}
<1>1. [buckets |-> b, allocated |-> 0] \in States
  <2>1. Sum(b) \in Int
    BY SumType
  <2> QED
    BY <2>1 DEF Placed
<1>2. \A r \in States : NextRound(r, c, size) \in States
  BY RoundPlaces
<1>3. PICK g \in [0..size -> States] :
           /\ g[0] = [buckets |-> b, allocated |-> 0]
           /\ \A k \in 1..size : g[k] = NextRound(g[k - 1], c, size)
           /\ g[size] = Allocate(b, c, size)
  <2> HIDE DEF States
  <2> QED
    BY <1>1, <1>2, AllocateRounds
<1> DEFINE S == {k \in 0..size : Done(g[k]) \/ g[k].allocated >= k}
<1>4. 0 \in S
  BY <1>3
<1>5. ASSUME NEW k \in 0..size - 1, k \in S PROVE k + 1 \in S
  <2> DEFINE r == g[k]
             left == size - r.allocated
             n == AllocateToBestCandidate(r.buckets, c, left)
  <2>1. /\ g[k + 1] = NextRound(r, c, size) /\ k + 1 \in 0..size
        /\ r \in [buckets : [1..N -> Nat], allocated : 0..size]
        /\ Done(r) \/ r.allocated >= k
    <3>1. k + 1 \in 1..size /\ k + 1 \in 0..size /\ (k + 1) - 1 = k /\ k \in 0..size
      OBVIOUS
    <3>2. g[k + 1] = NextRound(g[(k + 1) - 1], c, size)
      BY <1>3, <3>1
    <3>3. g[k] \in [buckets : [1..N -> Nat], allocated : 0..size]
      <4>1. g[k] \in States
        <5> HIDE DEF States
        <5> QED
          BY <3>1
      <4> QED
        BY <4>1
    <3> HIDE DEF States
    <3> QED
      BY <1>5, <3>1, <3>2, <3>3
  <2> HIDE DEF r
  <2>2. r.buckets \in [1..N -> Nat] /\ r.allocated \in 0..size /\ left \in Nat
    <3> HIDE DEF S, States, Done
    <3>1. r.buckets \in [1..N -> Nat] /\ r.allocated \in 0..size
      BY <2>1
    <3> QED
      BY <3>1
  <2>3. CASE Done(r)
    <3>2. n = 0
      <4>1. CASE left = 0
        BY <4>1 DEF AllocateToBestCandidate
      <4>2. CASE Open(r.buckets, c) = {}
        <5>1. BestCandidates(r.buckets, c) = {}
          BY <4>2 DEF BestCandidates
        <5> QED
          BY <5>1 DEF AllocateToBestCandidate
      <4> QED
        BY <2>2, <2>3, <4>1, <4>2
    <3>3. NextRound(r, c, size) = r
      BY <3>2 DEF NextRound
    <3> QED
      <4>1. Done(g[k + 1])
        BY <2>1, <2>3, <3>3
      <4> QED
        BY <2>1, <4>1
  <2>4. CASE ~Done(r)
    <3>1. left \in Nat \ {0} /\ Open(r.buckets, c) # {}
      BY <2>2, <2>4
    <3>2. n \in 1..left
      <4> HIDE DEF left
      <4> QED
        BY <2>2, <3>1, RoundFills
    <3> HIDE DEF n
    <3>3. n # 0
      BY <2>2, <3>2
    <3>4. NextRound(r, c, size).allocated = r.allocated + n
      BY <3>3 DEF NextRound, n
    <3>5. r.allocated + n >= k + 1
      <4> DEFINE placed == r.allocated
      <4>1. placed >= k /\ placed \in Int /\ n \in Int /\ n >= 1 /\ k \in Int
        BY <2>1, <2>2, <2>4, <3>2
      <4> HIDE DEF placed, S, Done, States, left
      <4>2. placed + n >= k + 1
        BY <4>1
      <4> QED
        BY <4>2 DEF placed
    <3>6. g[k + 1].allocated >= k + 1
      BY <2>1, <3>4, <3>5
    <3> QED
      BY <2>1, <3>6
  <2> QED
    BY <2>3, <2>4
<1>6. 0..size \subseteq S
  <2> HIDE DEF S
  <2> QED
    BY <1>4, <1>5, SetInduction
<1>7. Done(g[size]) \/ g[size].allocated >= size
  <2>1. size \in 0..size
    OBVIOUS
  <2>2. size \in S
    BY <1>6, <2>1
  <2> QED
    BY <2>2
<1>8. g[size].allocated \in 0..size
  BY <1>3
<1> QED
  BY <1>3, <1>7, <1>8

-------------------------------------------------------------------------------
\* Min-first

\* What bucket j lacks to be full or level with m.
Lack(x, cap, m) == IF x < Smaller(cap, m) THEN Smaller(cap, m) - x ELSE 0

LackOf(b, c, m) == [j \in DOMAIN b |-> Lack(b[j], c[j], m)]

\* In state r of the loop there are items left to level the open buckets with
\* every bucket that was filled, but for one item.
Levelled(r, b, c, size) ==
  \A i \in DOMAIN b : b[i] < r.buckets[i] =>
    Sum(LackOf(r.buckets, c, r.buckets[i] - 1)) <= size - r.allocated

LEMMA LackTyped ==
  ASSUME NEW N \in Nat, NEW b \in [1..N -> Nat], NEW c \in [1..N -> Nat], NEW m \in Int
  PROVE  /\ LackOf(b, c, m) \in [1..N -> Int]
         /\ \A j \in 1..N : LackOf(b, c, m)[j] = Lack(b[j], c[j], m)
         /\ \A j \in 1..N : Lack(b[j], c[j], m) \in Nat
         /\ Sum(LackOf(b, c, m)) \in Int
<1>1. ASSUME NEW j \in 1..N PROVE Lack(b[j], c[j], m) \in Nat
  <2>1. b[j] \in Nat /\ c[j] \in Nat
    OBVIOUS
  <2> QED
    BY <2>1 DEF Lack, Smaller
<1>2. LackOf(b, c, m) = [j \in 1..N |-> Lack(b[j], c[j], m)]
  BY DEF LackOf
<1>3. /\ LackOf(b, c, m) \in [1..N -> Int]
      /\ \A j \in 1..N : LackOf(b, c, m)[j] = Lack(b[j], c[j], m)
  BY <1>1, <1>2
<1>4. Sum(LackOf(b, c, m)) \in Int
  BY <1>3, SumType
<1> QED
  BY <1>1, <1>3, <1>4

\* A higher level lacks more.
LEMMA LackMonotone ==
  ASSUME NEW N \in Nat, NEW b \in [1..N -> Nat], NEW c \in [1..N -> Nat],
         NEW m \in Int, NEW l \in Int, m <= l
  PROVE  Sum(LackOf(b, c, m)) <= Sum(LackOf(b, c, l))
<1>1. ASSUME NEW j \in 1..N PROVE Lack(b[j], c[j], m) <= Lack(b[j], c[j], l)
  <2>1. b[j] \in Nat /\ c[j] \in Nat
    OBVIOUS
  <2> QED
    BY <2>1 DEF Lack, Smaller
<1> DEFINE x == LackOf(b, c, m)
           y == LackOf(b, c, l)
<1>2. x \in [1..N -> Int] /\ y \in [1..N -> Int] /\ \A j \in 1..N : x[j] <= y[j]
  BY <1>1, LackTyped
<1> HIDE DEF x, y
<1>3. Sum(x) <= Sum(y)
  BY <1>2, SumMonotone
<1> QED
  BY <1>3 DEF x, y

\* Filling a bucket takes from what is lacking below its new level.
LEMMA LackTaken ==
  ASSUME NEW N \in Nat, NEW b \in [1..N -> Nat], NEW c \in [1..N -> Nat], NEW m \in Int,
         NEW i \in 1..N, NEW n \in Nat, NEW new \in [1..N -> Nat],
         b[i] + n <= c[i], b[i] + n <= m,
         new[i] = b[i] + n, \A j \in 1..N : j # i => new[j] = b[j]
  PROVE  Sum(LackOf(new, c, m)) + n <= Sum(LackOf(b, c, m))
<1> DEFINE x == LackOf(b, c, m)
           y == LackOf(new, c, m)
           u == Lack(new[i], c[i], m)
<1>1. /\ new \in [1..N -> Nat] /\ new[i] = b[i] + n /\ \A j \in 1..N : j # i => new[j] = b[j]
      /\ b[i] \in Nat /\ c[i] \in Nat
  OBVIOUS
<1>2. u \in Int /\ u = Lack(b[i], c[i], m) - n /\ Lack(b[i], c[i], m) \in Int
  <2> DEFINE p == b[i]
             q == c[i]
             top == Smaller(q, m)
  <2>1. p \in Nat /\ q \in Nat /\ p + n <= q /\ p + n <= m /\ u = Lack(p + n, q, m)
    BY <1>1
  <2> HIDE DEF p, q, u
  <2>2. top \in Int /\ p + n <= top
    BY <2>1 DEF Smaller
  <2>3. /\ u = IF p + n < top THEN top - (p + n) ELSE 0
        /\ Lack(p, q, m) = IF p < top THEN top - p ELSE 0
    BY <2>1 DEF Lack
  <2> HIDE DEF top
  <2>4. u \in Int /\ u = Lack(p, q, m) - n /\ Lack(p, q, m) \in Int
    <3> DEFINE l == Lack(p, q, m)
    <3>1. l = IF p < top THEN top - p ELSE 0
      BY <2>3
    <3> HIDE DEF l
    <3>2. u \in Int /\ u = l - n /\ l \in Int
      <4>1. CASE p + n < top
        <5>1. p < top
          BY <2>1, <2>2, <4>1
        <5>2. u = top - (p + n) /\ l = top - p
          BY <2>3, <3>1, <4>1, <5>1, Zenon
        <5>3. p \in Int /\ n \in Int /\ top \in Int
          BY <2>1, <2>2
        <5> QED
          BY <5>2, <5>3
      <4>2. CASE ~(p + n < top)
        BY <2>1, <2>2, <2>3, <3>1, <4>2
      <4> QED
        BY <4>1, <4>2
    <3> QED
      BY <3>2 DEF l
  <2> QED
    BY <2>4 DEF p, q
<1> HIDE DEF u
<1>3. /\ x \in [1..N -> Int] /\ \A j \in 1..N : x[j] = Lack(b[j], c[j], m)
      /\ y \in [1..N -> Int] /\ \A j \in 1..N : y[j] = Lack(new[j], c[j], m)
  BY <1>1, LackTyped
<1> HIDE DEF x, y
<1>4. y = [x EXCEPT ![i] = u]
  <2>1. ASSUME NEW j \in 1..N PROVE y[j] = [x EXCEPT ![i] = u][j]
    <3>1. CASE j = i
      BY <1>3, <3>1 DEF u
    <3>2. CASE j # i
      <4>1. y[j] = x[j]
        BY <1>1, <1>3, <3>2
      <4> QED
        BY <1>3, <3>2, <4>1
    <3> QED
      BY <3>1, <3>2
  <2>2. [x EXCEPT ![i] = u] \in [1..N -> Int]
    BY <1>2, <1>3
  <2> DEFINE z == [x EXCEPT ![i] = u]
  <2>3. z \in [1..N -> Int] /\ \A j \in 1..N : y[j] = z[j]
    BY <2>1, <2>2
  <2> HIDE DEF z
  <2>4. y = z
    BY <1>3, <2>3
  <2> QED
    BY <2>4 DEF z
<1>5. Sum(y) = Sum(x) + u - x[i]
  <2>1. Sum([x EXCEPT ![i] = u]) = Sum(x) + u - x[i]
    BY <1>2, <1>3, SumUpdate
  <2> QED
    BY <1>4, <2>1
<1>6. Sum(x) \in Int /\ x[i] = Lack(b[i], c[i], m)
  BY <1>3, SumType
<1>7. Sum(y) + n <= Sum(x)
  BY <1>2, <1>5, <1>6
<1> QED
  BY <1>7 DEF x, y

\* The headroom of a bucket ends at each fuller open one.
LEMMA HeadroomEndsBelow ==
  ASSUME NEW N \in Nat, NEW b \in [1..N -> Nat], NEW c \in [1..N -> Nat],
         NEW i \in 1..N, NEW j \in Open(b, c), b[i] < b[j]
  PROVE  Headroom(b, c, i) <= b[j] - b[i]
<1> DEFINE fuller == {k \in Open(b, c) : b[k] > b[i]}
           bound  == {c[i]} \cup {b[k] : k \in fuller}
           m      == CHOOSE x \in bound : \A y \in bound : x <= y
<1>1. bound \in SUBSET Nat /\ bound # {} /\ b[j] \in bound
  <2>1. Open(b, c) \subseteq 1..N
    BY DEF Open
  <2> QED
    BY <2>1
<1>2. \E x \in bound : \A y \in bound : x <= y
  <2> HIDE DEF bound
  <2> QED
    BY <1>1, NatMin
<1>3. m \in bound /\ \A y \in bound : m <= y
  <2> HIDE DEF bound
  <2> QED
    BY <1>2
<1>4. Headroom(b, c, i) = m - b[i]
  BY DEF Headroom
<1>5. m \in Nat /\ m <= b[j] /\ b[i] \in Nat /\ b[j] \in Nat
  <2> HIDE DEF bound, m
  <2> QED
    BY <1>1, <1>3
<1> HIDE DEF m
<1> QED
  BY <1>4, <1>5

\* A rounded up share of each of k buckets, but for an item of each, can be had.
LEMMA ShareArithmetic ==
  ASSUME NEW size \in Nat \ {0}, NEW k \in Nat \ {0}, NEW n \in Nat \ {0}, n <= ShareOf(size, k)
  PROVE  (n - 1) * (k - 1) <= size - n
<1> DEFINE q == (size + k - 1) \div k
<1>1. q \in Nat /\ k * q <= size + k - 1
  <2>1. size + k - 1 \in Nat
    OBVIOUS
  <2> DEFINE s == size + k - 1
  <2> HIDE DEF s
  <2>2. s \div k \in Nat /\ k * (s \div k) <= s
    BY <2>1, Quotient DEF s
  <2> QED
    BY <2>2 DEF s
<1>2. n <= q
  BY DEF ShareOf, CeilDiv
<1> HIDE DEF q
<1>3. k * n <= k * q
  <2>1. n * k <= q * k
    BY <1>1, <1>2, ProductMonotone
  <2> QED
    BY <1>1, <2>1
<1>4. (n - 1) * (k - 1) = k * n - n - k + 1
  OBVIOUS
<1>5. k * n \in Int /\ k * q \in Int
  BY <1>1
<1> QED
  BY <1>1, <1>3, <1>4, <1>5

\* After a round that fills bucket i by n, enough items are left to level all
\* others with it, but for one item.
LEMMA LackAfterRound ==
  ASSUME NEW N \in Nat, NEW b \in [1..N -> Nat], NEW c \in [1..N -> Nat],
         NEW left \in Nat \ {0}, Open(b, c) # {}
  PROVE  LET n == AllocateToBestCandidate(b, c, left)
             i == BestCandidate(b, c)
         IN Sum(LackOf([b EXCEPT ![i] = @ + n], c, b[i] + n - 1)) <= left - n
<1> DEFINE n == AllocateToBestCandidate(b, c, left)
           i == BestCandidate(b, c)
           S == BestCandidates(b, c)
           O == S \ {i}
           k == Cardinality(S)
           new == [b EXCEPT ![i] = @ + n]
           m == b[i] + n - 1
           x == LackOf(new, c, m)
           e == [j \in 1..N |-> IF j \in O THEN 1 ELSE 0]
           y == [j \in 1..N |-> (n - 1) * e[j]]
<1>1. S # {} /\ i \in S /\ S \subseteq Open(b, c) /\ Open(b, c) \subseteq 1..N
  BY CandidateExists
<1>2. /\ n \in 1..left /\ n <= Headroom(b, c, i) /\ n <= ShareOf(left, k)
      /\ k \in Nat \ {0}
  BY RoundFills
<1>3. i \in 1..N /\ n \in Nat \ {0} /\ b[i] \in Nat /\ m \in Int
  <2> HIDE DEF n, i
  <2> QED
    BY <1>1, <1>2
<1>4. \A j \in Open(b, c) : b[i] <= b[j]
  BY <1>1 DEF BestCandidates
<1>5. Headroom(b, c, i) \in 1..(c[i] - b[i])
  <2>1. b[i] < c[i]
    BY <1>1 DEF Open
  <2> HIDE DEF i
  <2> QED
    BY <1>3, <2>1, HeadroomIsFree
<1> HIDE DEF n, i
<1>6. /\ new \in [1..N -> Nat] /\ new[i] = b[i] + n /\ \A j \in 1..N : j # i => new[j] = b[j]
  BY <1>3
<1> HIDE DEF new
<1>7. ASSUME NEW j \in 1..N PROVE Lack(new[j], c[j], m) <= (n - 1) * (IF j \in O THEN 1 ELSE 0)
  <2>1. c[j] \in Nat /\ b[j] \in Nat /\ new[j] \in Nat
    BY <1>6
  <2>2. ASSUME m < new[j] \/ c[j] <= new[j]
        PROVE  Lack(new[j], c[j], m) = 0
    BY <1>3, <2>1, <2>2 DEF Lack, Smaller
  <2>3. 0 <= (n - 1) * (IF j \in O THEN 1 ELSE 0)
    BY <1>3
  <2>4. CASE j = i
    <3>1. m < new[j]
      BY <1>3, <1>6, <2>4
    <3> QED
      BY <2>2, <2>3, <3>1
  <2>5. CASE j # i /\ j \in S
    <3>1. new[j] = b[j] /\ b[j] = b[i]
      <4>1. b[j] <= b[i] /\ b[i] <= b[j]
        BY <1>1, <1>4, <2>5 DEF BestCandidates
      <4> QED
        BY <1>3, <1>6, <2>1, <2>5, <4>1
    <3>2. Lack(new[j], c[j], m) <= n - 1
      BY <1>3, <2>1, <3>1 DEF Lack, Smaller
    <3>3. (n - 1) * (IF j \in O THEN 1 ELSE 0) = n - 1
      BY <1>3, <2>5
    <3> QED
      BY <3>2, <3>3
  <2>6. CASE j # i /\ j \notin S /\ j \in Open(b, c)
    <3>1. PICK l \in Open(b, c) : ~(b[j] <= b[l])
      BY <2>6 DEF BestCandidates
    <3>2. b[i] < b[j]
      <4>1. b[i] <= b[l] /\ b[l] \in Nat
        BY <1>1, <1>4
      <4> QED
        BY <1>3, <2>1, <3>1, <4>1
    <3>3. Headroom(b, c, i) <= b[j] - b[i]
      BY <1>3, <2>6, <3>2, HeadroomEndsBelow
    <3>4. m < new[j]
      <4>1. Headroom(b, c, i) \in Int /\ new[j] = b[j] /\ c[i] \in Nat
        BY <1>3, <1>5, <1>6, <2>6
      <4> QED
        BY <1>2, <1>3, <2>1, <3>3, <4>1
    <3> QED
      BY <2>2, <2>3, <3>4
  <2>7. CASE j # i /\ j \notin Open(b, c)
    <3>1. c[j] <= b[j] /\ new[j] = b[j]
      BY <1>6, <2>1, <2>7 DEF Open
    <3> QED
      BY <2>2, <2>3, <3>1
  <2> QED
    BY <2>4, <2>5, <2>6, <2>7
<1>8. /\ x \in [1..N -> Int] /\ \A j \in 1..N : x[j] = Lack(new[j], c[j], m)
  <2> HIDE DEF m
  <2> QED
    BY <1>3, <1>6, LackTyped
<1>9. /\ e \in [1..N -> Int] /\ \A j \in 1..N : e[j] = IF j \in O THEN 1 ELSE 0
      /\ y \in [1..N -> Int] /\ \A j \in 1..N : y[j] = (n - 1) * e[j] /\ x[j] <= y[j]
      /\ O \in SUBSET (1..N)
  <2> HIDE DEF S, m, x
  <2>1. e \in [1..N -> Int] /\ \A j \in 1..N : e[j] = IF j \in O THEN 1 ELSE 0
    OBVIOUS
  <2>2. y \in [1..N -> Int] /\ \A j \in 1..N : y[j] = (n - 1) * e[j]
    <3> HIDE DEF e
    <3> QED
      BY <1>3, <2>1
  <2>3. \A j \in 1..N : x[j] <= y[j]
    <3> HIDE DEF e, y
    <3>1. ASSUME NEW j \in 1..N PROVE x[j] <= y[j]
      <4>1. e[j] = IF j \in O THEN 1 ELSE 0
        BY <2>1
      <4>2. y[j] = (n - 1) * (IF j \in O THEN 1 ELSE 0)
        BY Zenon, <2>2, <4>1
      <4>3. x[j] <= (n - 1) * (IF j \in O THEN 1 ELSE 0)
        BY Zenon, <1>7, <1>8
      <4> QED
        BY Zenon, <4>2, <4>3
    <3> QED
      BY <3>1
  <2> QED
    BY <1>1, <2>1, <2>2, <2>3
<1>10. Cardinality(O) = k - 1
  <2> HIDE DEF S
  <2>1. S \subseteq 1..N /\ IsFiniteSet(1..N)
    BY <1>1, FS_Interval
  <2>2. IsFiniteSet(S)
    BY <2>1, FS_Subset
  <2>3. Cardinality(O) = Cardinality(S) - 1
    BY <1>1, <2>2, FS_RemoveElement
  <2> QED
    BY <2>3
<1> HIDE DEF x, y, e, O, k, m
<1>11. Sum(x) <= (n - 1) * (k - 1)
  <2> DEFINE p == n - 1
  <2>1. p \in Int /\ \A j \in 1..N : y[j] = p * e[j]
    BY <1>3, <1>9
  <2> HIDE DEF p
  <2>2. Sum(x) <= Sum(y) /\ Sum(y) = p * Sum(e) /\ Sum(e) = k - 1
    <3>1. Sum(x) <= Sum(y)
      BY <1>8, <1>9, SumMonotone
    <3>2. Sum(y) = p * Sum(e)
      BY <1>9, <2>1, SumScaled
    <3>3. Sum(e) = Cardinality(O)
      BY <1>9, SumCounts
    <3> QED
      BY <1>10, <3>1, <3>2, <3>3
  <2>3. Sum(x) <= p * (k - 1)
    BY <2>2
  <2> QED
    BY <2>3 DEF p
<1>12. (n - 1) * (k - 1) <= left - n
  BY <1>2, <1>3, ShareArithmetic
<1>13. Sum(x) \in Int /\ (n - 1) * (k - 1) \in Int
  BY <1>2, <1>3, <1>8, SumType
<1>14. Sum(x) <= left - n
  BY <1>3, <1>11, <1>12, <1>13
<1> QED
  BY <1>14 DEF x, m, new, i, n

\* One round keeps enough items to level what was filled.
LEMMA RoundLevels ==
  ASSUME NEW N \in Nat, NEW b \in [1..N -> Nat], NEW c \in [1..N -> Nat], NEW size \in Nat,
         NEW r \in [buckets : [1..N -> Nat], allocated : 0..size],
         Placed(r, b, c), Levelled(r, b, c, size)
  PROVE  Levelled(NextRound(r, c, size), b, c, size)
<1> DEFINE left == size - r.allocated
           old  == r.buckets
           n    == AllocateToBestCandidate(old, c, left)
           i    == BestCandidate(old, c)
           new  == [old EXCEPT ![i] = @ + n]
<1>1. left \in Nat /\ old \in [1..N -> Nat] /\ r.allocated \in Nat
  OBVIOUS
<1>2. CASE n = 0
  BY <1>2 DEF NextRound
<1>3. CASE n # 0
  <2>1. left \in Nat \ {0} /\ Open(old, c) # {}
    <3>1. left # 0
      BY <1>3 DEF AllocateToBestCandidate
    <3>2. Open(old, c) # {}
      <4>1. BestCandidates(old, c) # {}
        BY <1>3 DEF AllocateToBestCandidate
      <4> QED
        BY <4>1 DEF BestCandidates
    <3> QED
      BY <1>1, <3>1, <3>2
  <2>2. NextRound(r, c, size) = [buckets |-> new, allocated |-> r.allocated + n]
    BY <1>3 DEF NextRound
  <2> DEFINE low == old[i] + n - 1
  <2>3. /\ n \in 1..left /\ i \in 1..N /\ old[i] + n <= c[i]
        /\ Sum(LackOf(new, c, low)) <= left - n
    <3> HIDE DEF left, old
    <3>1. Sum(LackOf(new, c, low)) <= left - n
      BY <1>1, <2>1, LackAfterRound
    <3>2. i \in 1..N /\ n \in 1..left /\ n <= c[i] - old[i]
      BY <1>1, <1>3, AllocationFits
    <3>3. old[i] \in Nat /\ c[i] \in Nat
      BY <1>1, <3>2
    <3> HIDE DEF n, i
    <3>4. old[i] + n <= c[i]
      BY <1>1, <3>2, <3>3
    <3> QED
      BY <3>1, <3>2, <3>4
  <2> HIDE DEF n, i
  <2>4. /\ new \in [1..N -> Nat] /\ new[i] = old[i] + n /\ \A j \in 1..N : j # i => new[j] = old[j]
        /\ old[i] \in Nat /\ low \in Int /\ n \in Nat \ {0}
    <3> HIDE DEF left, old
    <3>1. old \in [1..N -> Nat] /\ i \in 1..N /\ n \in Nat \ {0} /\ old[i] \in Nat
      BY <1>1, <2>3
    <3>2. new \in [1..N -> Nat] /\ new[i] = old[i] + n /\ \A j \in 1..N : j # i => new[j] = old[j]
      <4>1. old[i] + n \in Nat
        BY <3>1
      <4> QED
        BY <3>1, <4>1
    <3>3. low \in Int
      BY <3>1
    <3> HIDE DEF new, low
    <3> QED
      BY <3>1, <3>2, <3>3
  <2>5. ASSUME NEW j \in 1..N, b[j] < new[j]
        PROVE  Sum(LackOf(new, c, new[j] - 1)) <= size - (r.allocated + n)
    <3> DEFINE m == new[j] - 1
    <3>0. new[j] \in Nat /\ old[j] \in Nat
      <4> HIDE DEF new, old
      <4> QED
        BY <1>1, <2>4
    <3>1. m \in Int /\ size - (r.allocated + n) = left - n
      <4>1. size - (r.allocated + n) = left - n
        BY <1>1, <2>4
      <4> HIDE DEF new, left
      <4> QED
        BY <3>0, <4>1
    <3>2. CASE m <= low
      <4>1. Sum(LackOf(new, c, m)) <= Sum(LackOf(new, c, low))
        <5> HIDE DEF m, low, new
        <5> QED
          BY <2>4, <3>1, <3>2, LackMonotone
      <4>2. Sum(LackOf(new, c, m)) \in Int /\ Sum(LackOf(new, c, low)) \in Int
        <5> HIDE DEF m, low, new
        <5> QED
          BY <2>4, <3>1, LackTyped
      <4> HIDE DEF new, m, low, left
      <4>3. Sum(LackOf(new, c, m)) <= left - n
        BY <1>1, <2>3, <2>4, <4>1, <4>2
      <4> QED
        BY <3>1, <4>3 DEF m
    <3>3. CASE ~(m <= low)
      <4>1. j # i /\ new[j] = old[j] /\ old[i] + n <= m
        <5> HIDE DEF new, old
        <5> DEFINE x == new[j]
                   y == old[i]
        <5>1. x \in Nat /\ y \in Nat /\ n \in Nat /\ ~(x - 1 <= y + n - 1)
          BY <2>4, <3>0, <3>3
        <5>2. ASSUME j = i PROVE x = y + n
          BY Zenon, <2>4, <5>2
        <5>3. j # i => new[j] = old[j]
          BY Zenon, <2>4
        <5> HIDE DEF x, y
        <5>4. j # i /\ y + n <= x - 1
          BY <5>1, <5>2
        <5> QED
          BY <5>3, <5>4 DEF x, y
      <4>2. Sum(LackOf(old, c, m)) <= left
        <5>1. b[j] < old[j] /\ j \in DOMAIN b
          BY <2>5, <4>1
        <5>2. Sum(LackOf(old, c, old[j] - 1)) <= size - r.allocated
          BY <5>1 DEF Levelled
        <5> HIDE DEF old, new
        <5> QED
          BY <4>1, <5>2
      <4>3. Sum(LackOf(new, c, m)) + n <= Sum(LackOf(old, c, m))
        <5>1. /\ old \in [1..N -> Nat] /\ m \in Int /\ i \in 1..N /\ n \in Nat
              /\ old[i] + n <= c[i] /\ old[i] + n <= m
          BY <1>1, <2>3, <2>4, <3>1, <4>1
        <5>2. /\ new \in [1..N -> Nat] /\ new[i] = old[i] + n
              /\ \A k \in 1..N : k # i => new[k] = old[k]
          BY Zenon, <2>4
        <5> HIDE DEF m, old, new
        <5> QED
          BY <5>1, <5>2, LackTaken
      <4>4. Sum(LackOf(old, c, m)) \in Int /\ Sum(LackOf(new, c, m)) \in Int
        <5> HIDE DEF m, old, new
        <5> QED
          BY <1>1, <2>4, <3>1, LackTyped
      <4> DEFINE x == Sum(LackOf(old, c, m))
                 y == Sum(LackOf(new, c, m))
      <4>5. x <= left /\ y + n <= x /\ x \in Int /\ y \in Int
        BY <4>2, <4>3, <4>4
      <4> HIDE DEF x, y, left
      <4>6. y <= left - n
        BY <1>1, <2>4, <4>5
      <4> QED
        BY <3>1, <4>6 DEF y, m
    <3> QED
      BY <3>2, <3>3
  <2> DEFINE s == [buckets |-> new, allocated |-> r.allocated + n]
  <2>6. s.buckets = new /\ s.allocated = r.allocated + n /\ DOMAIN b = 1..N
    OBVIOUS
  <2>7. Levelled(s, b, c, size)
    <3> HIDE DEF s, new
    <3> QED
      BY <2>5, <2>6 DEF Levelled
  <2> HIDE DEF s
  <2> QED
    BY <2>2, <2>7 DEF s
<1> QED
  BY <1>2, <1>3

\* No open bucket ends more than one item below a bucket that was filled.
LEMMA AllocateLevels ==
  ASSUME NEW N \in Nat, NEW b \in [1..N -> Nat], NEW c \in [1..N -> Nat], NEW size \in Nat,
         NEW i \in 1..N, NEW j \in 1..N,
         b[i] < Allocate(b, c, size).buckets[i], Allocate(b, c, size).buckets[j] < c[j]
  PROVE  Allocate(b, c, size).buckets[i] - 1 <= Allocate(b, c, size).buckets[j]
<1> DEFINE States == {r \in [buckets : [1..N -> Nat], allocated : 0..size] :
                        Placed(r, b, c) /\ Levelled(r, b, c, size)}
           a == Allocate(b, c, size)
           f == a.buckets
           m == f[i] - 1
<1>1. [buckets |-> b, allocated |-> 0] \in States
  <2>1. Sum(b) \in Int
    BY SumType
  <2> QED
    BY <2>1 DEF Placed, Levelled
<1>2. \A r \in States : NextRound(r, c, size) \in States
  BY RoundPlaces, RoundLevels
<1>3. a \in States
  <2> HIDE DEF States
  <2>1. PICK g \in [0..size -> States] :
             /\ g[0] = [buckets |-> b, allocated |-> 0]
             /\ \A k \in 1..size : g[k] = NextRound(g[k - 1], c, size)
             /\ g[size] = Allocate(b, c, size)
    BY <1>1, <1>2, AllocateRounds
  <2> QED
    BY <2>1
<1>4. a.allocated = size \/ Open(f, c) = {}
  BY AllocateExhausts
<1> HIDE DEF a
<1>5. f \in [1..N -> Nat] /\ DOMAIN b = 1..N /\ Sum(LackOf(f, c, m)) <= size - a.allocated
  BY <1>3 DEF Levelled, a
<1> HIDE DEF f
<1>6. /\ j \in Open(f, c) /\ f[j] \in Nat /\ c[j] \in Nat /\ m \in Int /\ f[j] < c[j]
  <2>1. f[j] < c[j]
    BY DEF f, a
  <2>2. f[i] \in Nat /\ f[j] \in Nat /\ c[j] \in Nat
    BY <1>5
  <2>3. j \in Open(f, c)
    BY <1>5, <2>1 DEF Open
  <2> QED
    BY <2>1, <2>2, <2>3
<1>7. Sum(LackOf(f, c, m)) <= 0
  <2>1. a.allocated = size
    BY <1>4, <1>6
  <2> QED
    BY <1>5, <2>1
<1> HIDE DEF m
<1>8. Lack(f[j], c[j], m) <= 0
  <2> DEFINE x == LackOf(f, c, m)
  <2>1. /\ x \in [1..N -> Int] /\ \A k \in 1..N : x[k] = Lack(f[k], c[k], m)
        /\ \A k \in 1..N : Lack(f[k], c[k], m) \in Nat
    BY <1>5, <1>6, LackTyped
  <2>2. Sum(x) <= 0
    BY <1>7
  <2> HIDE DEF x
  <2>3. \A k \in 1..N : x[k] >= 0
    BY <2>1
  <2>4. x[j] <= Sum(x) /\ Sum(x) \in Nat /\ x[j] \in Int
    BY <2>1, <2>3, SumPart
  <2> QED
    BY <2>1, <2>2, <2>4
<1>9. m <= f[j]
  BY <1>6, <1>8 DEF Lack, Smaller
<1> QED
  BY <1>9 DEF m, f, a

\* Between the given fills b and the result f there is always a least filled
\* open bucket that is below f: no open bucket of f is two items below a filled one.
LEMMA CandidateToward ==
  ASSUME NEW N \in Nat, NEW b \in [1..N -> Nat], NEW c \in [1..N -> Nat],
         NEW f \in [1..N -> Nat], NEW x \in [1..N -> Nat], x # f,
         \A k \in 1..N : b[k] <= x[k] /\ x[k] <= f[k] /\ (f[k] <= c[k] \/ f[k] = b[k]),
         \A k, l \in 1..N : b[k] < f[k] /\ f[l] < c[l] => f[k] - 1 <= f[l]
  PROVE  \E i \in BestCandidates(x, c) : i \in 1..N /\ x[i] < f[i]
<1> DEFINE T == {k \in 1..N : x[k] < f[k]}
           fills == {x[k] : k \in T}
<1>1. PICK k \in 1..N : x[k] # f[k]
  OBVIOUS
<1>2. fills \in SUBSET Nat /\ fills # {}
  <2>1. x[k] < f[k]
    <3>1. x[k] \in Nat /\ f[k] \in Nat /\ x[k] <= f[k]
      OBVIOUS
    <3> QED
      BY <1>1, <3>1
  <2>2. x[k] \in fills
    BY <2>1
  <2>3. fills \subseteq Nat
    OBVIOUS
  <2> QED
    BY <2>2, <2>3
<1>3. PICK m \in fills : \A y \in fills : m <= y
  <2> HIDE DEF fills
  <2> QED
    BY <1>2, NatMin
<1>4. PICK i \in 1..N : x[i] < f[i] /\ x[i] = m
  BY <1>3
<1>5. ASSUME NEW j \in 1..N, x[j] < c[j] PROVE x[i] <= x[j]
  <2>1. CASE x[j] < f[j]
    BY <1>3, <1>4, <2>1
  <2>2. CASE x[j] = f[j]
    <3>1. b[i] < f[i] /\ f[j] < c[j] /\ f[i] \in Nat /\ f[j] \in Nat /\ x[i] \in Nat /\ b[i] \in Nat
      BY <1>4, <1>5, <2>2
    <3>2. f[i] - 1 <= f[j]
      BY <3>1
    <3> QED
      BY <1>4, <2>2, <3>1, <3>2
  <2>3. x[j] \in Nat /\ f[j] \in Nat /\ x[j] <= f[j]
    OBVIOUS
  <2> QED
    BY <2>1, <2>2, <2>3
<1>6. x[i] < c[i]
  <2>1. x[i] \in Nat /\ f[i] \in Nat /\ b[i] \in Nat /\ c[i] \in Nat /\ b[i] <= x[i]
        /\ (f[i] <= c[i] \/ f[i] = b[i])
    OBVIOUS
  <2> QED
    BY <1>4, <2>1
<1> HIDE DEF fills, T
<1>7. i \in BestCandidates(x, c)
  BY <1>5, <1>6 DEF BestCandidates, Open
<1> QED
  BY <1>4, <1>7

\* One more item in every way a least filled open bucket allows.
OneMore(fills, c) ==
  UNION {IF BestCandidates(b, c) = {} THEN {b}
         ELSE {[b EXCEPT ![i] = @ + 1] : i \in BestCandidates(b, c)} : b \in fills}

\* g holds the sets of fills after each item.
ItemSteps(g, b, c, size) ==
  /\ b \in g[0]
  /\ \A k \in 1..size : g[k] = OneMore(g[k - 1], c)
  /\ g[size] = ItemByItem(b, c, size)

\* There are such sets of fills.
LEMMA ItemsOneByOne ==
  ASSUME NEW N \in Nat, NEW b \in [1..N -> Nat], NEW c \in [1..N -> Nat], NEW size \in Nat,
         NEW R, R = SUBSET [1..N -> Nat]
  PROVE  \E g \in [0..size -> R] : ItemSteps(g, b, c, size)
<1> DEFINE first == {b}
           step  == [k \in 1..size |-> [L \in R |-> OneMore(L, c)]]
           Eq(u) == u = [k \in 0..size |-> IF k = 0 THEN first ELSE OneMore(u[k - 1], c)]
<1>1. ASSUME NEW L \in R PROVE OneMore(L, c) \in R
  <2>1. ASSUME NEW x \in L, NEW i \in BestCandidates(x, c)
        PROVE  [x EXCEPT ![i] = @ + 1] \in [1..N -> Nat]
    <3>1. x \in [1..N -> Nat] /\ i \in 1..N
      BY DEF BestCandidates, Open
    <3> QED
      BY <3>1
  <2>2. \A x \in L : x \in [1..N -> Nat]
    OBVIOUS
  <2>3. ASSUME NEW y \in OneMore(L, c) PROVE y \in [1..N -> Nat]
    <3>1. PICK x \in L : y \in IF BestCandidates(x, c) = {} THEN {x}
                               ELSE {[x EXCEPT ![i] = @ + 1] : i \in BestCandidates(x, c)}
      BY Zenon DEF OneMore
    <3>2. CASE BestCandidates(x, c) = {}
      BY <2>2, <3>1, <3>2
    <3>3. CASE BestCandidates(x, c) # {}
      <4>1. PICK i \in BestCandidates(x, c) : y = [x EXCEPT ![i] = @ + 1]
        BY <3>1, <3>3
      <4> QED
        BY <2>1, <4>1
    <3> QED
      BY <3>2, <3>3
  <2> QED
    BY <2>3
<1>2. step \in [1..size -> [R -> R]] /\ first \in R
  <2>1. first \in R
    OBVIOUS
  <2> HIDE DEF first
  <2> QED
    BY <1>1, <2>1
<1>3. PICK g \in [0..size -> R] : Iterates(g, first, size, step)
  <2> HIDE DEF step, first
  <2> QED
    BY <1>2, IterationExists
<1>4. g[0] = first /\ \A k \in 1..size : g[k] = step[k][g[k - 1]]
  <2> HIDE DEF step, first
  <2> QED
    BY <1>3 DEF Iterates
<1>5. ASSUME NEW k \in 1..size PROVE g[k] = OneMore(g[k - 1], c)
  <2>1. k - 1 \in 0..size
    OBVIOUS
  <2> QED
    BY <1>4, <2>1
<1>6. Eq(g)
  <2> HIDE DEF step, first
  <2> QED
    BY <1>4, <1>5
<1>7. Eq(CHOOSE u : Eq(u))
  <2> HIDE DEF Eq
  <2> QED
    BY <1>6
<1>8. \A u : Eq(u) => u[size] = g[size]
  <2> SUFFICES ASSUME NEW u, Eq(u) PROVE u[size] = g[size]
    OBVIOUS
  <2> HIDE DEF first
  <2>1. u[0] = first /\ \A k \in 1..size : u[k] = OneMore(u[k - 1], c)
    OBVIOUS
  <2> DEFINE S == {k \in 0..size : u[k] = g[k]}
  <2>2. 0 \in S
    <3> HIDE DEF Eq, step
    <3> QED
      BY <2>1, <1>4
  <2>3. ASSUME NEW k \in 0..size - 1, k \in S PROVE k + 1 \in S
    <3> HIDE DEF Eq, step
    <3>1. u[k] = g[k] /\ k + 1 \in 1..size /\ k + 1 \in 0..size /\ (k + 1) - 1 = k
      BY <2>3
    <3>2. u[k + 1] = OneMore(u[k], c) /\ g[k + 1] = OneMore(g[k], c)
      BY <2>1, <1>5, <3>1
    <3> QED
      BY <3>1, <3>2
  <2>4. 0..size \subseteq S
    <3> HIDE DEF S
    <3> QED
      BY <2>2, <2>3, SetInduction
  <2> QED
    BY <2>4
<1>9. ItemByItem(b, c, size) = (CHOOSE u : Eq(u))[size]
  BY DEF ItemByItem, OneMore
<1>10. ItemByItem(b, c, size) = g[size]
  <2> HIDE DEF Eq
  <2> QED
    BY <1>7, <1>8, <1>9
<1> QED
  BY <1>4, <1>5, <1>10 DEF ItemSteps

\* The loop fills min-first, for any number of buckets, fills, capacities and items:
\* placing the items one by one, each in a least filled open bucket, may end where
\* it ends, although it moves many items a round.
THEOREM AllocationIsMinFirst ==
  ASSUME NEW N \in Nat, NEW b \in [1..N -> Nat], NEW c \in [1..N -> Nat], NEW size \in Nat
  PROVE  AllocatesMinFirst(b, c, size)
<1> DEFINE a == Allocate(b, c, size)
           f == a.buckets
<1>1. /\ f \in [1..N -> Nat] /\ a.allocated \in 0..size
      /\ \A k \in 1..N : b[k] <= f[k] /\ (f[k] <= c[k] \/ f[k] = b[k])
      /\ Sum(f) = Sum(b) + a.allocated
  <2>1. a \in [buckets : [1..N -> Nat], allocated : 0..size] /\ Placed(a, b, c)
    BY AllocatePlaces
  <2> HIDE DEF a
  <2> QED
    BY <2>1 DEF Placed
<1>2. a.allocated = size \/ Open(f, c) = {}
  BY AllocateExhausts
<1>3. \A k, l \in 1..N : b[k] < f[k] /\ f[l] < c[l] => f[k] - 1 <= f[l]
  BY AllocateLevels
<1> HIDE DEF a, f
<1> DEFINE R == SUBSET [1..N -> Nat]
<1>0. R = SUBSET [1..N -> Nat]
  OBVIOUS
<1> HIDE DEF R
<1>3a. PICK g \in [0..size -> R] : ItemSteps(g, b, c, size)
  BY <1>0, ItemsOneByOne
<1>4. /\ g \in [0..size -> R] /\ b \in g[0]
      /\ \A k \in 1..size : g[k] = OneMore(g[k - 1], c)
      /\ g[size] = ItemByItem(b, c, size)
  BY <1>3a DEF ItemSteps
<1> DEFINE Between(x, k) == /\ \A l \in 1..N : b[l] <= x[l] /\ x[l] <= f[l]
                            /\ Sum(x) = Sum(b) + k \/ (x = f /\ Open(f, c) = {})
           S == {k \in 0..size : \E x \in g[k] : Between(x, k)}
<1>5. Sum(b) \in Int /\ Sum(f) \in Int /\ \A x \in [1..N -> Nat] : Sum(x) \in Int
  BY <1>1, SumType
<1>6. 0 \in S
  <2>1. Between(b, 0) /\ b \in g[0] /\ 0 \in 0..size
    BY <1>1, <1>4, <1>5
  <2> HIDE DEF Between
  <2> QED
    BY <2>1
<1>7. ASSUME NEW k \in 0..size - 1, k \in S PROVE k + 1 \in S
  <2>1. /\ k \in 0..size /\ k + 1 \in 1..size /\ k + 1 \in 0..size /\ (k + 1) - 1 = k
        /\ k \in Nat
    OBVIOUS
  <2>2. PICK x \in g[k] : Between(x, k)
    BY <1>7
  <2>3. g[k] \in SUBSET [1..N -> Nat] /\ g[k + 1] = OneMore(g[k], c)
    BY <1>0, <1>4, <2>1
  <2>4. x \in [1..N -> Nat]
    BY <2>2, <2>3
  <2>5. CASE x = f
    <3>1. Open(f, c) = {}
      <4>1. CASE Sum(x) = Sum(b) + k
        <5>1. a.allocated = k
          BY <1>1, <1>5, <2>1, <2>5, <4>1
        <5> QED
          BY <1>2, <2>1, <5>1
      <4> QED
        BY <2>2, <4>1
    <3>2. BestCandidates(x, c) = {}
      BY <2>5, <3>1 DEF BestCandidates
    <3>3. x \in g[k + 1]
      <4>1. x \in OneMore(g[k], c)
        BY <2>2, <3>2 DEF OneMore
      <4> QED
        BY <2>3, <4>1
    <3>4. Between(x, k + 1)
      BY <2>2, <2>5, <3>1
    <3> HIDE DEF Between
    <3> QED
      BY <2>1, <3>3, <3>4
  <2>6. CASE x # f
    <3>1. /\ \A l \in 1..N : b[l] <= x[l] /\ x[l] <= f[l] /\ (f[l] <= c[l] \/ f[l] = b[l])
          /\ Sum(x) = Sum(b) + k
      BY <1>1, <2>2, <2>6
    <3>2. PICK i \in BestCandidates(x, c) : i \in 1..N /\ x[i] < f[i]
      <4> HIDE DEF Between
      <4> QED
        BY <1>1, <1>3, <2>4, <2>6, <3>1, CandidateToward
    <3> DEFINE y == [x EXCEPT ![i] = @ + 1]
    <3>3. y \in g[k + 1]
      <4>1. y \in {[x EXCEPT ![j] = @ + 1] : j \in BestCandidates(x, c)}
        BY <3>2
      <4>2. BestCandidates(x, c) # {}
        BY <3>2
      <4> HIDE DEF y, Between
      <4>3. y \in OneMore(g[k], c)
        <5> DEFINE U(z) == IF BestCandidates(z, c) = {} THEN {z}
                           ELSE {[z EXCEPT ![j] = @ + 1] : j \in BestCandidates(z, c)}
        <5>1. y \in U(x) /\ x \in g[k]
          BY <2>2, <4>1, <4>2
        <5>2. OneMore(g[k], c) = UNION {U(z) : z \in g[k]}
          BY DEF OneMore
        <5> HIDE DEF U
        <5> QED
          BY <5>1, <5>2
      <4> QED
        BY <2>3, <4>3
    <3>4. \A l \in 1..N : b[l] <= y[l] /\ y[l] <= f[l]
      <4>1. ASSUME NEW l \in 1..N PROVE b[l] <= y[l] /\ y[l] <= f[l]
        <5>1. x[l] \in Nat /\ b[l] \in Nat /\ f[l] \in Nat /\ b[l] <= x[l] /\ x[l] <= f[l]
          BY <1>1, <2>4, <3>1
        <5>2. y[l] = IF l = i THEN x[l] + 1 ELSE x[l]
          BY <2>4, <3>2
        <5>3. l = i => x[l] < f[l]
          BY <3>2
        <5> HIDE DEF y, Between
        <5> QED
          BY <5>1, <5>2, <5>3
      <4> QED
        BY <4>1
    <3>5. Sum(y) = Sum(b) + (k + 1)
      <4> DEFINE v == x[i] + 1
      <4>1. v \in Int /\ x[i] \in Int /\ x \in [1..N -> Int] /\ y = [x EXCEPT ![i] = v]
        BY <2>4, <3>2
      <4> HIDE DEF v
      <4>2. Sum([x EXCEPT ![i] = v]) = Sum(x) + v - x[i]
        BY <3>2, <4>1, SumUpdate
      <4>3. Sum(y) = Sum(x) + v - x[i] /\ v = x[i] + 1
        BY <4>1, <4>2 DEF v
      <4> HIDE DEF y
      <4> QED
        BY <1>5, <2>1, <2>4, <3>1, <4>1, <4>3
    <3>6. Between(y, k + 1)
      <4> HIDE DEF y
      <4> QED
        BY <3>4, <3>5
    <3> HIDE DEF Between, y
    <3> QED
      BY <2>1, <3>3, <3>6
  <2> QED
    BY <2>5, <2>6
<1>8. size \in S
  <2>1. 0..size \subseteq S
    <3> HIDE DEF S
    <3> QED
      BY <1>6, <1>7, SetInduction
  <2>2. size \in 0..size
    OBVIOUS
  <2> HIDE DEF S
  <2> QED
    BY <2>1, <2>2
<1>9. PICK x \in g[size] : Between(x, size)
  BY <1>8
<1>10. x \in [1..N -> Nat]
  <2>1. g[size] \in SUBSET [1..N -> Nat]
    BY <1>0, size \in 0..size
  <2> QED
    BY <1>9, <2>1
<1>11. x = f
  <2> SUFFICES ASSUME Sum(x) = Sum(b) + size PROVE x = f
    BY <1>9
  <2> DEFINE d == [l \in 1..N |-> f[l] - x[l]]
  <2>1. /\ d \in [1..N -> Int] /\ \A l \in 1..N : d[l] = f[l] - x[l] /\ d[l] >= 0
        /\ f \in [1..N -> Int] /\ x \in [1..N -> Int]
    BY <1>1, <1>9, <1>10
  <2> HIDE DEF d, Between
  <2>2. Sum(f) = Sum(x) + Sum(d) /\ Sum(d) \in Nat /\ \A l \in 1..N : d[l] <= Sum(d)
    BY <2>1, SumDifference, SumPart
  <2>3. Sum(d) = 0
    BY <1>1, <1>5, <2>2
  <2>4. ASSUME NEW l \in 1..N PROVE x[l] = f[l]
    <3>1. x[l] \in Int /\ f[l] \in Int /\ d[l] \in Int
      BY <2>1
    <3> QED
      BY <2>1, <2>2, <2>3, <3>1
  <2> QED
    BY <1>1, <1>10, <2>4
<1>12. a.allocated = Sum(f) - Sum(b)
  BY <1>1, <1>5
<1> HIDE DEF Between
<1> QED
  BY <1>4, <1>9, <1>11, <1>12 DEF AllocatesMinFirst, a, f

-------------------------------------------------------------------------------
\* The registry

Limit(o) ==
  IF o.refunded < o.stuck \/ o.penaltyEnd # 0 THEN o.deposited
  ELSE IF o.limited THEN Larger(o.deposited, Smaller(o.vetted, o.exited + o.target))
  ELSE o.vetted

Ordered(o) ==
  /\ o.exited + o.stuck <= o.deposited
  /\ o.deposited <= o.vetted
  /\ o.vetted <= o.total
  /\ ~o.active => o.vetted = o.deposited

Good(o) == o \in OperatorState /\ Ordered(o) /\ o.max = Limit(o)

Active(ops) == {i \in DOMAIN ops : ops[i].active}

Field(ops, f) == [i \in DOMAIN ops |-> ops[i][f]]

RegistryInv ==
  /\ now \in Nat \ {0} /\ nonce \in Nat /\ stuckPenaltyDelay \in Nat
  /\ op \in Seq(OperatorState) /\ Len(op) <= MAX_NODE_OPERATORS_COUNT
  /\ \A i \in DOMAIN op : Good(op[i])
  /\ summary \in Summary
  /\ SummaryIsSum
  /\ activeCount = Cardinality(Active(op))

-------------------------------------------------------------------------------
\* One operator

\* The limit lies between the deposited and the vetted keys.
LEMMA LimitIsBetween ==
  ASSUME NEW o \in OperatorState, Ordered(o)
  PROVE  Limit(o) \in Nat /\ o.deposited <= Limit(o) /\ Limit(o) <= o.vetted
BY DEF OperatorState, Ordered, Limit, Larger, Smaller

\* From the first second on, what the code computes with the clock does not depend on it.
LEMMA MaxOfIsLimit ==
  ASSUME NEW o \in OperatorState, now \in Nat \ {0}
  PROVE  /\ MaxOf(o) = Limit(o)
         /\ IsPenaltyCleared(o) <=> ~(o.refunded < o.stuck \/ o.penaltyEnd # 0)
<1>1. IsPenaltyCleared(o) <=> ~(o.refunded < o.stuck \/ o.penaltyEnd # 0)
  BY DEF OperatorState, IsPenaltyCleared, IsPenalized
<1> HIDE DEF IsPenaltyCleared
<1>2. o.limited \in BOOLEAN
  BY DEF OperatorState
<1> QED
  BY <1>1, <1>2 DEF MaxOf, Limit

\* Refreshing the limit of an operator with ordered counts makes it good.
LEMMA RefreshedIsGood ==
  ASSUME NEW o \in OperatorState, Ordered(o), now \in Nat \ {0}
  PROVE  /\ Good(Refreshed(o))
         /\ \A f \in {"active", "exited", "total", "deposited", "refunded"} :
              Refreshed(o)[f] = o[f]
<1>1. Refreshed(o) = [o EXCEPT !.max = Limit(o)]
  BY MaxOfIsLimit DEF Refreshed
<1>2. Limit(o) \in Nat
  BY LimitIsBetween
<1> DEFINE p == [o EXCEPT !.max = Limit(o)]
<1>3. /\ p \in OperatorState
      /\ p.max = Limit(o)
      /\ \A f \in {"active", "vetted", "exited", "total", "deposited", "stuck",
                   "refunded", "penaltyEnd", "limited", "target"} : p[f] = o[f]
  BY <1>2 DEF OperatorState
<1>4. Limit(p) = Limit(o) /\ Ordered(p)
  <2> HIDE DEF p
  <2> QED
    BY <1>3 DEF Limit, Ordered
<1> HIDE DEF p
<1> QED
  BY <1>1, <1>3, <1>4 DEF Good, p

\* The accepted stuck and exited counts keep an operator's counts in order.
LEMMA WithStuckIsGood ==
  ASSUME NEW o, Good(o), NEW n \in Nat, StuckAccepted(o, n),
         now \in Nat \ {0}, stuckPenaltyDelay \in Nat
  PROVE  /\ Good(WithStuck(o, n)) /\ WithStuck(o, n).stuck = n
         /\ \A f \in {"active", "exited", "total", "deposited", "refunded"} :
              WithStuck(o, n)[f] = o[f]
<1>1. CASE n = o.stuck
  BY <1>1 DEF WithStuck
<1>2. CASE n # o.stuck
  <2> DEFINE e == PenaltyEndAfter(o, n, o.refunded)
             p == [o EXCEPT !.stuck = n, !.penaltyEnd = e]
  <2>1. e \in Nat
    BY DEF PenaltyEndAfter, Good, OperatorState
  <2>2. /\ p \in OperatorState /\ p.stuck = n
        /\ \A f \in {"active", "vetted", "exited", "total", "deposited", "refunded"} : p[f] = o[f]
    <3> HIDE DEF e
    <3> QED
      BY <2>1 DEF Good, OperatorState
  <2>3. n + o.exited <= o.deposited
    BY <1>2 DEF StuckAccepted, Good, OperatorState
  <2>4. Ordered(p)
    <3> HIDE DEF p
    <3> QED
      BY <2>2, <2>3 DEF Good, Ordered, OperatorState
  <2>5. WithStuck(o, n) = Refreshed(p)
    BY <1>2 DEF WithStuck
  <2>6. /\ Good(Refreshed(p))
        /\ \A f \in {"active", "exited", "total", "deposited", "refunded"} : Refreshed(p)[f] = p[f]
    <3> HIDE DEF p
    <3> QED
      BY <2>2, <2>4, RefreshedIsGood
  <2>7. Refreshed(p).stuck = n
    <3> HIDE DEF e
    <3> QED
      BY <2>1, <2>2 DEF Refreshed, Good, OperatorState
  <2> HIDE DEF p
  <2> QED
    BY <2>2, <2>5, <2>6, <2>7
<1> QED
  BY <1>1, <1>2

\* The accepted exited counts do, too.
LEMMA WithExitedIsGood ==
  ASSUME NEW o, Good(o), NEW n \in Nat, n = o.exited \/ n <= o.deposited - o.stuck,
         now \in Nat \ {0}
  PROVE  /\ Good(WithExited(o, n)) /\ WithExited(o, n).exited = n
         /\ \A f \in {"active", "total", "deposited", "refunded"} : WithExited(o, n)[f] = o[f]
<1>1. CASE n = o.exited
  BY <1>1 DEF WithExited
<1>2. CASE n # o.exited
  <2> DEFINE p == [o EXCEPT !.exited = n]
  <2>1. /\ p \in OperatorState /\ p.exited = n
        /\ \A f \in {"active", "vetted", "stuck", "total", "deposited", "refunded"} : p[f] = o[f]
    BY DEF Good, OperatorState
  <2>2. n + o.stuck <= o.deposited
    BY <1>2 DEF Good, OperatorState
  <2>3. Ordered(p)
    <3> HIDE DEF p
    <3> QED
      BY <2>1, <2>2 DEF Good, Ordered, OperatorState
  <2>4. WithExited(o, n) = Refreshed(p)
    BY <1>2 DEF WithExited
  <2>5. /\ Good(Refreshed(p))
        /\ \A f \in {"active", "exited", "total", "deposited", "refunded"} : Refreshed(p)[f] = p[f]
    <3> HIDE DEF p
    <3> QED
      BY <2>1, <2>3, RefreshedIsGood
  <2> HIDE DEF p
  <2> QED
    BY <2>1, <2>4, <2>5
<1> QED
  BY <1>1, <1>2

-------------------------------------------------------------------------------
\* All operators

\* The operators as a function.
LEMMA OpFunction ==
  ASSUME op \in Seq(OperatorState)
  PROVE  Len(op) \in Nat /\ DOMAIN op = 1..Len(op) /\ op \in [1..Len(op) -> OperatorState]
BY LenProperties, SeqDef

\* One field of all operators is a sequence of numbers with a sum.
LEMMA FieldType ==
  ASSUME NEW n \in Nat, NEW ops \in [1..n -> OperatorState],
         NEW f \in {"max", "exited", "total", "deposited"}
  PROVE  /\ Field(ops, f) \in [1..n -> Int]
         /\ \A i \in 1..n : Field(ops, f)[i] = ops[i][f]
         /\ Sum(Field(ops, f)) \in Int
<1>1. ASSUME NEW i \in 1..n PROVE ops[i][f] \in Int
  <2>1. ops[i] \in OperatorState
    OBVIOUS
  <2>2. /\ ops[i].max \in Int /\ ops[i].exited \in Int
        /\ ops[i].total \in Int /\ ops[i].deposited \in Int
    BY <2>1 DEF OperatorState
  <2> QED
    BY <2>2
<1>2. Field(ops, f) = [i \in 1..n |-> ops[i][f]]
  BY DEF Field
<1>3. Field(ops, f) \in [1..n -> Int]
  BY <1>1, <1>2
<1>4. Sum(Field(ops, f)) \in Int
  BY <1>3, SumType
<1> QED
  BY <1>2, <1>3, <1>4

\* Storing operators whose counts are in order, with the totals of their
\* counts, keeps the invariant: the total of the limits follows.
LEMMA StoreKeeps ==
  ASSUME RegistryInv,
         NEW new \in [1..Len(op) -> OperatorState], \A i \in 1..Len(op) : Good(new[i]),
         NEW s \in Summary, s.max = summary.max,
         \A f \in {"exited", "total", "deposited"} : s[f] = Sum(Field(new, f)),
         StoreOperators(new, s), activeCount' = Cardinality(Active(new)),
         UNCHANGED <<now, stuckPenaltyDelay>>, nonce' \in Nat
  PROVE  RegistryInv'
<1> DEFINE n == Len(op)
           change == [i \in DOMAIN op |-> new[i].max - op[i].max]
<1>1. n \in Nat /\ DOMAIN op = 1..n /\ op \in [1..n -> OperatorState]
  BY OpFunction DEF RegistryInv
<1>2. op' = new /\ summary' = [s EXCEPT !.max = @ + Sum(change)]
  BY DEF StoreOperators
<1>3. new \in Seq(OperatorState) /\ DOMAIN new = 1..n /\ Len(new) = n
  BY <1>1, SeqDef, LenProperties
<1>4. /\ Field(op, "max") \in [1..n -> Int] /\ Field(new, "max") \in [1..n -> Int]
      /\ change \in [1..n -> Int]
      /\ \A k \in 1..n : change[k] = Field(new, "max")[k] - Field(op, "max")[k]
  <2>1. /\ Field(op, "max") \in [1..n -> Int] /\ Field(new, "max") \in [1..n -> Int]
        /\ \A k \in 1..n : /\ Field(op, "max")[k] = op[k].max
                           /\ Field(new, "max")[k] = new[k].max
    <3> HIDE DEF n
    <3> QED
      BY <1>1, FieldType DEF n
  <2>2. change = [i \in 1..n |-> new[i].max - op[i].max]
    BY <1>1
  <2>3. \A k \in 1..n : change[k] = Field(new, "max")[k] - Field(op, "max")[k]
    <3> HIDE DEF n
    <3> QED
      BY <2>1, <2>2
  <2>4. change = [k \in 1..n |-> Field(new, "max")[k] - Field(op, "max")[k]]
    <3> HIDE DEF n
    <3> QED
      BY <2>1, <2>2
  <2>5. change \in [1..n -> Int]
    <3>1. \A k \in 1..n : Field(new, "max")[k] - Field(op, "max")[k] \in Int
      <4> DEFINE a == Field(op, "max")
                 b == Field(new, "max")
      <4>1. a \in [1..n -> Int] /\ b \in [1..n -> Int]
        BY <2>1
      <4> HIDE DEF n, a, b
      <4>2. \A k \in 1..n : a[k] \in Int /\ b[k] \in Int
        BY <4>1
      <4>3. \A k \in 1..n : b[k] - a[k] \in Int
        BY <4>2
      <4> QED
        BY <4>3 DEF a, b
    <3> HIDE DEF n, change
    <3> QED
      BY <3>1, <2>4
  <2> QED
    BY <2>1, <2>3, <2>5
<1>5. Sum(Field(new, "max")) = Sum(Field(op, "max")) + Sum(change)
  <2> HIDE DEF n, change
  <2> QED
    BY <1>1, <1>4, SumDifference
<1>6. DOMAIN summary = {"max", "exited", "total", "deposited"}
  BY DEF RegistryInv, Summary
<1>7. summary.max = Sum(Field(op, "max"))
  BY <1>6 DEF RegistryInv, SummaryIsSum, Field
<1>8. Sum(change) \in Int
  <2>1. n \in Nat /\ change \in [1..n -> Int]
    BY <1>1, <1>4
  <2> HIDE DEF n, change
  <2> QED
    BY <2>1, SumType
<1>9. /\ summary' \in Summary /\ DOMAIN summary' = {"max", "exited", "total", "deposited"}
      /\ summary'.max = Sum(Field(new, "max"))
      /\ \A f \in {"exited", "total", "deposited"} : summary'[f] = s[f]
  <2> HIDE DEF change
  <2> QED
    BY <1>2, <1>5, <1>7, <1>8 DEF Summary
<1>10. SummaryIsSum'
  <2>1. \A f \in {"max", "exited", "total", "deposited"} : summary'[f] = Sum(Field(op', f))
    BY <1>2, <1>9
  <2> QED
    BY <2>1, <1>9 DEF SummaryIsSum, Field
<1>11. activeCount' = Cardinality(Active(op'))
  BY <1>2
<1> QED
  <2> HIDE DEF change
  <2> QED
    BY <1>1, <1>2, <1>3, <1>9, <1>10, <1>11
     DEF RegistryInv, Good, Ordered, Limit, Active, Larger, Smaller

\* A step that leaves every operator as active as it was may leave their number.
LEMMA SameActive ==
  ASSUME RegistryInv, NEW new \in [1..Len(op) -> OperatorState],
         \A i \in 1..Len(op) : new[i].active = op[i].active,
         UNCHANGED activeCount
  PROVE  activeCount' = Cardinality(Active(new))
<1>1. DOMAIN op = 1..Len(op)
  BY OpFunction DEF RegistryInv
<1>2. Active(new) = Active(op)
  BY <1>1 DEF Active
<1> QED
  BY <1>2 DEF RegistryInv

\* The same for a single operator.
LEMMA StoreOneKeeps ==
  ASSUME RegistryInv, NEW i \in DOMAIN op, NEW o, Good(o),
         NEW s \in Summary, s.max = summary.max,
         \A f \in {"exited", "total", "deposited"} : s[f] = summary[f] + o[f] - op[i][f],
         StoreOperator(i, o, s), activeCount' = Cardinality(Active([op EXCEPT ![i] = o])),
         UNCHANGED <<now, stuckPenaltyDelay>>, nonce' \in Nat
  PROVE  RegistryInv'
<1> DEFINE n == Len(op)
           new == [op EXCEPT ![i] = o]
<1>1. n \in Nat /\ DOMAIN op = 1..n /\ op \in [1..n -> OperatorState] /\ i \in 1..n
  BY OpFunction DEF RegistryInv
<1>2. /\ new \in [1..n -> OperatorState] /\ \A k \in 1..n : Good(new[k])
      /\ \A k \in 1..n : new[k] = IF k = i THEN o ELSE op[k]
  <2>1. \A k \in 1..n : Good(op[k])
    BY <1>1 DEF RegistryInv
  <2>2. o \in OperatorState
    BY DEF Good
  <2> HIDE DEF n
  <2> QED
    BY <1>1, <2>1, <2>2
<1>3. ASSUME NEW f \in {"exited", "total", "deposited"}
      PROVE  s[f] = Sum(Field(new, f))
  <2> DEFINE a == Field(op, f)
             b == Field(new, f)
             x == o[f]
  <2>0. \A g \in {"max", "exited", "total", "deposited"} : o[g] \in Int
    BY DEF Good, OperatorState
  <2>1. /\ a \in [1..n -> Int] /\ b \in [1..n -> Int] /\ Sum(a) \in Int
        /\ \A k \in 1..n : a[k] = op[k][f] /\ b[k] = new[k][f]
    <3>1. f \in {"max", "exited", "total", "deposited"}
      OBVIOUS
    <3> HIDE DEF new, n
    <3> QED
      BY <3>1, <1>1, <1>2, FieldType
  <2>2. b = [a EXCEPT ![i] = x] /\ x \in Int
    <3>1. \A k \in 1..n : b[k] = IF k = i THEN x ELSE a[k]
      <4> HIDE DEF new, n, a, b
      <4> QED
        BY <1>2, <2>1
    <3>2. x \in Int
      BY <2>0
    <3> HIDE DEF new, n, a, b, x
    <3> QED
      BY <2>1, <3>1, <3>2
  <2>3. Sum(b) = Sum(a) + x - a[i]
    <3> HIDE DEF new, n, a, b, x
    <3>1. Sum([a EXCEPT ![i] = x]) = Sum(a) + x - a[i]
      BY ZenonT(60), <1>1, <2>1, <2>2, SumUpdate
    <3> QED
      BY <2>2, <3>1
  <2>4. summary[f] = Sum(a)
    <3>1. f \in DOMAIN summary
      BY DEF RegistryInv, Summary
    <3> QED
      BY <3>1 DEF RegistryInv, SummaryIsSum, Field
  <2>5. a[i] = op[i][f] /\ s[f] = summary[f] + o[f] - op[i][f]
    <3> HIDE DEF new, n, a, b
    <3> QED
      BY <1>1, <2>1
  <2> HIDE DEF new, n, a, b
  <2> QED
    BY <2>3, <2>4, <2>5 DEF b
<1>4. StoreOperators(new, s)
  BY DEF StoreOperator
<1>5. activeCount' = Cardinality(Active(new))
  OBVIOUS
<1> HIDE DEF new
<1> QED
  BY <1>2, <1>3, <1>4, <1>5, StoreKeeps

-------------------------------------------------------------------------------
\* Initial state and steps

\* The empty registry.
LEMMA InitRegistryInv == ASSUME Init PROVE RegistryInv
<1>1. op = <<>> /\ Len(op) = 0 /\ DOMAIN op = {} /\ op \in Seq(OperatorState)
  BY DEF Init
<1>2. Active(op) = {} /\ Cardinality(Active(op)) = 0
  BY <1>1, FS_EmptySet DEF Active
<1>3. ASSUME NEW f \in {"max", "exited", "total", "deposited"} PROVE Sum(Field(op, f)) = 0
  <2> DEFINE n == 0
             d == Field(op, f)
  <2>1. n \in Nat /\ d \in [1..n -> Int] /\ 1..n = {}
    BY <1>1 DEF Field
  <2> HIDE DEF n, d
  <2>2. Sum(d) = 0
    BY <2>1, SumZero
  <2> QED
    BY <2>2 DEF d
<1>4. SummaryIsSum
  BY <1>3 DEF SummaryIsSum, Field, Init
<1> QED
  BY <1>1, <1>2, <1>4, RegistryAssumption DEF RegistryInv, Init, Summary

\* The clock moves, but no limit depends on it any more.
LEMMA TickKeeps == ASSUME RegistryInv, Tick PROVE RegistryInv'
BY DEF RegistryInv, Tick, Good, Ordered, Limit, Active, SummaryIsSum, Larger, Smaller

\* A new penalty delay concerns later penalties only.
LEMMA DelayKeeps ==
  ASSUME RegistryInv, NEW d \in 0..MAX_STUCK_PENALTY_DELAY, SetStuckPenaltyDelay(d)
  PROVE  RegistryInv'
<1>1. d \in Nat
  BY RegistryAssumption
<1> QED
  BY <1>1 DEF RegistryInv, SetStuckPenaltyDelay, Good, Ordered, Limit, Active, SummaryIsSum,
              Larger, Smaller

\* Storing operators whose limits are the same needs no change of their total.
LEMMA StoreSameLimits ==
  ASSUME RegistryInv, NEW new \in [1..Len(op) -> OperatorState],
         \A i \in 1..Len(op) : new[i].max = op[i].max,
         NEW s \in Summary, op' = new, summary' = s
  PROVE  StoreOperators(new, s)
<1> DEFINE n == Len(op)
           change == [i \in 1..n |-> new[i].max - op[i].max]
<1>1. n \in Nat /\ DOMAIN op = 1..n /\ op \in [1..n -> OperatorState]
  BY OpFunction DEF RegistryInv
<1>2. \A k \in 1..n : change[k] = 0
  <2>1. \A k \in 1..n : op[k].max \in Int
    <3> HIDE DEF n
    <3> QED
      BY <1>1 DEF OperatorState
  <2> QED
    BY <2>1
<1>3. change \in [1..n -> Int]
  BY <1>2
<1>4. Sum(change) = 0
  <2> HIDE DEF n, change
  <2> QED
    BY <1>1, <1>2, <1>3, SumZero
<1>5. change = [i \in DOMAIN op |-> new[i].max - op[i].max]
  BY <1>1
<1>6. s = [s EXCEPT !.max = @ + 0]
  BY DEF Summary
<1>7. s = [s EXCEPT !.max = @ + Sum(change)]
  BY <1>4, <1>6
<1> HIDE DEF change
<1> QED
  BY <1>5, <1>7 DEF StoreOperators

\* An operator whose limits are refreshed, whose totalled counts are the same.
LEMMA RefreshKeeps ==
  ASSUME RegistryInv, NEW i \in DOMAIN op, NEW p \in OperatorState, Ordered(p),
         \A f \in {"active", "exited", "total", "deposited"} : p[f] = op[i][f],
         StoreOperator(i, Refreshed(p), summary),
         UNCHANGED <<now, activeCount, stuckPenaltyDelay>>, nonce' \in Nat
  PROVE  RegistryInv'
<1> DEFINE o == Refreshed(p)
           new == [op EXCEPT ![i] = o]
<1>0. now \in Nat \ {0} /\ summary \in Summary
  BY DEF RegistryInv
<1>1. /\ Good(o)
      /\ \A f \in {"active", "exited", "total", "deposited"} : o[f] = op[i][f]
  BY <1>0, RefreshedIsGood
<1>2. \A f \in {"exited", "total", "deposited"} : summary[f] = summary[f] + o[f] - op[i][f]
  <2>1. \A f \in {"exited", "total", "deposited"} : summary[f] \in Int
    BY <1>0 DEF Summary
  <2>2. \A f \in {"exited", "total", "deposited"} : op[i][f] \in Int
    <3>1. op[i] \in OperatorState
      BY DEF RegistryInv, Good
    <3> QED
      BY <3>1 DEF OperatorState
  <2> HIDE DEF o
  <2> QED
    BY <2>1, <2>2, <1>1
<1>3. activeCount' = Cardinality(Active(new))
  <2>1. DOMAIN op = 1..Len(op) /\ op \in [1..Len(op) -> OperatorState]
    BY OpFunction DEF RegistryInv
  <2>2. o \in OperatorState
    BY <1>1 DEF Good
  <2> HIDE DEF o
  <2>3. new \in [1..Len(op) -> OperatorState]
    BY <2>1, <2>2
  <2>4. \A k \in 1..Len(op) : new[k].active = op[k].active
    BY <2>1, <1>1
  <2> HIDE DEF new
  <2> QED
    BY <2>3, <2>4, SameActive
<1>4. StoreOperator(i, o, summary)
  OBVIOUS
<1> HIDE DEF o
<1> QED
  BY <1>0, <1>1, <1>2, <1>3, <1>4, StoreOneKeeps

\* The four operations that change a limit or a penalty.
LEMMA LimitsKeep ==
  ASSUME RegistryInv, NEW i \in DOMAIN op
  PROVE  /\ \A limit \in Nat : SetNodeOperatorStakingLimit(i, limit) => RegistryInv'
         /\ \A limited \in BOOLEAN, target \in Nat :
              UpdateTargetValidatorsLimits(i, limited, target) => RegistryInv'
         /\ ClearNodeOperatorPenalty(i) => RegistryInv'
         /\ \A n \in Nat : UpdateRefundedValidatorsCount(i, n) => RegistryInv'
<1>1. /\ op[i] \in OperatorState /\ Ordered(op[i]) /\ nonce \in Nat
      /\ now \in Nat /\ stuckPenaltyDelay \in Nat
  BY DEF RegistryInv, Good
<1>2. ASSUME NEW limit \in Nat, SetNodeOperatorStakingLimit(i, limit) PROVE RegistryInv'
  <2> DEFINE v == Smaller(op[i].total, Larger(limit, op[i].deposited))
             p == [op[i] EXCEPT !.vetted = v]
  <2>1. v \in Nat /\ op[i].deposited <= v /\ v <= op[i].total /\ op[i].active
    BY <1>1, <1>2 DEF OperatorState, Ordered, Smaller, Larger, SetNodeOperatorStakingLimit
  <2>2. /\ p \in OperatorState /\ Ordered(p)
        /\ \A f \in {"active", "exited", "total", "deposited"} : p[f] = op[i][f]
    <3> HIDE DEF v
    <3> QED
      BY <1>1, <2>1 DEF OperatorState, Ordered
  <2>3. StoreOperator(i, Refreshed(p), summary) /\ nonce' \in Nat
    BY <1>1, <1>2 DEF SetNodeOperatorStakingLimit, IncreaseNonce
  <2>4. UNCHANGED <<now, activeCount, stuckPenaltyDelay>>
    BY <1>2 DEF SetNodeOperatorStakingLimit
  <2> HIDE DEF p
  <2> QED
    BY <2>2, <2>3, <2>4, RefreshKeeps
<1>3. ASSUME NEW limited \in BOOLEAN, NEW target \in Nat,
             UpdateTargetValidatorsLimits(i, limited, target)
      PROVE  RegistryInv'
  <2> DEFINE x == IF limited THEN target ELSE 0
             p == [op[i] EXCEPT !.limited = limited, !.target = x]
  <2>1. x \in Nat
    OBVIOUS
  <2>2. /\ p \in OperatorState /\ Ordered(p)
        /\ \A f \in {"active", "exited", "total", "deposited"} : p[f] = op[i][f]
    <3> HIDE DEF x
    <3> QED
      BY <1>1, <2>1 DEF OperatorState, Ordered
  <2>3. StoreOperator(i, Refreshed(p), summary) /\ nonce' \in Nat
    BY <1>1, <1>3 DEF UpdateTargetValidatorsLimits, IncreaseNonce
  <2>4. UNCHANGED <<now, activeCount, stuckPenaltyDelay>>
    BY <1>3 DEF UpdateTargetValidatorsLimits
  <2> HIDE DEF p
  <2> QED
    BY <2>2, <2>3, <2>4, RefreshKeeps
<1>4. ASSUME ClearNodeOperatorPenalty(i) PROVE RegistryInv'
  <2> DEFINE p == [op[i] EXCEPT !.penaltyEnd = 0]
  <2>2. /\ p \in OperatorState /\ Ordered(p)
        /\ \A f \in {"active", "exited", "total", "deposited"} : p[f] = op[i][f]
    BY <1>1 DEF OperatorState, Ordered
  <2>3. StoreOperator(i, Refreshed(p), summary) /\ nonce' \in Nat
    BY <1>1, <1>4 DEF ClearNodeOperatorPenalty, IncreaseNonce
  <2>4. UNCHANGED <<now, activeCount, stuckPenaltyDelay>>
    BY <1>4 DEF ClearNodeOperatorPenalty
  <2> HIDE DEF p
  <2> QED
    BY <2>2, <2>3, <2>4, RefreshKeeps
<1>5. ASSUME NEW n \in Nat, UpdateRefundedValidatorsCount(i, n) PROVE RegistryInv'
  <2> DEFINE e == PenaltyEndAfter(op[i], op[i].stuck, n)
             p == [op[i] EXCEPT !.refunded = n, !.penaltyEnd = e]
  <2>1. e \in Nat
    BY <1>1 DEF PenaltyEndAfter, OperatorState
  <2>2. /\ p \in OperatorState /\ Ordered(p)
        /\ \A f \in {"active", "exited", "total", "deposited"} : p[f] = op[i][f]
    <3> HIDE DEF e
    <3> QED
      BY <1>1, <2>1 DEF OperatorState, Ordered
  <2>3. StoreOperator(i, Refreshed(p), summary) /\ nonce' \in Nat
    BY <1>1, <1>5 DEF UpdateRefundedValidatorsCount
  <2>4. UNCHANGED <<now, activeCount, stuckPenaltyDelay>>
    BY <1>5 DEF UpdateRefundedValidatorsCount
  <2> HIDE DEF p
  <2> QED
    BY <2>2, <2>3, <2>4, RefreshKeeps
<1> QED
  BY <1>2, <1>3, <1>4, <1>5

\* A new operator adds nothing to the totals.
LEMMA AddOperatorKeeps == ASSUME RegistryInv, AddNodeOperator PROVE RegistryInv'
<1> DEFINE n == Len(op)
           m == n + 1
           new == Append(op, NewOperator)
<1>1. n \in Nat /\ m \in Nat /\ DOMAIN op = 1..n /\ op \in [1..n -> OperatorState]
  BY OpFunction DEF RegistryInv
<1>2. NewOperator \in OperatorState /\ Good(NewOperator)
  BY DEF NewOperator, OperatorState, Good, Ordered, Limit
<1>3. /\ op' = new /\ new \in Seq(OperatorState) /\ Len(new) = m /\ m <= MAX_NODE_OPERATORS_COUNT
      /\ \A k \in 1..n : new[k] = op[k]
      /\ new[m] = NewOperator
  BY <1>1, <1>2, RegistryAssumption DEF RegistryInv, AddNodeOperator
<1>4. DOMAIN new = 1..m /\ new \in [1..m -> OperatorState]
  <2> HIDE DEF new, m
  <2> QED
    BY <1>3, LenProperties
<1>5. \A k \in DOMAIN new : Good(new[k])
  <2>1. \A k \in 1..m : k \in 1..n \/ k = m
    BY <1>1
  <2>2. \A k \in 1..n : Good(op[k])
    BY <1>1 DEF RegistryInv
  <2> HIDE DEF new, m
  <2> QED
    BY <1>2, <1>3, <1>4, <2>1, <2>2
<1>6. ASSUME NEW f \in {"max", "exited", "total", "deposited"}
      PROVE  Sum(Field(new, f)) = summary[f]
  <2> DEFINE a == Field(op, f)
             b == Field(new, f)
  <2>1. /\ a \in [1..n -> Int] /\ \A k \in 1..n : a[k] = op[k][f]
        /\ b \in [1..m -> Int] /\ \A k \in 1..m : b[k] = new[k][f]
        /\ Sum(a) \in Int
    <3> HIDE DEF n, m, new
    <3> QED
      BY <1>1, <1>4, FieldType
  <2>2. (\A k \in 1..n : b[k] = a[k]) /\ b[m] = 0
    <3>1. NewOperator[f] = 0
      BY DEF NewOperator
    <3>2. m \in 1..m /\ \A k \in 1..n : k \in 1..m
      BY <1>1
    <3> HIDE DEF m, n, new, a, b
    <3> QED
      BY <1>3, <2>1, <3>1, <3>2
  <2>3. b \in [1..n + 1 -> Int] /\ b[n + 1] = 0
    BY <2>1, <2>2
  <2>4. Sum(b) = Sum(a) + b[n + 1]
    <3> HIDE DEF n, m, new, a, b
    <3> QED
      BY <1>1, <2>1, <2>2, <2>3, SumAppend
  <2>5. Sum(b) = Sum(a)
    <3> HIDE DEF n, m, new, a, b
    <3> QED
      BY <2>1, <2>3, <2>4
  <2>6. summary[f] = Sum(a)
    <3>1. f \in DOMAIN summary
      BY DEF RegistryInv, Summary
    <3> QED
      BY <3>1 DEF RegistryInv, SummaryIsSum, Field
  <2> QED
    BY <2>5, <2>6
<1>7. SummaryIsSum'
  <2>1. summary' = summary /\ DOMAIN summary = {"max", "exited", "total", "deposited"}
    BY DEF AddNodeOperator, RegistryInv, Summary
  <2> HIDE DEF new
  <2> QED
    BY <1>3, <1>6, <2>1 DEF SummaryIsSum, Field
<1>8. activeCount' = Cardinality(Active(new))
  <2>1. Active(new) = Active(op) \cup {m} /\ m \notin Active(op)
    <3>1. NewOperator.active
      BY DEF NewOperator
    <3>2. \A k : k \in 1..m <=> k \in 1..n \/ k = m
      BY <1>1
    <3>3. m \notin 1..n
      BY <1>1
    <3> HIDE DEF new, m, n
    <3> QED
      BY <1>1, <1>3, <1>4, <3>1, <3>2, <3>3 DEF Active
  <2>2. IsFiniteSet(Active(op))
    <3>1. Active(op) \subseteq 1..n /\ IsFiniteSet(1..n)
      BY <1>1, FS_Interval DEF Active
    <3> QED
      BY <3>1, FS_Subset
  <2>3. Cardinality(Active(new)) = Cardinality(Active(op)) + 1
    <3> HIDE DEF new, m
    <3> QED
      BY <2>1, <2>2, FS_AddElement
  <2> QED
    BY <2>3 DEF RegistryInv, AddNodeOperator
<1> HIDE DEF new, m
<1> QED
  BY <1>3, <1>5, <1>7, <1>8
     DEF RegistryInv, AddNodeOperator, Good, Ordered, Limit, Active, Larger, Smaller

\* Activation changes no limit.
LEMMA ActivateKeeps ==
  ASSUME RegistryInv, NEW i \in DOMAIN op, ActivateNodeOperator(i) PROVE RegistryInv'
<1> DEFINE n == Len(op)
           o == [op[i] EXCEPT !.active = TRUE]
           new == [op EXCEPT ![i] = o]
<1>1. n \in Nat /\ DOMAIN op = 1..n /\ op \in [1..n -> OperatorState]
  BY OpFunction DEF RegistryInv
<1>2. op[i] \in OperatorState /\ Good(op[i]) /\ ~op[i].active
  BY DEF RegistryInv, Good, ActivateNodeOperator
<1>3. /\ o \in OperatorState /\ o.active
      /\ \A f \in {"max", "vetted", "exited", "total", "deposited", "stuck", "refunded",
                    "penaltyEnd", "limited", "target"} : o[f] = op[i][f]
  BY <1>2 DEF OperatorState
<1>4. Good(o)
  <2> HIDE DEF o
  <2> QED
    BY <1>2, <1>3 DEF Good, Ordered, Limit
<1>5. /\ new \in [1..n -> OperatorState]
      /\ \A k \in 1..n : new[k].max = op[k].max
  <2> HIDE DEF o, n
  <2> QED
    BY <1>1, <1>3
<1>6. summary \in Summary /\ op' = new /\ summary' = summary
  BY DEF RegistryInv, ActivateNodeOperator
<1>7. StoreOperator(i, o, summary)
  <2> HIDE DEF new
  <2>1. StoreOperators(new, summary)
    BY <1>5, <1>6, StoreSameLimits
  <2> QED
    BY <2>1 DEF StoreOperator, new
<1>8. activeCount' = Cardinality(Active(new))
  <2>1. Active(new) = Active(op) \cup {i} /\ i \notin Active(op)
    <3> HIDE DEF o, n
    <3> QED
      BY <1>1, <1>2, <1>3 DEF Active
  <2>2. IsFiniteSet(Active(op))
    <3>1. Active(op) \subseteq 1..n /\ IsFiniteSet(1..n)
      BY <1>1, FS_Interval DEF Active
    <3> QED
      BY <3>1, FS_Subset
  <2>3. Cardinality(Active(new)) = Cardinality(Active(op)) + 1
    <3> HIDE DEF new
    <3> QED
      BY <2>1, <2>2, FS_AddElement
  <2> HIDE DEF new
  <2> QED
    BY <2>3 DEF RegistryInv, ActivateNodeOperator
<1>9. \A f \in {"exited", "total", "deposited"} : summary[f] = summary[f] + o[f] - op[i][f]
  <2>1. \A f \in {"exited", "total", "deposited"} : summary[f] \in Int
    BY <1>6 DEF Summary
  <2>2. \A f \in {"exited", "total", "deposited"} : op[i][f] \in Int
    BY <1>2 DEF OperatorState
  <2> HIDE DEF o
  <2> QED
    BY <2>1, <2>2, <1>3
<1>10. UNCHANGED <<now, stuckPenaltyDelay>> /\ nonce' \in Nat
  BY DEF RegistryInv, ActivateNodeOperator, IncreaseNonce
<1> HIDE DEF o
<1> QED
  BY <1>4, <1>6, <1>7, <1>8, <1>9, <1>10, StoreOneKeeps

\* Deactivation takes the vetted keys that are not deposited.
LEMMA DeactivateKeeps ==
  ASSUME RegistryInv, NEW i \in DOMAIN op, DeactivateNodeOperator(i) PROVE RegistryInv'
<1> DEFINE n == Len(op)
           v == Smaller(op[i].vetted, op[i].deposited)
           p == [op[i] EXCEPT !.active = FALSE, !.vetted = v]
           o == IF p.vetted # op[i].vetted THEN Refreshed(p) ELSE p
           new == [op EXCEPT ![i] = o]
<1>1. n \in Nat /\ DOMAIN op = 1..n /\ op \in [1..n -> OperatorState]
  BY OpFunction DEF RegistryInv
<1>2. op[i] \in OperatorState /\ Good(op[i]) /\ op[i].active /\ now \in Nat \ {0}
  BY DEF RegistryInv, Good, DeactivateNodeOperator
<1>3. /\ p \in OperatorState /\ ~p.active /\ p.vetted = p.deposited
      /\ \A f \in {"max", "exited", "total", "deposited", "stuck", "refunded",
                    "penaltyEnd", "limited", "target"} : p[f] = op[i][f]
  <2>1. v = op[i].deposited
    BY <1>2 DEF OperatorState, Good, Ordered, Smaller
  <2> HIDE DEF v
  <2> QED
    BY <1>2, <2>1 DEF OperatorState
<1>4. Ordered(p)
  <2> HIDE DEF p
  <2> QED
    BY <1>2, <1>3 DEF Good, Ordered, OperatorState
<1>5. /\ Good(o) /\ ~o.active
      /\ \A f \in {"exited", "total", "deposited"} : o[f] = op[i][f]
  <2>1. CASE p.vetted # op[i].vetted
    <3>1. /\ Good(Refreshed(p))
          /\ \A f \in {"active", "exited", "total", "deposited"} : Refreshed(p)[f] = p[f]
      <4> HIDE DEF p
      <4> QED
        BY <1>2, <1>3, <1>4, RefreshedIsGood
    <3>2. o = Refreshed(p)
      BY <2>1
    <3> HIDE DEF p, o
    <3> QED
      BY <1>3, <3>1, <3>2
  <2>2. CASE p.vetted = op[i].vetted
    <3>1. Limit(p) = Limit(op[i])
      <4> HIDE DEF p
      <4> QED
        BY <2>2, <1>3 DEF Limit
    <3>2. o = p
      BY <2>2
    <3> HIDE DEF p, o
    <3> QED
      BY <1>2, <1>3, <1>4, <3>1, <3>2 DEF Good
  <2> QED
    BY <2>1, <2>2
<1>6. StoreOperator(i, o, summary)
  BY DEF DeactivateNodeOperator
<1>7. activeCount' = Cardinality(Active(new))
  <2>1. Active(new) = Active(op) \ {i} /\ i \in Active(op)
    <3> HIDE DEF o, n
    <3> QED
      BY <1>1, <1>2, <1>5 DEF Active
  <2>2. IsFiniteSet(Active(op))
    <3>1. Active(op) \subseteq 1..n /\ IsFiniteSet(1..n)
      BY <1>1, FS_Interval DEF Active
    <3> QED
      BY <3>1, FS_Subset
  <2>3. Cardinality(Active(new)) = Cardinality(Active(op)) - 1
    <3> HIDE DEF new
    <3> QED
      BY <2>1, <2>2, FS_RemoveElement
  <2> HIDE DEF new
  <2> QED
    BY <2>3 DEF RegistryInv, DeactivateNodeOperator
<1>8. \A f \in {"exited", "total", "deposited"} : summary[f] = summary[f] + o[f] - op[i][f]
  <2>1. \A f \in {"exited", "total", "deposited"} : summary[f] \in Int
    BY DEF RegistryInv, Summary
  <2>2. \A f \in {"exited", "total", "deposited"} : op[i][f] \in Int
    BY <1>2 DEF OperatorState
  <2> HIDE DEF o
  <2> QED
    BY <2>1, <2>2, <1>5
<1>9. UNCHANGED <<now, stuckPenaltyDelay>> /\ nonce' \in Nat /\ summary \in Summary
  BY DEF RegistryInv, DeactivateNodeOperator, IncreaseNonce
<1> HIDE DEF o
<1> QED
  BY <1>5, <1>6, <1>7, <1>8, <1>9, StoreOneKeeps

\* One operator is stored, as active as before.
LEMMA CountsKeep ==
  ASSUME RegistryInv, NEW i \in DOMAIN op, NEW o, Good(o), o.active = op[i].active,
         NEW s \in Summary, s.max = summary.max,
         \A f \in {"exited", "total", "deposited"} : s[f] = summary[f] + o[f] - op[i][f],
         StoreOperator(i, o, s),
         UNCHANGED <<now, activeCount, stuckPenaltyDelay>>, nonce' \in Nat
  PROVE  RegistryInv'
<1> DEFINE new == [op EXCEPT ![i] = o]
<1>1. DOMAIN op = 1..Len(op) /\ op \in [1..Len(op) -> OperatorState] /\ o \in OperatorState
  BY OpFunction DEF RegistryInv, Good
<1>2. /\ new \in [1..Len(op) -> OperatorState]
      /\ \A k \in 1..Len(op) : new[k].active = op[k].active
  BY <1>1
<1>3. activeCount' = Cardinality(Active(new))
  <2> HIDE DEF new
  <2> QED
    BY <1>2, SameActive
<1> QED
  BY <1>3, StoreOneKeeps

\* New keys are not vetted, so no limit changes.
LEMMA AddKeysKeeps ==
  ASSUME RegistryInv, NEW i \in DOMAIN op, NEW m \in Nat, AddSigningKeys(i, m)
  PROVE  RegistryInv'
<1> DEFINE n == Len(op)
           o == [op[i] EXCEPT !.total = @ + m]
           s == [summary EXCEPT !.total = @ + m]
           new == [op EXCEPT ![i] = o]
<1>1. n \in Nat /\ DOMAIN op = 1..n /\ op \in [1..n -> OperatorState]
  BY OpFunction DEF RegistryInv
<1>2. op[i] \in OperatorState /\ Good(op[i])
  BY DEF RegistryInv, Good
<1>3. /\ o \in OperatorState /\ o.total = op[i].total + m
      /\ \A f \in {"active", "max", "vetted", "exited", "deposited", "stuck", "refunded",
                    "penaltyEnd", "limited", "target"} : o[f] = op[i][f]
  BY <1>2 DEF OperatorState
<1>4. Good(o)
  <2> HIDE DEF o
  <2> QED
    BY <1>2, <1>3 DEF Good, Ordered, Limit, OperatorState
<1>5. summary \in Summary /\ op' = new /\ summary' = s
  BY DEF RegistryInv, AddSigningKeys
<1>6. /\ s \in Summary /\ s.total = summary.total + m
      /\ \A f \in {"max", "exited", "deposited"} : s[f] = summary[f]
      /\ \A f \in {"exited", "total", "deposited"} : summary[f] \in Int
  BY <1>5 DEF Summary
<1>7. StoreOperator(i, o, s)
  <2>1. new \in [1..n -> OperatorState] /\ \A k \in 1..n : new[k].max = op[k].max
    <3> HIDE DEF o, n
    <3> QED
      BY <1>1, <1>3
  <2> HIDE DEF new, s
  <2>2. StoreOperators(new, s)
    BY <1>5, <1>6, <2>1, StoreSameLimits
  <2> QED
    BY <2>2 DEF StoreOperator, new
<1>8. \A f \in {"exited", "total", "deposited"} : s[f] = summary[f] + o[f] - op[i][f]
  <2>1. \A f \in {"exited", "total", "deposited"} : op[i][f] \in Int
    BY <1>2 DEF OperatorState
  <2> HIDE DEF o, s
  <2> QED
    BY <2>1, <1>3, <1>6
<1>9. UNCHANGED <<now, activeCount, stuckPenaltyDelay>> /\ nonce' \in Nat
  BY DEF RegistryInv, AddSigningKeys, IncreaseNonce
<1> HIDE DEF o, s
<1> QED
  BY <1>3, <1>4, <1>6, <1>7, <1>8, <1>9, CountsKeep

\* Removed keys are not deposited.
LEMMA RemoveKeysKeeps ==
  ASSUME RegistryInv, NEW i \in DOMAIN op, NEW from \in Nat, NEW m \in Nat,
         RemoveSigningKeys(i, from, m)
  PROVE  RegistryInv'
<1> DEFINE v == Smaller(op[i].vetted, from)
           t == op[i].total - m
           p == [op[i] EXCEPT !.total = t, !.vetted = v]
           o == Refreshed(p)
           s == [summary EXCEPT !.total = @ - m]
<1>1. op[i] \in OperatorState /\ Good(op[i]) /\ now \in Nat \ {0}
  BY DEF RegistryInv, Good
<1>2. from >= op[i].deposited /\ from + m <= op[i].total /\ StoreOperator(i, o, s)
  BY DEF RemoveSigningKeys
<1>3. /\ p \in OperatorState /\ p.total = t /\ p.vetted = v
      /\ \A f \in {"active", "exited", "deposited", "stuck"} : p[f] = op[i][f]
  <2>1. v \in Nat /\ t \in Nat
    BY <1>1, <1>2 DEF OperatorState, Smaller
  <2> HIDE DEF v, t
  <2> QED
    BY <1>1, <2>1 DEF OperatorState
<1>4. Ordered(p)
  <2> HIDE DEF p
  <2> QED
    BY <1>1, <1>2, <1>3 DEF Good, Ordered, OperatorState, Smaller
<1>5. /\ Good(o)
      /\ \A f \in {"active", "exited", "total", "deposited"} : o[f] = p[f]
  <2> HIDE DEF p
  <2> QED
    BY <1>1, <1>3, <1>4, RefreshedIsGood
<1>6. summary \in Summary
  BY DEF RegistryInv
<1>7. /\ s \in Summary /\ s.total = summary.total - m
      /\ \A f \in {"max", "exited", "deposited"} : s[f] = summary[f]
      /\ \A f \in {"exited", "total", "deposited"} : summary[f] \in Int
  BY <1>6 DEF Summary
<1>8. \A f \in {"exited", "total", "deposited"} : s[f] = summary[f] + o[f] - op[i][f]
  <2>1. \A f \in {"exited", "total", "deposited"} : op[i][f] \in Int
    BY <1>1 DEF OperatorState
  <2> HIDE DEF o, p, s
  <2> QED
    BY <2>1, <1>3, <1>5, <1>7
<1>9. UNCHANGED <<now, activeCount, stuckPenaltyDelay>> /\ nonce' \in Nat
  BY DEF RegistryInv, RemoveSigningKeys, IncreaseNonce
<1> HIDE DEF o, s, p
<1> QED
  BY <1>2, <1>3, <1>5, <1>7, <1>8, <1>9, CountsKeep

-------------------------------------------------------------------------------
\* Steps that change several operators

\* The totals, field by field.
LEMMA SummaryTotals ==
  ASSUME RegistryInv, NEW f \in {"max", "exited", "total", "deposited"}
  PROVE  summary[f] = Sum(Field(op, f)) /\ summary[f] \in Int
<1>1. f \in DOMAIN summary /\ summary[f] \in Int
  BY DEF RegistryInv, Summary
<1> QED
  BY <1>1 DEF RegistryInv, SummaryIsSum, Field

\* A total changes by the sum of the changes.
LEMMA FieldChanged ==
  ASSUME RegistryInv, NEW new \in [1..Len(op) -> OperatorState],
         NEW f \in {"max", "exited", "total", "deposited"},
         NEW d \in [1..Len(op) -> Int]
  PROVE  /\ (\A k \in 1..Len(op) : d[k] = new[k][f] - op[k][f])
              => Sum(Field(new, f)) = summary[f] + Sum(d)
         /\ (\A k \in 1..Len(op) : d[k] = op[k][f] - new[k][f])
              => Sum(Field(new, f)) = summary[f] - Sum(d)
<1> DEFINE n == Len(op)
           a == Field(op, f)
           b == Field(new, f)
<1>1. n \in Nat /\ op \in [1..n -> OperatorState] /\ summary[f] = Sum(a) /\ Sum(a) \in Int
  BY OpFunction, SummaryTotals DEF RegistryInv
<1>2. /\ a \in [1..n -> Int] /\ \A k \in 1..n : a[k] = op[k][f]
      /\ b \in [1..n -> Int] /\ \A k \in 1..n : b[k] = new[k][f]
      /\ Sum(b) \in Int
  <2> HIDE DEF n
  <2> QED
    BY <1>1, FieldType DEF n
<1>3. d \in [1..n -> Int] /\ Sum(d) \in Int
  <2>1. d \in [1..n -> Int]
    OBVIOUS
  <2> HIDE DEF n
  <2> QED
    BY <1>1, <2>1, SumType
<1>4. ASSUME \A k \in 1..n : d[k] = new[k][f] - op[k][f]
      PROVE  Sum(b) = summary[f] + Sum(d)
  <2>1. \A k \in 1..n : d[k] = b[k] - a[k]
    <3> HIDE DEF n, a, b
    <3> QED
      BY <1>2, <1>4
  <2>2. Sum(b) = Sum(a) + Sum(d)
    <3> HIDE DEF n, a, b
    <3> QED
      BY <1>1, <1>2, <1>3, <2>1, SumDifference
  <2> HIDE DEF n, a, b
  <2> QED
    BY <1>1, <2>2
<1>5. ASSUME \A k \in 1..n : d[k] = op[k][f] - new[k][f]
      PROVE  Sum(b) = summary[f] - Sum(d)
  <2>1. \A k \in 1..n : d[k] = a[k] - b[k]
    <3> HIDE DEF n, a, b
    <3> QED
      BY <1>2, <1>5
  <2>2. Sum(a) = Sum(b) + Sum(d)
    <3> HIDE DEF n, a, b
    <3> QED
      BY <1>1, <1>2, <1>3, <2>1, SumDifference
  <2> HIDE DEF n, a, b
  <2> QED
    BY <1>1, <1>2, <1>3, <2>2
<1> QED
  BY <1>4, <1>5

\* A field no operator changes keeps its total.
LEMMA FieldUnchanged ==
  ASSUME RegistryInv, NEW new \in [1..Len(op) -> OperatorState],
         NEW f \in {"max", "exited", "total", "deposited"},
         \A k \in 1..Len(op) : new[k][f] = op[k][f]
  PROVE  Sum(Field(new, f)) = summary[f]
<1>1. Field(new, f) = Field(op, f)
  BY OpFunction DEF Field, RegistryInv
<1> QED
  BY <1>1, SummaryTotals

\* A report names operators and numbers.
LEMMA ReportType ==
  ASSUME NEW r \in Reports, RegistryInv
  PROVE  DOMAIN r \subseteq DOMAIN op /\ \A i \in DOMAIN r : r[i] \in Nat
<1>1. PICK S \in SUBSET DOMAIN op : r \in [S -> 0..Sum(MaxKeys)]
  BY DEF Reports
<1>2. \A i \in DOMAIN op : MaxKeys[i] \in Nat
  BY OpFunction, RegistryAssumption DEF RegistryInv
<1> QED
  BY <1>1, <1>2 DEF Reports, Counts

\* A report of stuck counts.
LEMMA StuckKeeps ==
  ASSUME RegistryInv, NEW r \in Reports, UpdateStuckValidatorsCount(r) PROVE RegistryInv'
<1> DEFINE n == Len(op)
           new == [i \in DOMAIN op |-> IF i \in DOMAIN r THEN WithStuck(op[i], r[i]) ELSE op[i]]
<1>1. /\ n \in Nat /\ DOMAIN op = 1..n
      /\ \A i \in 1..n : Good(op[i])
      /\ now \in Nat \ {0} /\ stuckPenaltyDelay \in Nat /\ summary \in Summary
  BY OpFunction DEF RegistryInv
<1>2. ASSUME NEW i \in 1..n
      PROVE  /\ Good(new[i])
             /\ \A f \in {"active", "exited", "total", "deposited"} : new[i][f] = op[i][f]
  <2>1. CASE i \in DOMAIN r
    <3>1. StuckAccepted(op[i], r[i]) /\ r[i] \in Nat
      BY <2>1, ReportType DEF UpdateStuckValidatorsCount
    <3>2. new[i] = WithStuck(op[i], r[i])
      BY <1>1, <2>1
    <3> HIDE DEF new, n
    <3> QED
      BY <1>1, <3>1, <3>2, WithStuckIsGood
  <2>2. CASE i \notin DOMAIN r
    BY <1>1, <2>2
  <2> QED
    BY <2>1, <2>2
<1>3. new \in [1..n -> OperatorState]
  <2>1. new = [i \in 1..n |-> new[i]]
    BY <1>1
  <2> HIDE DEF new, n
  <2> QED
    BY <1>2, <2>1 DEF Good
<1>4. StoreOperators(new, summary) /\ nonce' \in Nat
      /\ UNCHANGED <<now, activeCount, stuckPenaltyDelay>>
  BY DEF UpdateStuckValidatorsCount, RegistryInv, IncreaseNonce
<1> HIDE DEF new
<1>5. \A f \in {"exited", "total", "deposited"} : summary[f] = Sum(Field(new, f))
  BY <1>2, <1>3, FieldUnchanged
<1>6. activeCount' = Cardinality(Active(new))
  BY <1>2, <1>3, <1>4, SameActive
<1> QED
  BY <1>1, <1>2, <1>3, <1>4, <1>5, <1>6, StoreKeeps

\* A report of exited counts changes the total by the sum of the changes.
LEMMA ExitedKeeps ==
  ASSUME RegistryInv, NEW r \in Reports, UpdateExitedValidatorsCount(r) PROVE RegistryInv'
<1> DEFINE n == Len(op)
           new == [i \in DOMAIN op |-> IF i \in DOMAIN r THEN WithExited(op[i], r[i]) ELSE op[i]]
           d == [i \in DOMAIN op |-> new[i].exited - op[i].exited]
           s == [summary EXCEPT !.exited = @ + Sum(d)]
<1>1. /\ n \in Nat /\ DOMAIN op = 1..n
      /\ \A i \in 1..n : Good(op[i])
      /\ now \in Nat \ {0} /\ stuckPenaltyDelay \in Nat /\ summary \in Summary
  BY OpFunction DEF RegistryInv
<1>2. ASSUME NEW i \in 1..n
      PROVE  /\ Good(new[i])
             /\ \A f \in {"active", "total", "deposited"} : new[i][f] = op[i][f]
  <2>1. CASE i \in DOMAIN r
    <3>1. r[i] = op[i].exited \/ r[i] <= op[i].deposited - op[i].stuck
      BY <2>1 DEF UpdateExitedValidatorsCount, ExitedAccepted
    <3>2. r[i] \in Nat
      BY <2>1, ReportType
    <3>3. new[i] = WithExited(op[i], r[i])
      BY <1>1, <2>1
    <3> HIDE DEF new, n
    <3> QED
      BY <1>1, <3>1, <3>2, <3>3, WithExitedIsGood
  <2>2. CASE i \notin DOMAIN r
    BY <1>1, <2>2
  <2> QED
    BY <2>1, <2>2
<1>3. new \in [1..n -> OperatorState]
  <2>1. new = [i \in 1..n |-> new[i]]
    BY <1>1
  <2> HIDE DEF new, n
  <2> QED
    BY <1>2, <2>1 DEF Good
<1>4. /\ StoreOperators(new, s) /\ nonce' \in Nat
      /\ UNCHANGED <<now, activeCount, stuckPenaltyDelay>>
  BY DEF UpdateExitedValidatorsCount, RegistryInv, IncreaseNonce
<1> HIDE DEF new
<1>5. d \in [1..n -> Int] /\ \A k \in 1..n : d[k] = new[k].exited - op[k].exited
  <2>1. ASSUME NEW k \in 1..n PROVE new[k].exited \in Int /\ op[k].exited \in Int
    <3>1. new[k] \in OperatorState /\ op[k] \in OperatorState
      BY <1>1, <1>3 DEF Good
    <3> QED
      BY SMTT(20), <3>1 DEF OperatorState
  <2> QED
    BY <1>1, <2>1
<1>6. Sum(d) \in Int /\ Sum(Field(new, "exited")) = summary.exited + Sum(d)
  <2> HIDE DEF d
  <2>1. Sum(d) \in Int
    <3> HIDE DEF n
    <3> QED
      BY <1>1, <1>5, SumType
  <2>2. \A k \in 1..n : d[k] = new[k]["exited"] - op[k]["exited"]
    BY <1>5
  <2>3. Sum(Field(new, "exited")) = summary["exited"] + Sum(d)
    BY <1>3, <1>5, <2>2, FieldChanged
  <2> QED
    BY <2>1, <2>3
<1>7. /\ s \in Summary /\ s.exited = summary.exited + Sum(d)
      /\ \A f \in {"max", "total", "deposited"} : s[f] = summary[f]
  <2> HIDE DEF d
  <2> QED
    BY <1>1, <1>6 DEF Summary
<1>8. \A f \in {"exited", "total", "deposited"} : s[f] = Sum(Field(new, f))
  <2>1. \A f \in {"total", "deposited"} : summary[f] = Sum(Field(new, f))
    BY <1>2, <1>3, FieldUnchanged
  <2> HIDE DEF s, d
  <2> QED
    BY <1>6, <1>7, <2>1
<1>9. activeCount' = Cardinality(Active(new))
  BY <1>2, <1>3, <1>4, SameActive
<1> HIDE DEF s, d
<1> QED
  BY <1>1, <1>2, <1>3, <1>4, <1>7, <1>8, <1>9, StoreKeeps

\* The correction of both counts of one operator, in either direction.
LEMMA UnsafeKeeps ==
  ASSUME RegistryInv, NEW i \in DOMAIN op, NEW exited \in Nat, NEW stuck \in Nat,
         UnsafeUpdateValidatorsCount(i, exited, stuck)
  PROVE  RegistryInv'
<1> DEFINE q == WithStuck(op[i], stuck)
           o == WithExited(q, exited)
           e == summary.exited + exited - op[i].exited
           s == [summary EXCEPT !.exited = e]
<1>1. /\ op[i] \in OperatorState /\ Good(op[i])
      /\ now \in Nat \ {0} /\ stuckPenaltyDelay \in Nat /\ summary \in Summary
  BY DEF RegistryInv, Good
<1>2. StuckAccepted(op[i], stuck) /\ StoreOperator(i, o, s)
  BY DEF UnsafeUpdateValidatorsCount
<1>3. exited = q.exited \/ exited <= q.deposited - q.stuck
  <2> HIDE DEF q
  <2> QED
    BY DEF UnsafeUpdateValidatorsCount, ExitedAccepted, q
<1>4. /\ Good(q)
      /\ \A f \in {"active", "exited", "total", "deposited"} : q[f] = op[i][f]
  BY <1>1, <1>2, WithStuckIsGood
<1>5. /\ Good(o) /\ o.exited = exited
      /\ \A f \in {"active", "total", "deposited"} : o[f] = q[f]
  <2> HIDE DEF q
  <2> QED
    BY <1>1, <1>3, <1>4, WithExitedIsGood
<1>6. \A f \in {"exited", "total", "deposited"} : summary[f] \in Int /\ op[i][f] \in Int
  <2>1. \A f \in {"exited", "total", "deposited"} : summary[f] \in Int
    BY <1>1 DEF Summary
  <2>2. \A f \in {"exited", "total", "deposited"} : op[i][f] \in Int
    BY <1>1 DEF OperatorState
  <2> QED
    BY <2>1, <2>2
<1>7. /\ s \in Summary /\ s.exited = e
      /\ \A f \in {"max", "total", "deposited"} : s[f] = summary[f]
  <2>1. e \in Int
    BY <1>6
  <2> HIDE DEF e
  <2> QED
    BY <1>1, <2>1 DEF Summary
<1>8. \A f \in {"exited", "total", "deposited"} : s[f] = summary[f] + o[f] - op[i][f]
  <2> HIDE DEF o, q, s
  <2> QED
    BY <1>4, <1>5, <1>6, <1>7
<1>9. UNCHANGED <<now, activeCount, stuckPenaltyDelay>> /\ nonce' \in Nat
  BY DEF RegistryInv, UnsafeUpdateValidatorsCount, IncreaseNonce
<1>10. o.active = op[i].active
  <2> HIDE DEF o, q
  <2> QED
    BY <1>4, <1>5
<1> HIDE DEF o, s, q, e
<1> QED
  BY <1>2, <1>5, <1>7, <1>8, <1>9, <1>10, CountsKeep

\* The invalidation of the keys that are not deposited.
LEMMA InvalidateKeeps ==
  ASSUME RegistryInv, NEW from \in Int, NEW to \in Int,
         InvalidateReadyToDepositKeysRange(from, to)
  PROVE  RegistryInv'
<1> DEFINE n == Len(op)
           p(o) == [o EXCEPT !.total = o.deposited, !.vetted = o.deposited]
           trimmed(o) == IF o.total = o.deposited THEN o ELSE Refreshed(p(o))
           new == [i \in DOMAIN op |-> IF i \in from..to THEN trimmed(op[i]) ELSE op[i]]
           d == [i \in DOMAIN op |-> op[i].total - new[i].total]
           s == [summary EXCEPT !.total = @ - Sum(d)]
<1>1. /\ n \in Nat /\ DOMAIN op = 1..n
      /\ \A i \in 1..n : Good(op[i])
      /\ now \in Nat \ {0} /\ stuckPenaltyDelay \in Nat /\ summary \in Summary
  BY OpFunction DEF RegistryInv
<1>2. ASSUME NEW i \in 1..n
      PROVE  /\ Good(new[i])
             /\ \A f \in {"active", "exited", "deposited"} : new[i][f] = op[i][f]
  <2> DEFINE o == op[i]
  <2>1. Good(o)
    BY <1>1
  <2>2. CASE i \in from..to /\ o.total # o.deposited
    <3>1. new[i] = Refreshed(p(o))
      BY <1>1, <2>2
    <3>2. /\ p(o) \in OperatorState /\ p(o).total = o.deposited /\ p(o).vetted = o.deposited
          /\ \A f \in {"active", "exited", "deposited", "stuck"} : p(o)[f] = o[f]
      <4> HIDE DEF o
      <4> QED
        BY <2>1 DEF Good, OperatorState
    <3> HIDE DEF o, p, new
    <3>3. Ordered(p(o))
      BY <2>1, <3>2 DEF Good, Ordered, OperatorState
    <3>4. /\ Good(Refreshed(p(o)))
          /\ \A f \in {"active", "exited", "total", "deposited"} : Refreshed(p(o))[f] = p(o)[f]
      BY <1>1, <3>2, <3>3, RefreshedIsGood
    <3> QED
      BY <3>1, <3>2, <3>4 DEF o
  <2>3. CASE ~(i \in from..to /\ o.total # o.deposited)
    <3>1. new[i] = o
      BY <1>1, <2>3
    <3> QED
      BY <2>1, <3>1
  <2> QED
    BY <2>2, <2>3
<1>3. new \in [1..n -> OperatorState]
  <2>1. new = [i \in 1..n |-> new[i]]
    BY <1>1
  <2> HIDE DEF new, n
  <2> QED
    BY <1>2, <2>1 DEF Good
<1>4. /\ StoreOperators(new, s) /\ nonce' \in Nat
      /\ UNCHANGED <<now, activeCount, stuckPenaltyDelay>>
  <2>1. StoreOperators(new, s)
    BY Zenon DEF InvalidateReadyToDepositKeysRange
  <2>2. nonce' = nonce + 1 /\ UNCHANGED <<now, activeCount, stuckPenaltyDelay>>
    BY Zenon DEF InvalidateReadyToDepositKeysRange, IncreaseNonce
  <2> HIDE DEF new, s
  <2> QED
    BY <2>1, <2>2 DEF RegistryInv
<1> HIDE DEF new
<1>5. d \in [1..n -> Int] /\ \A k \in 1..n : d[k] = op[k].total - new[k].total
  <2>1. ASSUME NEW k \in 1..n PROVE new[k].total \in Int /\ op[k].total \in Int
    <3>1. new[k] \in OperatorState /\ op[k] \in OperatorState
      BY <1>1, <1>3 DEF Good
    <3> QED
      BY SMTT(20), <3>1 DEF OperatorState
  <2> QED
    BY <1>1, <2>1
<1>6. Sum(d) \in Int /\ Sum(Field(new, "total")) = summary.total - Sum(d)
  <2> HIDE DEF d
  <2>1. Sum(d) \in Int
    <3> HIDE DEF n
    <3> QED
      BY <1>1, <1>5, SumType
  <2>2. \A k \in 1..n : d[k] = op[k]["total"] - new[k]["total"]
    BY <1>5
  <2>3. Sum(Field(new, "total")) = summary["total"] - Sum(d)
    BY <1>3, <1>5, <2>2, FieldChanged
  <2> QED
    BY <2>1, <2>3
<1>7. /\ s \in Summary /\ s.total = summary.total - Sum(d)
      /\ \A f \in {"max", "exited", "deposited"} : s[f] = summary[f]
  <2> HIDE DEF d
  <2> QED
    BY <1>1, <1>6 DEF Summary
<1>8. \A f \in {"exited", "total", "deposited"} : s[f] = Sum(Field(new, f))
  <2>1. \A f \in {"exited", "deposited"} : summary[f] = Sum(Field(new, f))
    BY <1>2, <1>3, FieldUnchanged
  <2> HIDE DEF s, d
  <2> QED
    BY <1>6, <1>7, <2>1
<1>9. activeCount' = Cardinality(Active(new))
  BY <1>2, <1>3, <1>4, SameActive
<1> HIDE DEF s, d
<1> QED
  BY <1>1, <1>2, <1>3, <1>4, <1>7, <1>8, <1>9, StoreKeeps

\* The allocation in a deposit of m keys: only keys ready to deposit.
LEMMA KeysAllocated ==
  ASSUME RegistryInv, NEW m \in Nat
  PROVE  LET a == AllocatedKeys(m)
             b == [i \in DOMAIN op |-> op[i].deposited - op[i].exited]
         IN /\ a.buckets \in [1..Len(op) -> Nat] /\ b \in [1..Len(op) -> Nat]
            /\ \A i \in 1..Len(op) :
                 /\ b[i] <= a.buckets[i]
                 /\ a.buckets[i] = b[i] \/ a.buckets[i] <= op[i].max - op[i].exited
            /\ Sum(a.buckets) = Sum(b) + a.allocated
<1> DEFINE n == Len(op)
           b == [i \in DOMAIN op |-> op[i].deposited - op[i].exited]
           c == [i \in DOMAIN op |-> op[i].max - op[i].exited]
           a == Allocate(b, c, m)
<1>1. n \in Nat /\ DOMAIN op = 1..n /\ \A i \in 1..n : Good(op[i])
  BY OpFunction DEF RegistryInv
<1>2. ASSUME NEW i \in 1..n
      PROVE  op[i].deposited - op[i].exited \in Nat /\ op[i].max - op[i].exited \in Nat
  <2>1. op[i] \in OperatorState /\ Ordered(op[i]) /\ op[i].max = Limit(op[i])
    BY <1>1 DEF Good
  <2>2. op[i].deposited <= op[i].max /\ op[i].exited + op[i].stuck <= op[i].deposited
    BY <2>1, LimitIsBetween DEF Ordered
  <2> QED
    BY <2>1, <2>2 DEF OperatorState
<1>3. b \in [1..n -> Nat] /\ c \in [1..n -> Nat]
  BY <1>1, <1>2
<1>4. /\ a \in [buckets : [1..n -> Nat], allocated : 0..m]
      /\ Placed(a, b, c)
  <2> HIDE DEF b, c, n
  <2> QED
    BY <1>1, <1>3, AllocatePlaces
<1>5. DOMAIN b = 1..n /\ \A i \in 1..n : c[i] = op[i].max - op[i].exited
  BY <1>1
<1>6. AllocatedKeys(m) = a
  BY DEF AllocatedKeys
<1> HIDE DEF a, b, c
<1> QED
  BY <1>3, <1>4, <1>5, <1>6 DEF Placed, b

\* A deposit increases the counts of operators that have keys ready to
\* deposit, and of no others.
LEMMA DepositEach ==
  ASSUME RegistryInv, NEW m \in Nat, NEW i \in DOMAIN op,
         NEW a, a = AllocatedKeys(m), NEW d, d = op[i].exited + a.buckets[i]
  PROVE  /\ d \in Nat /\ op[i].deposited <= d
         /\ d = op[i].deposited \/ d <= op[i].max
         /\ Good(WithDeposited(a)[i]) /\ WithDeposited(a)[i].deposited = d
         /\ \A f \in {"active", "exited", "total", "refunded"} : WithDeposited(a)[i][f] = op[i][f]
<1> DEFINE p == [op[i] EXCEPT !.deposited = d]
<1>1. i \in 1..Len(op) /\ Good(op[i]) /\ op[i] \in OperatorState /\ now \in Nat \ {0}
  BY OpFunction DEF RegistryInv, Good
<1>2. /\ a.buckets[i] \in Nat
      /\ op[i].deposited - op[i].exited <= a.buckets[i]
      /\ \/ a.buckets[i] = op[i].deposited - op[i].exited
         \/ a.buckets[i] <= op[i].max - op[i].exited
  <2> DEFINE bs == AllocatedKeys(m).buckets
  <2>1. /\ bs \in [1..Len(op) -> Nat]
        /\ op[i].deposited - op[i].exited <= bs[i]
        /\ bs[i] = op[i].deposited - op[i].exited \/ bs[i] <= op[i].max - op[i].exited
    BY <1>1, KeysAllocated
  <2> QED
    BY <1>1, <2>1
<1>3. d \in Nat /\ op[i].deposited <= d /\ (d = op[i].deposited \/ d <= op[i].max)
  <2> DEFINE e == op[i].exited
             c == op[i].deposited
             x == op[i].max
             b == a.buckets[i]
  <2>1. e \in Nat /\ c \in Nat /\ x \in Nat
    BY <1>1 DEF OperatorState
  <2>2. b \in Nat /\ c - e <= b /\ (b = c - e \/ b <= x - e)
    BY <1>2
  <2>3. d = e + b
    OBVIOUS
  <2> HIDE DEF e, c, x, b
  <2>4. d \in Nat /\ c <= d /\ (d = c \/ d <= x)
    BY <2>1, <2>2, <2>3
  <2> QED
    BY <2>4 DEF c, x
<1>4. WithDeposited(a)[i] = IF d = op[i].deposited THEN op[i] ELSE Refreshed(p)
  BY DEF WithDeposited
<1>5. CASE d = op[i].deposited
  <2>1. WithDeposited(a)[i] = op[i]
    BY <1>4, <1>5
  <2> QED
    BY <1>1, <1>3, <1>5, <2>1
<1>6. CASE d # op[i].deposited
  <2>1. /\ p \in OperatorState /\ p.deposited = d
        /\ \A f \in {"active", "vetted", "exited", "total", "stuck", "refunded"} : p[f] = op[i][f]
    BY <1>1, <1>3 DEF OperatorState
  <2>2. Ordered(p)
    <3>1. op[i].max <= op[i].vetted /\ op[i].max \in Nat
      BY <1>1, LimitIsBetween DEF Good
    <3> HIDE DEF p
    <3> QED
      BY <1>1, <1>3, <1>6, <2>1, <3>1 DEF Good, Ordered, OperatorState
  <2>3. WithDeposited(a)[i] = Refreshed(p)
    BY <1>4, <1>6
  <2>4. /\ Good(Refreshed(p))
        /\ \A f \in {"active", "exited", "total", "deposited", "refunded"} : Refreshed(p)[f] = p[f]
    <3> HIDE DEF p
    <3> QED
      BY <1>1, <2>1, <2>2, RefreshedIsGood
  <2> HIDE DEF p
  <2> QED
    BY <1>3, <2>1, <2>3, <2>4
<1> QED
  BY <1>5, <1>6

\* A deposit changes the total by the number of keys asked for.
LEMMA ObtainKeeps ==
  ASSUME RegistryInv, NEW m \in Nat, ObtainDepositData(m) PROVE RegistryInv'
<1> DEFINE n == Len(op)
           a == AllocatedKeys(m)
           b == [i \in DOMAIN op |-> op[i].deposited - op[i].exited]
           new == WithDeposited(a)
           d == [i \in 1..n |-> new[i].deposited - op[i].deposited]
           s == [summary EXCEPT !.deposited = @ + m]
<1>1. /\ n \in Nat /\ DOMAIN op = 1..n /\ op \in [1..n -> OperatorState]
      /\ \A i \in 1..n : Good(op[i])
      /\ now \in Nat \ {0} /\ stuckPenaltyDelay \in Nat /\ summary \in Summary
  BY OpFunction DEF RegistryInv
<1>2. ASSUME NEW i \in 1..n
      PROVE  /\ Good(new[i]) /\ new[i].deposited = op[i].exited + a.buckets[i]
             /\ \A f \in {"active", "exited", "total"} : new[i][f] = op[i][f]
  <2>1. i \in DOMAIN op
    BY <1>1
  <2> HIDE DEF n, a
  <2> QED
    BY <2>1, DepositEach DEF a
<1>3. new \in [1..n -> OperatorState]
  <2>1. new = [i \in 1..n |-> new[i]]
    BY <1>1 DEF WithDeposited
  <2> HIDE DEF new, n
  <2> QED
    BY <1>2, <2>1 DEF Good
<1>4. a.allocated = m /\ StoreOperators(new, s) /\ nonce' = nonce + 1
      /\ UNCHANGED <<now, activeCount, stuckPenaltyDelay>>
  BY Zenon DEF ObtainDepositData, IncreaseNonce
<1>5. /\ a.buckets \in [1..n -> Nat] /\ b \in [1..n -> Nat]
      /\ Sum(a.buckets) = Sum(b) + a.allocated
  BY KeysAllocated
<1>6. ASSUME NEW k \in 1..n
      PROVE  d[k] \in Int /\ d[k] = a.buckets[k] - b[k]
  <2>1. new[k].deposited = op[k].exited + a.buckets[k]
    BY <1>2
  <2>2. op[k].exited \in Int /\ op[k].deposited \in Int
    <3>1. op[k] \in OperatorState
      BY <1>1 DEF Good
    <3> QED
      BY <3>1 DEF OperatorState
  <2>3. a.buckets[k] \in Int
    <3> DEFINE c == a.buckets
    <3>1. c \in [1..n -> Nat]
      BY <1>5
    <3> HIDE DEF c, n
    <3>2. c[k] \in Nat
      BY <3>1
    <3> QED
      BY <3>2 DEF c
  <2>4. b[k] = op[k].deposited - op[k].exited
    BY <1>1
  <2>5. d[k] = new[k].deposited - op[k].deposited
    OBVIOUS
  <2> HIDE DEF a, b, d, new, n
  <2> QED
    BY <2>1, <2>2, <2>3, <2>4, <2>5
<1>7. d \in [1..n -> Int]
  <2>1. d = [k \in 1..n |-> d[k]]
    OBVIOUS
  <2> HIDE DEF d, n
  <2> QED
    BY <1>6, <2>1
<1>8. Sum(d) = m
  <2> DEFINE c == a.buckets
  <2>1. c \in [1..n -> Int] /\ b \in [1..n -> Int] /\ d \in [1..n -> Int]
    <3> HIDE DEF a, b, d, n
    <3> QED
      BY <1>5, <1>7
  <2>2. \A k \in 1..n : d[k] = c[k] - b[k]
    BY <1>6
  <2>3. Sum(c) = Sum(b) + m
    BY <1>4, <1>5
  <2> HIDE DEF a, b, c, d, n
  <2>4. Sum(c) = Sum(b) + Sum(d)
    BY <1>1, <2>1, <2>2, SumDifference
  <2>5. Sum(b) \in Int /\ Sum(d) \in Int
    BY <1>1, <2>1, SumType
  <2> QED
    BY <2>3, <2>4, <2>5
<1>9. Sum(Field(new, "deposited")) = summary.deposited + m
  <2>1. \A k \in 1..n : d[k] = new[k]["deposited"] - op[k]["deposited"]
    OBVIOUS
  <2> HIDE DEF new, d
  <2>2. Sum(Field(new, "deposited")) = summary["deposited"] + Sum(d)
    BY <1>3, <1>7, <2>1, FieldChanged
  <2> QED
    BY <1>8, <2>2
<1>10. /\ s \in Summary /\ s.deposited = summary.deposited + m
       /\ \A f \in {"max", "exited", "total"} : s[f] = summary[f]
  BY <1>1 DEF Summary
<1> HIDE DEF new
<1>11. \A f \in {"exited", "total", "deposited"} : s[f] = Sum(Field(new, f))
  <2>1. \A f \in {"exited", "total"} : summary[f] = Sum(Field(new, f))
    BY <1>2, <1>3, FieldUnchanged
  <2> HIDE DEF s
  <2> QED
    BY <1>9, <1>10, <2>1
<1>12. activeCount' = Cardinality(Active(new))
  BY <1>2, <1>3, <1>4, SameActive
<1>13. nonce' \in Nat
  BY <1>4 DEF RegistryInv
<1> HIDE DEF s, a
<1> QED
  BY <1>1, <1>2, <1>3, <1>4, <1>10, <1>11, <1>12, <1>13, StoreKeeps

\* Every step keeps the invariant.
LEMMA NextRegistryInv == ASSUME RegistryInv, [Next]_vars PROVE RegistryInv'
<1>0. \A i \in DOMAIN op : i \in Int /\ Counts(i) \subseteq Nat
  BY OpFunction, RegistryAssumption DEF RegistryInv, Counts
<1>1. CASE Tick
  BY <1>1, TickKeeps
<1>2. CASE AddNodeOperator
  BY <1>2, AddOperatorKeeps
<1>3. ASSUME NEW i \in DOMAIN op,
             \/ ActivateNodeOperator(i)
             \/ DeactivateNodeOperator(i)
             \/ ClearNodeOperatorPenalty(i)
             \/ \E n \in Counts(i) : \/ SetNodeOperatorStakingLimit(i, n)
                                     \/ UpdateRefundedValidatorsCount(i, n)
                                     \/ AddSigningKeys(i, n)
             \/ \E t \in Targets : UpdateTargetValidatorsLimits(i, TRUE, t)
             \/ UpdateTargetValidatorsLimits(i, FALSE, 0)
      PROVE  RegistryInv'
  <2>1. Targets \subseteq Nat
    BY RegistryAssumption
  <2> QED
    BY <1>0, <1>3, <2>1, ActivateKeeps, DeactivateKeeps, LimitsKeep, AddKeysKeeps
<1>4. ASSUME NEW i \in DOMAIN op, NEW n \in Counts(i), NEW m \in Counts(i),
             UnsafeUpdateValidatorsCount(i, m, n) \/ RemoveSigningKeys(i, m, n)
      PROVE  RegistryInv'
  BY <1>0, <1>4, UnsafeKeeps, RemoveKeysKeeps
<1>5. ASSUME NEW i \in DOMAIN op, NEW j \in i..Len(op), InvalidateReadyToDepositKeysRange(i, j)
      PROVE  RegistryInv'
  BY <1>0, <1>5, InvalidateKeeps
<1>6. CASE OnWithdrawalCredentialsChanged
  <2> DEFINE one == 1
  <2>1. one \in Int /\ Len(op) \in Int
    BY OpFunction DEF RegistryInv
  <2>2. InvalidateReadyToDepositKeysRange(one, Len(op))
    BY <1>6 DEF OnWithdrawalCredentialsChanged
  <2> HIDE DEF one
  <2> QED
    BY <2>1, <2>2, InvalidateKeeps
<1>7. ASSUME NEW d \in 0..MAX_STUCK_PENALTY_DELAY, SetStuckPenaltyDelay(d) PROVE RegistryInv'
  BY <1>7, DelayKeeps
<1>8. ASSUME NEW r \in Reports, UpdateStuckValidatorsCount(r) \/ UpdateExitedValidatorsCount(r)
      PROVE  RegistryInv'
  BY <1>8, StuckKeeps, ExitedKeeps
<1>9. ASSUME NEW n \in 0..Sum(MaxKeys), ObtainDepositData(n) PROVE RegistryInv'
  BY <1>9, ObtainKeeps
<1>10. CASE UNCHANGED vars
  BY <1>10 DEF vars, RegistryInv, Good, Ordered, Limit, Active, SummaryIsSum, Larger, Smaller
<1> QED
  BY <1>1, <1>2, <1>3, <1>4, <1>5, <1>6, <1>7, <1>8, <1>9, <1>10, Zenon DEF Next

\* RegistryInv is an invariant of the registry.
LEMMA RegistryInvariant == Spec => []RegistryInv
<1>1. Init => RegistryInv
  BY InitRegistryInv
<1>2. RegistryInv /\ [Next]_vars => RegistryInv'
  BY NextRegistryInv
<1> QED
  BY <1>1, <1>2, PTL DEF Spec

-------------------------------------------------------------------------------
\* Results

\* Every variable keeps its type; in particular nothing underflows that is
\* stored unsigned.
THEOREM RegistryTypeCorrect == Spec => []TypeOK
<1>1. RegistryInv => TypeOK
  <2> SUFFICES ASSUME RegistryInv PROVE TypeOK
    OBVIOUS
  <2>1. Active(op) \subseteq 1..Len(op) /\ IsFiniteSet(1..Len(op))
    BY OpFunction, FS_Interval DEF Active, RegistryInv
  <2>2. Cardinality(Active(op)) \in Nat
    BY <2>1, FS_Subset, FS_CardinalityType
  <2> QED
    BY <2>2 DEF RegistryInv, TypeOK
<1> QED
  BY <1>1, RegistryInvariant, PTL

\* exited + stuck <= deposited <= max <= vetted <= total, for every operator.
THEOREM KeyCountsAlwaysOrdered == Spec => []KeyCountsOrdered
<1>1. RegistryInv => KeyCountsOrdered
  BY LimitIsBetween DEF RegistryInv, Good, Ordered, KeyCountsOrdered
<1> QED
  BY <1>1, RegistryInvariant, PTL

\* The totals kept by differences are the sums over the operators.
THEOREM SummaryAlwaysSum == Spec => []SummaryIsSum
<1>1. RegistryInv => SummaryIsSum
  BY DEF RegistryInv
<1> QED
  BY <1>1, RegistryInvariant, PTL

\* The cached limits are those the operators' counts give now.
THEOREM MaxAlwaysCurrent == Spec => []MaxIsCurrent
<1>1. RegistryInv => MaxIsCurrent
  BY MaxOfIsLimit DEF RegistryInv, Good, MaxIsCurrent
<1> QED
  BY <1>1, RegistryInvariant, PTL

\* The arrays sized by the number of active operators are long enough.
THEOREM ArraysLongEnough == Spec => []ActiveCountBoundsArrays
<1>1. RegistryInv => ActiveCountBoundsArrays
  <2> SUFFICES ASSUME RegistryInv PROVE ActiveCountBoundsArrays
    OBVIOUS
  <2> DEFINE ready == {i \in DOMAIN op : op[i].max # op[i].deposited}
  <2>1. Active(op) \subseteq 1..Len(op) /\ IsFiniteSet(1..Len(op))
    BY OpFunction, FS_Interval DEF Active, RegistryInv
  <2>2. IsFiniteSet(Active(op))
    BY <2>1, FS_Subset
  <2>3. ASSUME NEW i \in ready PROVE i \in Active(op)
    <3>1. Good(op[i])
      BY DEF RegistryInv
    <3>2. op[i].deposited <= op[i].max /\ op[i].max <= op[i].vetted /\ op[i].max \in Nat
      BY <3>1, LimitIsBetween DEF Good
    <3>3. op[i].vetted # op[i].deposited
      BY <3>1, <3>2 DEF Good, OperatorState
    <3> QED
      BY <3>1, <3>3 DEF Good, Ordered, Active
  <2>4. ready \subseteq Active(op)
    <3> HIDE DEF ready
    <3> QED
      BY <2>3
  <2>5. Cardinality(ready) <= Cardinality(Active(op))
    <3> HIDE DEF ready
    <3> QED
      BY <2>2, <2>4, FS_Subset
  <2> QED
    BY <2>5 DEF RegistryInv, ActiveCountBoundsArrays, Active
<1> QED
  BY <1>1, RegistryInvariant, PTL

\* Together: in any order of operations and for any number of operators and keys
\* the counts, totals and limits of the registry agree.
THEOREM CountsAlwaysConsistent == Spec => []CountsConsistent
<1>1. /\ Spec => []KeyCountsOrdered
      /\ Spec => []SummaryIsSum
      /\ Spec => []MaxIsCurrent
      /\ Spec => []ActiveCountBoundsArrays
  BY KeyCountsAlwaysOrdered, SummaryAlwaysSum, MaxAlwaysCurrent, ArraysLongEnough
<1>2. KeyCountsOrdered /\ SummaryIsSum /\ MaxIsCurrent /\ ActiveCountBoundsArrays
        => CountsConsistent
  BY DEF CountsConsistent
<1> QED
  BY <1>1, <1>2, PTL

\* A report of counts that are possible now does not revert.
THEOREM TrueReportsAccepted == Spec => []TrueReportAccepted
<1>1. RegistryInv => TrueReportAccepted
  <2> SUFFICES ASSUME RegistryInv,
                      NEW i \in DOMAIN op, NEW exited \in op[i].exited..op[i].deposited,
                      NEW stuck \in 0..op[i].deposited - exited
               PROVE  /\ StuckAccepted(op[i], stuck)
                      /\ ExitedAccepted(WithStuck(op[i], stuck), exited, FALSE)
    BY DEF TrueReportAccepted
  <2>1. /\ Good(op[i]) /\ op[i] \in OperatorState
        /\ now \in Nat \ {0} /\ stuckPenaltyDelay \in Nat
    BY DEF RegistryInv, Good
  <2>2. /\ exited \in Nat /\ stuck \in Nat
        /\ op[i].exited <= exited /\ exited <= op[i].deposited
        /\ stuck <= op[i].deposited - exited
    BY <2>1 DEF OperatorState
  <2>3. StuckAccepted(op[i], stuck)
    BY <2>1, <2>2 DEF StuckAccepted, OperatorState
  <2> DEFINE q == WithStuck(op[i], stuck)
  <2>4. q.exited = op[i].exited /\ q.deposited = op[i].deposited /\ q.stuck = stuck
    BY <2>1, <2>2, <2>3, WithStuckIsGood
  <2>5. exited = q.exited \/ (exited > q.exited /\ exited <= q.deposited - q.stuck)
    <3> HIDE DEF q
    <3> QED
      BY <2>1, <2>2, <2>4 DEF OperatorState
  <2>6. ExitedAccepted(q, exited, FALSE)
    <3> HIDE DEF q
    <3> QED
      BY <2>5 DEF ExitedAccepted
  <2> QED
    BY <2>3, <2>6
<1> QED
  BY <1>1, RegistryInvariant, PTL

\* Refreshing an operator changes nothing but its limit, whatever it holds.
LEMMA RefreshedDeposited ==
  ASSUME NEW o, DOMAIN o = DOMAIN NewOperator
  PROVE  Refreshed(o).deposited = o.deposited /\ DOMAIN Refreshed(o) = DOMAIN o
BY DEF Refreshed, NewOperator

SameDeposits == \A k \in DOMAIN op : op'[k].deposited = op[k].deposited

\* Storing an operator with the same deposited count deposits nothing.
LEMMA StoreSameDeposits ==
  ASSUME NEW i \in DOMAIN op, NEW o, o.deposited = op[i].deposited, NEW s,
         StoreOperator(i, o, s) \/ op' = [op EXCEPT ![i] = o]
  PROVE  SameDeposits
BY DEF StoreOperator, StoreOperators, SameDeposits

\* One operator at a time: none of these steps deposits.
LEMMA SingleStepsDepositNothing ==
  ASSUME RegistryInv, NEW i \in DOMAIN op, NEW n, NEW m, NEW b,
         \/ ActivateNodeOperator(i)
         \/ DeactivateNodeOperator(i)
         \/ ClearNodeOperatorPenalty(i)
         \/ SetNodeOperatorStakingLimit(i, n)
         \/ UpdateRefundedValidatorsCount(i, n)
         \/ AddSigningKeys(i, n)
         \/ UnsafeUpdateValidatorsCount(i, m, n)
         \/ RemoveSigningKeys(i, m, n)
         \/ UpdateTargetValidatorsLimits(i, b, n)
  PROVE  SameDeposits
<1>1. DOMAIN op[i] = DOMAIN NewOperator
  BY DEF RegistryInv, Good, OperatorState, NewOperator
<1>2. CASE ActivateNodeOperator(i)
  <2>1. op' = [op EXCEPT ![i] = [op[i] EXCEPT !.active = TRUE]]
    BY <1>2 DEF ActivateNodeOperator
  <2>2. [op[i] EXCEPT !.active = TRUE].deposited = op[i].deposited
    BY <1>1 DEF NewOperator
  <2> QED
    BY <2>1, <2>2 DEF SameDeposits
<1>3. CASE DeactivateNodeOperator(i)
  <2> DEFINE p == [op[i] EXCEPT !.active = FALSE, !.vetted = Smaller(@, op[i].deposited)]
             o == IF p.vetted # op[i].vetted THEN Refreshed(p) ELSE p
  <2>1. DOMAIN p = DOMAIN NewOperator /\ p.deposited = op[i].deposited
    BY <1>1 DEF NewOperator
  <2>2. o.deposited = p.deposited
    <3> HIDE DEF p
    <3> QED
      BY <2>1, RefreshedDeposited
  <2>3. StoreOperator(i, o, summary)
    BY Zenon, <1>3 DEF DeactivateNodeOperator
  <2> HIDE DEF o, p
  <2> QED
    BY <2>1, <2>2, <2>3, StoreSameDeposits
<1>4. CASE ClearNodeOperatorPenalty(i)
  <2> DEFINE p == [op[i] EXCEPT !.penaltyEnd = 0]
  <2>1. DOMAIN p = DOMAIN NewOperator /\ p.deposited = op[i].deposited
    BY <1>1 DEF NewOperator
  <2>2. StoreOperator(i, Refreshed(p), summary)
    BY Zenon, <1>4 DEF ClearNodeOperatorPenalty
  <2> HIDE DEF p
  <2> QED
    BY <2>1, <2>2, RefreshedDeposited, StoreSameDeposits
<1>5. CASE SetNodeOperatorStakingLimit(i, n)
  <2> DEFINE v == Smaller(op[i].total, Larger(n, op[i].deposited))
             p == [op[i] EXCEPT !.vetted = v]
  <2>1. DOMAIN p = DOMAIN NewOperator /\ p.deposited = op[i].deposited
    BY <1>1 DEF NewOperator
  <2>2. StoreOperator(i, Refreshed(p), summary)
    BY Zenon, <1>5 DEF SetNodeOperatorStakingLimit
  <2> HIDE DEF p
  <2> QED
    BY <2>1, <2>2, RefreshedDeposited, StoreSameDeposits
<1>6. CASE UpdateRefundedValidatorsCount(i, n)
  <2> DEFINE p == [op[i] EXCEPT !.refunded = n,
                                !.penaltyEnd = PenaltyEndAfter(op[i], op[i].stuck, n)]
  <2>1. DOMAIN p = DOMAIN NewOperator /\ p.deposited = op[i].deposited
    BY <1>1 DEF NewOperator
  <2>2. StoreOperator(i, Refreshed(p), summary)
    BY Zenon, <1>6 DEF UpdateRefundedValidatorsCount
  <2> HIDE DEF p
  <2> QED
    BY <2>1, <2>2, RefreshedDeposited, StoreSameDeposits
<1>7. CASE AddSigningKeys(i, n)
  <2>1. op' = [op EXCEPT ![i] = [op[i] EXCEPT !.total = @ + n]]
    BY <1>7 DEF AddSigningKeys
  <2>2. [op[i] EXCEPT !.total = @ + n].deposited = op[i].deposited
    BY <1>1 DEF NewOperator
  <2> QED
    BY <2>1, <2>2 DEF SameDeposits
<1>8. CASE UnsafeUpdateValidatorsCount(i, m, n)
  <2> DEFINE q == WithStuck(op[i], n)
             o == WithExited(q, m)
             p == [op[i] EXCEPT !.stuck = n,
                                 !.penaltyEnd = PenaltyEndAfter(op[i], n, op[i].refunded)]
             r == [q EXCEPT !.exited = m]
  <2>1. DOMAIN p = DOMAIN NewOperator /\ p.deposited = op[i].deposited
    BY <1>1 DEF NewOperator
  <2>2. q = op[i] \/ q = Refreshed(p)
    BY DEF WithStuck
  <2>3. DOMAIN q = DOMAIN NewOperator /\ q.deposited = op[i].deposited
    <3> HIDE DEF p, q
    <3> QED
      BY <1>1, <2>1, <2>2, RefreshedDeposited
  <2>4. DOMAIN r = DOMAIN NewOperator /\ r.deposited = op[i].deposited
    <3> HIDE DEF q
    <3> QED
      BY <2>3 DEF NewOperator
  <2>5. o = q \/ o = Refreshed(r)
    <3> HIDE DEF q
    <3> QED
      BY DEF WithExited
  <2>6. o.deposited = op[i].deposited
    <3> HIDE DEF q, r, o
    <3> QED
      BY <2>3, <2>4, <2>5, RefreshedDeposited
  <2>7. \E s : StoreOperator(i, o, s)
    BY Zenon, <1>8 DEF UnsafeUpdateValidatorsCount
  <2> HIDE DEF o
  <2> QED
    BY <2>6, <2>7, StoreSameDeposits
<1>9. CASE RemoveSigningKeys(i, m, n)
  <2> DEFINE p == [op[i] EXCEPT !.total = @ - n, !.vetted = Smaller(@, m)]
  <2>1. DOMAIN p = DOMAIN NewOperator /\ p.deposited = op[i].deposited
    BY <1>1 DEF NewOperator
  <2>2. \E s : StoreOperator(i, Refreshed(p), s)
    BY Zenon, <1>9 DEF RemoveSigningKeys
  <2> HIDE DEF p
  <2> QED
    BY <2>1, <2>2, RefreshedDeposited, StoreSameDeposits
<1>10. CASE UpdateTargetValidatorsLimits(i, b, n)
  <2> DEFINE p == [op[i] EXCEPT !.limited = b, !.target = IF b THEN n ELSE 0]
  <2>1. DOMAIN p = DOMAIN NewOperator /\ p.deposited = op[i].deposited
    BY <1>1 DEF NewOperator
  <2>2. StoreOperator(i, Refreshed(p), summary)
    BY Zenon, <1>10 DEF UpdateTargetValidatorsLimits
  <2> HIDE DEF p
  <2> QED
    BY <2>1, <2>2, RefreshedDeposited, StoreSameDeposits
<1> QED
  BY <1>2, <1>3, <1>4, <1>5, <1>6, <1>7, <1>8, <1>9, <1>10

\* Several operators at a time.
LEMMA ReportsDepositNothing ==
  ASSUME RegistryInv, NEW r \in Reports,
         UpdateStuckValidatorsCount(r) \/ UpdateExitedValidatorsCount(r)
  PROVE  SameDeposits
<1>1. /\ DOMAIN op = 1..Len(op) /\ \A k \in DOMAIN op : Good(op[k])
      /\ now \in Nat \ {0} /\ stuckPenaltyDelay \in Nat
  BY OpFunction DEF RegistryInv
<1>2. \A k \in DOMAIN r : r[k] \in Nat
  BY ReportType
<1>3. CASE UpdateStuckValidatorsCount(r)
  <2>1. op' = [k \in DOMAIN op |-> IF k \in DOMAIN r THEN WithStuck(op[k], r[k]) ELSE op[k]]
    BY Zenon, <1>3 DEF UpdateStuckValidatorsCount, StoreOperators
  <2>2. ASSUME NEW k \in DOMAIN op, k \in DOMAIN r
        PROVE  WithStuck(op[k], r[k]).deposited = op[k].deposited
    <3>1. StuckAccepted(op[k], r[k])
      BY <1>3, <2>2 DEF UpdateStuckValidatorsCount
    <3> QED
      BY <1>1, <1>2, <2>2, <3>1, WithStuckIsGood
  <2> QED
    BY <2>1, <2>2 DEF SameDeposits
<1>4. CASE UpdateExitedValidatorsCount(r)
  <2>1. op' = [k \in DOMAIN op |-> IF k \in DOMAIN r THEN WithExited(op[k], r[k]) ELSE op[k]]
    BY Zenon, <1>4 DEF UpdateExitedValidatorsCount, StoreOperators
  <2>2. ASSUME NEW k \in DOMAIN op, k \in DOMAIN r
        PROVE  WithExited(op[k], r[k]).deposited = op[k].deposited
    <3>1. r[k] = op[k].exited \/ r[k] <= op[k].deposited - op[k].stuck
      BY <1>4, <2>2 DEF UpdateExitedValidatorsCount, ExitedAccepted
    <3> QED
      BY <1>1, <1>2, <2>2, <3>1, WithExitedIsGood
  <2> QED
    BY <2>1, <2>2 DEF SameDeposits
<1> QED
  BY <1>3, <1>4

\* Nor does an invalidation.
LEMMA InvalidationDepositsNothing ==
  ASSUME RegistryInv, NEW from, NEW to, InvalidateReadyToDepositKeysRange(from, to)
  PROVE  SameDeposits
<1> DEFINE p(o) == [o EXCEPT !.total = o.deposited, !.vetted = o.deposited]
           trimmed(o) == IF o.total = o.deposited THEN o ELSE Refreshed(p(o))
<1>1. op' = [k \in DOMAIN op |-> IF k \in from..to THEN trimmed(op[k]) ELSE op[k]]
  BY Zenon DEF InvalidateReadyToDepositKeysRange, StoreOperators
<1>2. ASSUME NEW k \in DOMAIN op PROVE trimmed(op[k]).deposited = op[k].deposited
  <2>1. DOMAIN op[k] = DOMAIN NewOperator
    BY DEF RegistryInv, Good, OperatorState, NewOperator
  <2>2. DOMAIN p(op[k]) = DOMAIN NewOperator /\ p(op[k]).deposited = op[k].deposited
    BY <2>1 DEF NewOperator
  <2>3. Refreshed(p(op[k])).deposited = op[k].deposited
    <3> HIDE DEF p
    <3> QED
      BY <2>2, RefreshedDeposited
  <2> HIDE DEF p
  <2> QED
    BY <2>3
<1> HIDE DEF trimmed
<1> QED
  BY <1>1, <1>2 DEF SameDeposits

\* So the deposited counts change in obtainDepositData only.
LEMMA OnlyDepositsDeposit ==
  ASSUME RegistryInv, [Next]_vars
  PROVE  SameDeposits \/ \E n \in Nat : ObtainDepositData(n)
<1>1. CASE Tick \/ (\E d \in 0..MAX_STUCK_PENALTY_DELAY : SetStuckPenaltyDelay(d))
  BY <1>1 DEF Tick, SetStuckPenaltyDelay, SameDeposits
<1>2. CASE AddNodeOperator
  <2>1. op \in Seq(OperatorState) /\ DOMAIN op = 1..Len(op) /\ NewOperator \in OperatorState
    BY OpFunction DEF RegistryInv, NewOperator, OperatorState
  <2> QED
    BY <1>2, <2>1 DEF AddNodeOperator, SameDeposits
<1>3. ASSUME NEW i \in DOMAIN op,
             \/ ActivateNodeOperator(i)
             \/ DeactivateNodeOperator(i)
             \/ ClearNodeOperatorPenalty(i)
             \/ \E n \in Counts(i) :
                  \/ SetNodeOperatorStakingLimit(i, n)
                  \/ UpdateRefundedValidatorsCount(i, n)
                  \/ AddSigningKeys(i, n)
                  \/ \E m \in Counts(i) : \/ UnsafeUpdateValidatorsCount(i, m, n)
                                          \/ RemoveSigningKeys(i, m, n)
             \/ \E t \in Targets : UpdateTargetValidatorsLimits(i, TRUE, t)
             \/ UpdateTargetValidatorsLimits(i, FALSE, 0)
      PROVE  SameDeposits
  BY Zenon, <1>3, SingleStepsDepositNothing
<1>4. ASSUME NEW i \in DOMAIN op, NEW j \in i..Len(op), InvalidateReadyToDepositKeysRange(i, j)
      PROVE  SameDeposits
  BY <1>4, InvalidationDepositsNothing
<1>5. CASE OnWithdrawalCredentialsChanged
  BY <1>5, InvalidationDepositsNothing, Zenon DEF OnWithdrawalCredentialsChanged
<1>6. ASSUME NEW r \in Reports, UpdateStuckValidatorsCount(r) \/ UpdateExitedValidatorsCount(r)
      PROVE  SameDeposits
  BY <1>6, ReportsDepositNothing
<1>7. ASSUME NEW n \in 0..Sum(MaxKeys), ObtainDepositData(n)
      PROVE  \E k \in Nat : ObtainDepositData(k)
  <2>1. n \in Nat
    OBVIOUS
  <2> QED
    BY <1>7, <2>1
<1>8. CASE UNCHANGED vars
  BY <1>8 DEF vars, SameDeposits
<1> QED
  BY <1>1, <1>2, <1>3, <1>4, <1>5, <1>6, <1>7, <1>8, Zenon DEF Next

\* What an operator is allowed when new validators are deposited for it.
LEMMA DepositStepAllowed ==
  ASSUME RegistryInv, NEW m \in Nat, ObtainDepositData(m),
         NEW i \in DOMAIN op, op'[i].deposited # op[i].deposited
  PROVE  /\ op[i].active
         /\ IsPenaltyCleared(op[i])
         /\ op'[i].deposited \in op[i].deposited..op[i].vetted
         /\ op[i].limited => op'[i].deposited <= op[i].exited + op[i].target
<1> DEFINE a == AllocatedKeys(m)
           d == op[i].exited + a.buckets[i]
           o == op[i]
<1>1. op' = WithDeposited(a)
  BY Zenon DEF ObtainDepositData, StoreOperators
<1>2. /\ d \in Nat /\ o.deposited <= d /\ (d = o.deposited \/ d <= o.max)
      /\ op'[i].deposited = d
  <2>1. /\ d \in Nat /\ o.deposited <= d /\ (d = o.deposited \/ d <= o.max)
        /\ WithDeposited(a)[i].deposited = d
    <3> HIDE DEF a
    <3> QED
      BY DepositEach DEF a
  <2> QED
    BY <1>1, <2>1
<1>3. Good(o) /\ o \in OperatorState /\ now \in Nat \ {0}
  BY DEF RegistryInv, Good
<1> HIDE DEF a, d, o
<1>4. d > o.deposited /\ d <= o.max /\ o.max = Limit(o) /\ o.deposited \in Nat
  BY <1>2, <1>3 DEF Good, OperatorState, o
<1>5. Limit(o) \in Nat /\ Limit(o) <= o.vetted /\ o.vetted \in Nat
  BY <1>3, LimitIsBetween DEF Good, OperatorState
<1>6. o.active
  BY <1>3, <1>4, <1>5, <1>2 DEF Good, Ordered
<1>7. ~(o.refunded < o.stuck \/ o.penaltyEnd # 0)
  BY <1>2, <1>4 DEF Limit
<1>8. o.limited => d <= o.exited + o.target
  BY <1>2, <1>3, <1>4, <1>7 DEF Limit, Larger, Smaller, OperatorState
<1>9. IsPenaltyCleared(o)
  BY <1>3, <1>7, MaxOfIsLimit
<1> QED
  BY <1>2, <1>4, <1>5, <1>6, <1>8, <1>9 DEF o

\* Only vetted keys of active operators without a penalty are deposited, up to
\* their target, and a deposit is never undone.
THEOREM DepositsAlwaysAllowed == Spec => DepositsAllowed
<1> DEFINE Allowed ==
      \A i \in DOMAIN op :
        op'[i].deposited # op[i].deposited =>
          /\ op[i].active
          /\ IsPenaltyCleared(op[i])
          /\ op'[i].deposited \in op[i].deposited..op[i].vetted
          /\ op[i].limited => op'[i].deposited <= op[i].exited + op[i].target
<1>1. RegistryInv /\ [Next]_vars => Allowed
  BY OnlyDepositsDeposit, DepositStepAllowed DEF SameDeposits
<1>2. Spec => [][Allowed]_vars
  <2> HIDE DEF Allowed
  <2> QED
    BY <1>1, RegistryInvariant, PTL DEF Spec
<1> QED
  BY <1>2 DEF DepositsAllowed

\* Every change of the keys or of what may be deposited changes the nonce,
\* except a change of a refunded count.
THEOREM NonceAlwaysFollowsButRefunds == Spec => NonceFollowsKeysButRefunds
<1> DEFINE RefundChanged == \E i \in DOMAIN op : op'[i].refunded # op[i].refunded
<1>1. RegistryInv /\ [Next]_vars => (KeySetChanges => nonce' # nonce \/ RefundChanged)
  <2> SUFFICES ASSUME RegistryInv, [Next]_vars
               PROVE  KeySetChanges => nonce' # nonce \/ RefundChanged
    OBVIOUS
  <2>1. nonce \in Nat /\ op \in Seq(OperatorState) /\ DOMAIN op = 1..Len(op)
    BY OpFunction DEF RegistryInv
  <2>2. CASE IncreaseNonce
    BY <2>1, <2>2 DEF IncreaseNonce
  <2>3. CASE UNCHANGED op
    BY <2>3 DEF KeySetChanges
  <2>4. CASE AddNodeOperator
    <3>1. NewOperator \in OperatorState
      BY DEF NewOperator, OperatorState
    <3>2. \A i \in DOMAIN op : op'[i] = op[i]
      BY <2>1, <2>4, <3>1 DEF AddNodeOperator
    <3> QED
      BY <3>2 DEF KeySetChanges
  <2>5. ASSUME NEW i \in DOMAIN op, NEW n, UpdateRefundedValidatorsCount(i, n)
        PROVE  RefundChanged
    <3> DEFINE p == [op[i] EXCEPT !.refunded = n,
                                  !.penaltyEnd = PenaltyEndAfter(op[i], op[i].stuck, n)]
    <3>1. DOMAIN op[i] = DOMAIN NewOperator
      BY DEF RegistryInv, Good, OperatorState, NewOperator
    <3>2. DOMAIN p = DOMAIN NewOperator /\ p.refunded = n
      BY <3>1 DEF NewOperator
    <3>3. op' = [op EXCEPT ![i] = Refreshed(p)] /\ n # op[i].refunded
      BY Zenon, <2>5 DEF UpdateRefundedValidatorsCount, StoreOperator, StoreOperators
    <3>4. Refreshed(p).refunded = n
      <4> HIDE DEF p
      <4> QED
        BY <3>2 DEF Refreshed, NewOperator
    <3> HIDE DEF p
    <3> QED
      BY <3>3, <3>4
  <2> HIDE DEF RefundChanged
  <2>6. IncreaseNonce \/ UNCHANGED op \/ AddNodeOperator
          \/ \E i \in DOMAIN op : \E n \in Counts(i) : UpdateRefundedValidatorsCount(i, n)
    BY Zenon DEF Next, vars, Tick, ActivateNodeOperator, DeactivateNodeOperator,
       ClearNodeOperatorPenalty, SetNodeOperatorStakingLimit, AddSigningKeys,
       UnsafeUpdateValidatorsCount, RemoveSigningKeys, UpdateTargetValidatorsLimits,
       InvalidateReadyToDepositKeysRange, OnWithdrawalCredentialsChanged,
       SetStuckPenaltyDelay, UpdateStuckValidatorsCount, UpdateExitedValidatorsCount,
       ObtainDepositData
  <2> QED
    BY <2>2, <2>3, <2>4, <2>5, <2>6
<1>2. Spec => [][KeySetChanges => nonce' # nonce \/ RefundChanged]_vars
  <2> HIDE DEF RefundChanged, KeySetChanges
  <2> QED
    BY <1>1, RegistryInvariant, PTL DEF Spec
<1> QED
  BY <1>2 DEF NonceFollowsKeysButRefunds

-------------------------------------------------------------------------------
\* Deposits and payouts

\* What the module announces as depositable, it can deliver.
LEMMA DepositableObtained ==
  ASSUME RegistryInv, NEW m \in 0..summary.max - summary.deposited
  PROVE  AllocatedKeys(m).allocated = m
<1> DEFINE n == Len(op)
           b == [i \in DOMAIN op |-> op[i].deposited - op[i].exited]
           c == [i \in DOMAIN op |-> op[i].max - op[i].exited]
           a == Allocate(b, c, m)
           f == a.buckets
           mx == Field(op, "max")
           de == Field(op, "deposited")
<1>1. n \in Nat /\ DOMAIN op = 1..n /\ \A i \in 1..n : Good(op[i])
  BY OpFunction DEF RegistryInv
<1>2. ASSUME NEW i \in 1..n
      PROVE  /\ op[i].deposited - op[i].exited \in Nat /\ op[i].max - op[i].exited \in Nat
             /\ op[i].deposited \in Int /\ op[i].max \in Int /\ op[i].exited \in Int
  <2>1. op[i] \in OperatorState /\ Ordered(op[i]) /\ op[i].max = Limit(op[i])
    BY <1>1 DEF Good
  <2>2. op[i].deposited <= op[i].max /\ op[i].exited + op[i].stuck <= op[i].deposited
    BY <2>1, LimitIsBetween DEF Ordered
  <2> QED
    BY <2>1, <2>2 DEF OperatorState
<1>3. b \in [1..n -> Nat] /\ c \in [1..n -> Nat]
  BY <1>1, <1>2
<1>4. /\ mx \in [1..n -> Int] /\ de \in [1..n -> Int]
      /\ \A i \in 1..n : mx[i] = op[i].max /\ de[i] = op[i].deposited
      /\ summary.max = Sum(mx) /\ summary.deposited = Sum(de)
  <2>1. op \in [1..n -> OperatorState] /\ summary \in Summary /\ SummaryIsSum
    BY <1>1, OpFunction DEF RegistryInv
  <2>2. summary["max"] = Sum(mx) /\ summary["deposited"] = Sum(de)
    BY <2>1 DEF SummaryIsSum, Summary, Field
  <2> HIDE DEF n
  <2> QED
    BY <1>1, <2>1, <2>2, FieldType
<1>5. \A i \in 1..n : c[i] - b[i] = mx[i] - de[i]
  BY <1>1, <1>2, <1>4
<1>6. AllocatedKeys(m) = a
  BY DEF AllocatedKeys
<1> HIDE DEF b, c, mx, de, n
<1>7. Sum(mx) \in Int /\ Sum(de) \in Int /\ Sum(b) \in Int /\ Sum(c) \in Int
  BY <1>1, <1>3, <1>4, SumType
<1>8. m \in Nat
  BY <1>4, <1>7
<1>9. /\ a \in [buckets : [1..n -> Nat], allocated : 0..m] /\ Placed(a, b, c)
      /\ a.allocated = m \/ Open(f, c) = {}
  BY <1>1, <1>3, <1>8, AllocatePlaces, AllocateExhausts
<1> HIDE DEF a
<1>10. CASE Open(f, c) = {}
  <2>1. f \in [1..n -> Nat] /\ Sum(f) = Sum(b) + a.allocated /\ a.allocated \in 0..m
    BY <1>9 DEF Placed
  <2>2. f \in [1..n -> Int] /\ b \in [1..n -> Int] /\ c \in [1..n -> Int]
    BY <1>3, <2>1
  <2> HIDE DEF f
  <2>6. \A i \in 1..n : c[i] <= f[i]
    <3>1. ASSUME NEW i \in 1..n, f[i] < c[i] PROVE FALSE
      <4>1. i \in Open(f, c)
        BY <2>2, <3>1 DEF Open
      <4> QED
        BY <1>10, <4>1
    <3> QED
      BY <2>2, <3>1
  <2>3. Sum(c) <= Sum(f)
    BY <1>1, <2>2, <2>6, SumMonotone
  <2>4. Sum(c) - Sum(b) = Sum(mx) - Sum(de)
    <3> DEFINE d == [i \in 1..n |-> c[i] - b[i]]
    <3>1. /\ d \in [1..n -> Int] /\ \A i \in 1..n : d[i] = c[i] - b[i] /\ d[i] = mx[i] - de[i]
      BY <1>3, <1>5
    <3> HIDE DEF d
    <3>2. Sum(c) = Sum(b) + Sum(d) /\ Sum(mx) = Sum(de) + Sum(d) /\ Sum(d) \in Int
      <4>1. mx \in [1..n -> Int] /\ de \in [1..n -> Int] /\ n \in Nat
        BY <1>1, <1>4
      <4>2. d \in [1..n -> Int] /\ \A i \in 1..n : d[i] = c[i] - b[i]
        BY <3>1
      <4>3. \A i \in 1..n : d[i] = mx[i] - de[i]
        BY <3>1
      <4>4. Sum(c) = Sum(b) + Sum(d)
        BY <2>2, <4>1, <4>2, SumDifference
      <4>5. Sum(mx) = Sum(de) + Sum(d)
        BY <4>1, <4>2, <4>3, SumDifference
      <4>6. Sum(d) \in Int
        BY <4>1, <4>2, SumType
      <4> QED
        BY <4>4, <4>5, <4>6
    <3> QED
      BY <1>7, <3>2
  <2>5. a.allocated >= m
    BY <1>4, <1>7, <1>8, <2>1, <2>3, <2>4
  <2> QED
    BY <1>6, <1>8, <2>1, <2>5
<1> QED
  BY <1>6, <1>9, <1>10

\* As many keys as getStakingModuleSummary announces can be deposited, for any
\* number of operators and keys: the loop stops short only when nothing is open.
THEOREM DepositableAlwaysObtainable == Spec => []DepositableIsObtainable
<1>1. RegistryInv => DepositableIsObtainable
  BY DepositableObtained DEF DepositableIsObtainable
<1> QED
  BY <1>1, RegistryInvariant, PTL

\* So every allocation the registry run looks at fills min-first, whatever its bounds.
THEOREM ResultAlwaysMinFirst == Spec => []ResultIsMinFirst
<1>1. ResultIsMinFirst
  <2> SUFFICES ASSUME NEW given \in [1..MaxBuckets -> 0..MaxFill],
                      NEW capacities \in [1..MaxBuckets -> 0..MaxFill], NEW size \in 0..MaxSize
               PROVE  AllocatesMinFirst(given, capacities, size)
    BY DEF ResultIsMinFirst
  <2>1. /\ MaxBuckets \in Nat /\ size \in Nat
        /\ given \in [1..MaxBuckets -> Nat] /\ capacities \in [1..MaxBuckets -> Nat]
    BY RegistryAssumption
  <2> QED
    BY <2>1, AllocationIsMinFirst
<1> QED
  BY <1>1, PTL

\* Arithmetic of one operator's reward: W is the sum of the weights, s its share,
\* p what is paid and burnt of it.
LEMMA RewardArithmetic ==
  ASSUME NEW W \in Nat \ {0}, NEW x \in Nat, NEW s, s = x \div W, NEW p \in Nat,
         p <= s, s <= p + 1
  PROVE  W * p <= x /\ x - W * p <= 2 * W - 1
<1>1. s \in Nat /\ W * s <= x /\ x < W * s + W
  BY Quotient
<1>2. W * p <= W * s /\ W * s <= W * p + W
  <2>1. p * W <= s * W /\ s * W <= (p + 1) * W
    BY <1>1, ProductMonotone
  <2> QED
    BY <1>1, <2>1
<1>3. W * p \in Int /\ W * s \in Int
  BY <1>1
<1> DEFINE u == W * p
           v == W * s
<1> HIDE DEF u, v
<1>4. u <= v /\ v <= u + W /\ v <= x /\ x < v + W /\ u \in Int /\ v \in Int
  BY <1>1, <1>2, <1>3 DEF u, v
<1>5. u <= x /\ x - u <= 2 * W - 1
  BY <1>4
<1> QED
  BY <1>5 DEF u

\* What is paid and burnt of a share is the share, but for one of the two
\* halves' remainder or a share of one.
LEMMA PayoutFacts ==
  ASSUME NEW i, NEW r, RewardShares(r)[i] \in Nat
  PROVE  LET p == Payout(i, r).paid + Payout(i, r).burnt
         IN p \in Nat /\ p <= RewardShares(r)[i] /\ RewardShares(r)[i] <= p + 1
<1> DEFINE s == RewardShares(r)[i]
<1>1. CASE s < 2
  <2>1. Payout(i, r) = [paid |-> 0, burnt |-> 0]
    BY <1>1 DEF Payout
  <2> QED
    BY <1>1, <2>1
<1>2. CASE s >= 2 /\ IsPenalized(op[i])
  <2>1. Payout(i, r) = [paid |-> s \div 2, burnt |-> s \div 2]
    BY <1>2 DEF Payout
  <2>2. s \div 2 \in Nat /\ s \div 2 + s \div 2 <= s /\ s <= s \div 2 + s \div 2 + 1
    OBVIOUS
  <2> QED
    BY <2>1, <2>2
<1>3. CASE s >= 2 /\ ~IsPenalized(op[i])
  <2>1. Payout(i, r) = [paid |-> s, burnt |-> 0]
    BY <1>3 DEF Payout
  <2> QED
    BY <2>1
<1> QED
  BY <1>1, <1>2, <1>3

\* Rewards never exceed the shares held and the remainder is less than two
\* shares per active operator, for any rewards.
LEMMA PayoutsFit ==
  ASSUME RegistryInv, NEW r \in Nat
  PROVE  LET spent == Sum([i \in DOMAIN op |-> Payout(i, r).paid + Payout(i, r).burnt])
         IN /\ spent <= r
            /\ (\E i \in DOMAIN op : op[i].active /\ op[i].deposited > op[i].exited)
                 => r - spent < 2 * activeCount
<1> DEFINE n == Len(op)
           w == [i \in DOMAIN op |-> IF op[i].active THEN op[i].deposited - op[i].exited ELSE 0]
           W == Sum(w)
           p == [i \in DOMAIN op |-> Payout(i, r).paid + Payout(i, r).burnt]
           e == [i \in DOMAIN op |-> IF i \in Active(op) THEN 1 ELSE 0]
           Paying == \E i \in DOMAIN op : op[i].active /\ op[i].deposited > op[i].exited
<1>1. n \in Nat /\ DOMAIN op = 1..n /\ \A i \in 1..n : Good(op[i])
  BY OpFunction DEF RegistryInv
<1>2. ASSUME NEW i \in 1..n
      PROVE  /\ w[i] \in Nat
             /\ op[i].active /\ op[i].deposited > op[i].exited => w[i] > 0
             /\ w[i] > 0 => i \in Active(op)
  <2>1. op[i] \in OperatorState /\ Ordered(op[i])
    BY <1>1 DEF Good
  <2>2. op[i].deposited - op[i].exited \in Nat
    BY <2>1 DEF OperatorState, Ordered
  <2>3. w[i] = IF op[i].active THEN op[i].deposited - op[i].exited ELSE 0
    BY <1>1
  <2>4. i \in Active(op) <=> op[i].active
    BY <1>1 DEF Active
  <2>5. op[i].deposited \in Nat /\ op[i].exited \in Nat
    BY <2>1 DEF OperatorState
  <2> HIDE DEF w
  <2>6. CASE op[i].active
    BY <2>2, <2>3, <2>4, <2>5, <2>6
  <2>7. CASE ~op[i].active
    BY <2>3, <2>4, <2>7
  <2> QED
    BY <2>6, <2>7
<1>3. w \in [1..n -> Nat] /\ w \in [1..n -> Int]
  <2>1. w = [i \in 1..n |-> w[i]]
    BY <1>1
  <2> HIDE DEF w
  <2> QED
    BY <1>2, <2>1
<1>4. /\ Active(op) \in SUBSET (1..n) /\ e \in [1..n -> Int]
      /\ \A i \in 1..n : e[i] = IF i \in Active(op) THEN 1 ELSE 0
  BY <1>1 DEF Active
<1>5. Sum(e) = activeCount
  <2> HIDE DEF e, n
  <2>1. Sum(e) = Cardinality(Active(op))
    BY <1>1, <1>4, SumCounts
  <2> QED
    BY <2>1 DEF RegistryInv
<1>6. W \in Nat /\ \A i \in 1..n : w[i] <= W
  <2> HIDE DEF w, n
  <2> QED
    BY <1>1, <1>3, SumPart
<1>7. ASSUME NEW i \in 1..n
      PROVE  /\ RewardShares(r)[i] = IF W = 0 THEN 0 ELSE (w[i] * r) \div W
             /\ p[i] = Payout(i, r).paid + Payout(i, r).burnt
  BY <1>1 DEF RewardShares
<1> HIDE DEF w, W, n, e
<1>8. ASSUME NEW i \in 1..n
      PROVE  /\ RewardShares(r)[i] \in Nat /\ p[i] \in Nat
             /\ p[i] <= RewardShares(r)[i] /\ RewardShares(r)[i] <= p[i] + 1
  <2>1. RewardShares(r)[i] \in Nat
    <3>1. w[i] * r \in Nat
      BY <1>3, ProductTyped
    <3> QED
      BY <1>6, <1>7, <3>1, Quotient
  <2> QED
    BY <1>7, <2>1, PayoutFacts
<1>9. p \in [1..n -> Int]
  <2>1. p = [i \in 1..n |-> p[i]]
    BY <1>1
  <2> HIDE DEF p
  <2> QED
    BY <1>8, <2>1
<1> HIDE DEF p
<1>10. CASE W = 0
  <2>1. \A i \in 1..n : p[i] = 0
    BY <1>7, <1>8, <1>10
  <2>2. Sum(p) = 0
    BY <1>1, <1>9, <2>1, SumZero
  <2>3. ~Paying
    <3>1. ASSUME NEW i \in 1..n PROVE ~(op[i].active /\ op[i].deposited > op[i].exited)
      BY <1>2, <1>6, <1>10
    <3> QED
      BY <1>1, <3>1
  <2> HIDE DEF Paying
  <2> QED
    BY <2>2, <2>3 DEF p, Paying
<1>11. CASE W # 0
  <2>1. W \in Nat \ {0}
    BY <1>6, <1>11
  <2>2. ASSUME NEW i \in 1..n
        PROVE  /\ W * p[i] <= w[i] * r
               /\ w[i] * r - W * p[i] <= (2 * W - 1) * e[i]
               /\ W * p[i] \in Int /\ w[i] * r \in Int
    <3>1. w[i] * r \in Nat /\ p[i] \in Nat /\ w[i] \in Nat
      BY <1>3, <1>8, ProductTyped
    <3>2. RewardShares(r)[i] = (w[i] * r) \div W
      BY <1>7, <1>11
    <3> DEFINE x == w[i] * r
               q == p[i]
    <3>3. x \in Nat /\ q \in Nat /\ RewardShares(r)[i] = x \div W
          /\ q <= RewardShares(r)[i] /\ RewardShares(r)[i] <= q + 1
      BY <1>8, <3>1, <3>2
    <3>4. W * q <= x /\ x - W * q <= 2 * W - 1
      <4> HIDE DEF x, q
      <4> QED
        BY <2>1, <3>3, RewardArithmetic
    <3>5. W * q \in Int
      BY <3>1, <2>1
    <3>6. CASE i \in Active(op)
      <4>1. e[i] = 1 /\ (2 * W - 1) * 1 = 2 * W - 1
        BY <1>4, <2>1, <3>6
      <4> QED
        BY <3>3, <3>4, <3>5, <4>1
    <3>7. CASE i \notin Active(op)
      <4>1. e[i] = 0 /\ (2 * W - 1) * 0 = 0 /\ w[i] = 0
        BY <1>2, <1>4, <2>1, <3>1, <3>7
      <4>2. x = 0
        BY <4>1
      <4>3. RewardShares(r)[i] = 0 /\ q = 0
        <5> HIDE DEF x, q
        <5>1. 0 \div W = 0
          BY <2>1
        <5> QED
          BY <3>3, <4>2, <5>1
      <4> QED
        BY <2>1, <4>1, <4>2, <4>3
    <3> QED
      BY <3>6, <3>7
  <2> DEFINE Wp == [i \in 1..n |-> W * p[i]]
             wr == [i \in 1..n |-> w[i] * r]
             De == [i \in 1..n |-> (2 * W - 1) * e[i]]
             d  == [i \in 1..n |-> wr[i] - Wp[i]]
  <2>3. /\ Wp \in [1..n -> Int] /\ \A i \in 1..n : Wp[i] = W * p[i]
        /\ wr \in [1..n -> Int] /\ \A i \in 1..n : wr[i] = r * w[i]
        /\ \A i \in 1..n : Wp[i] <= wr[i]
    BY <1>3, <2>2
  <2>4. /\ De \in [1..n -> Int] /\ \A i \in 1..n : De[i] = (2 * W - 1) * e[i]
    BY <1>4, <2>1
  <2>5. /\ d \in [1..n -> Int] /\ \A i \in 1..n : d[i] = wr[i] - Wp[i]
        /\ \A i \in 1..n : d[i] <= De[i]
    BY <2>2
  <2> HIDE DEF Wp, wr, De, d
  <2>6. Sum(Wp) = W * Sum(p) /\ Sum(wr) = r * W /\ Sum(De) = (2 * W - 1) * activeCount
    <3> W \in Int /\ r \in Int
      BY <2>1
    <3>1. Sum(Wp) = W * Sum(p)
      BY <1>1, <1>9, <2>3, SumScaled
    <3>2. Sum(wr) = r * W
      <4>1. Sum(wr) = r * Sum(w)
        BY <1>1, <1>3, <2>3, SumScaled
      <4> QED
        BY <4>1 DEF W
    <3>3. Sum(De) = (2 * W - 1) * activeCount
      <4> DEFINE c == 2 * W - 1
      <4>1. c \in Int /\ \A i \in 1..n : De[i] = c * e[i]
        BY <2>1, <2>4
      <4> HIDE DEF c
      <4>2. Sum(De) = c * Sum(e)
        BY <1>1, <1>4, <2>4, <4>1, SumScaled
      <4> QED
        BY <1>5, <4>2 DEF c
    <3> QED
      BY <3>1, <3>2, <3>3
  <2>7. Sum(Wp) <= Sum(wr) /\ Sum(wr) = Sum(Wp) + Sum(d) /\ Sum(d) <= Sum(De)
    BY <1>1, <2>3, <2>4, <2>5, SumMonotone, SumDifference
  <2>8. /\ Sum(p) \in Int /\ Sum(d) \in Int /\ activeCount \in Int
        /\ Sum(Wp) \in Int /\ Sum(De) \in Int
    BY <1>1, <1>4, <1>5, <1>9, <2>3, <2>4, <2>5, SumType
  <2> DEFINE spent == Sum(p)
  <2>9. W * spent <= W * r /\ W * r - W * spent <= (2 * W - 1) * activeCount
    <3>1. r * W = W * r /\ W * r \in Int
      BY <2>1
    <3> QED
      BY <2>6, <2>7, <2>8, <3>1
  <2> HIDE DEF spent
  <2>10. spent \in Int
    BY <2>8 DEF spent
  <2>11. spent <= r
    BY <2>1, <2>9, <2>10
  <2>12. ASSUME Paying PROVE r - spent < 2 * activeCount
    <3>1. activeCount >= 1
      <4>1. PICK i \in 1..n : op[i].active /\ op[i].deposited > op[i].exited
        BY <1>1, <2>12
      <4>2. i \in Active(op)
        BY <1>1, <4>1 DEF Active
      <4>3. IsFiniteSet(Active(op))
        BY <1>1, <1>4, FS_Interval, FS_Subset
      <4>4. Cardinality(Active(op)) \in Nat /\ Cardinality(Active(op)) # 0
        BY <4>2, <4>3, FS_CardinalityType, FS_EmptySet
      <4> QED
        BY <4>4 DEF RegistryInv
    <3> DEFINE A == activeCount
               z == r - spent
    <3>2. W * z <= 2 * (W * A) - A
      <4>1. W * z = W * r - W * spent
        BY <2>1, <2>10
      <4>2. (2 * W - 1) * A = 2 * (W * A) - A
        BY <2>1, <2>8
      <4> QED
        BY <2>9, <4>1, <4>2
    <3>3. z \in Int /\ A \in Int /\ A >= 1
      BY <2>8, <2>10, <3>1
    <3> HIDE DEF z, A
    <3>4. ASSUME z >= 2 * A PROVE FALSE
      <4>1. W * z >= W * (2 * A)
        BY <2>1, <3>3, <3>4
      <4>2. W * (2 * A) = 2 * (W * A) /\ W * A \in Int /\ W * z \in Int
        BY <2>1, <3>3
      <4> QED
        BY <3>2, <3>3, <4>1, <4>2
    <3>5. z < 2 * A
      BY <3>3, <3>4
    <3> QED
      BY <3>5 DEF z, A
  <2> HIDE DEF Paying
  <2> QED
    BY <2>11, <2>12 DEF p, spent, Paying
<1> QED
  BY <1>10, <1>11

\* For any number of operators, penalties and rewards: what is paid and burnt never
\* exceeds the rewards, and less than two shares per active operator remain.
THEOREM PayoutsAlwaysCovered == Spec => []PayoutsCovered
<1>1. RegistryInv => PayoutsCovered
  BY PayoutsFit, RegistryAssumption DEF PayoutsCovered
<1> QED
  BY <1>1, RegistryInvariant, PTL
===================================================================================
