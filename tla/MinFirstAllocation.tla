---------------------------- MODULE MinFirstAllocation ----------------------------
(***************************************************************************)
(* MinFirstAllocationStrategy.sol: spread a number of items over buckets,  *)
(* the least filled bucket with free space first.                          *)
(*                                                                         *)
(* buckets and capacities are sequences of the same length; a bucket may   *)
(* already be over its capacity.                                           *)
(***************************************************************************)
EXTENDS Totals

CeilDiv(a, b) == (a + b - 1) \div b

Open(buckets, capacities) == {i \in DOMAIN buckets : buckets[i] < capacities[i]}

\* The least filled open buckets.
BestCandidates(buckets, capacities) ==
  {i \in Open(buckets, capacities) :
     \A j \in Open(buckets, capacities) : buckets[i] <= buckets[j]}

\* Fault: the fuller buckets are not looked at.
Headroom_Fault(buckets, capacities, i) == capacities[i] - buckets[i]

\* What fits into bucket i before it is full or level with the next fuller
\* open bucket.
Headroom(buckets, capacities, i) ==
  LET fuller == {j \in Open(buckets, capacities) : buckets[j] > buckets[i]}
      bound  == {capacities[i]} \cup {buckets[j] : j \in fuller}
  IN (CHOOSE b \in bound : \A c \in bound : b <= c) - buckets[i]

ShareOf_Fault(size, n) == size \div n                   \* fault: rounded down

\* The share of `size` items the first of n equally filled buckets gets.
ShareOf(size, n) == CeilDiv(size, n)

Smaller(a, b) == IF a <= b THEN a ELSE b

\* One round of the loop: the bucket that is filled, and by how much.
BestCandidate(buckets, capacities) ==
  CHOOSE i \in BestCandidates(buckets, capacities) :
    \A j \in BestCandidates(buckets, capacities) : i <= j

AllocateToBestCandidate(buckets, capacities, size) ==
  LET best == BestCandidates(buckets, capacities)
  IN IF best = {} \/ size = 0
     THEN 0
     ELSE Smaller(ShareOf(size, Cardinality(best)),
                  Headroom(buckets, capacities, BestCandidate(buckets, capacities)))

\* The state r of the loop after one more round.
NextRound(r, capacities, size) ==
  LET n == AllocateToBestCandidate(r.buckets, capacities, size - r.allocated)
  IN IF n = 0
     THEN r
     ELSE [buckets   |-> [r.buckets EXCEPT ![BestCandidate(r.buckets, capacities)] = @ + n],
           allocated |-> r.allocated + n]

\* Every round but the last places something, so `size` rounds are enough.
Allocate(buckets, capacities, size) ==
  LET round[k \in 0..size] ==
        IF k = 0
        THEN [buckets |-> buckets, allocated |-> 0]
        ELSE NextRound(round[k - 1], capacities, size)
  IN round[size]

-------------------------------------------------------------------------------
\* What the loop promises.

\* The fills that placing one item after the other may lead to, each item in a
\* least filled open bucket: levels[k] after k items.
ItemByItem(given, capacities, size) ==
  LET levels[k \in 0..size] ==
        IF k = 0
        THEN {given}
        ELSE UNION {IF BestCandidates(b, capacities) = {}
                    THEN {b}
                    ELSE {[b EXCEPT ![i] = @ + 1] : i \in BestCandidates(b, capacities)} :
                      b \in levels[k - 1]}
  IN levels[size]

\* The allocation, which moves many items a round, ends where placing them one
\* by one into a least filled open bucket may end (the comment at
\* MinFirstAllocationStrategy.sol:16-23), and reports what it placed.
AllocatesMinFirst(given, capacities, size) ==
  LET result == Allocate(given, capacities, size)
  IN /\ result.buckets \in ItemByItem(given, capacities, size)
     /\ result.allocated = Sum(result.buckets) - Sum(given)
===================================================================================
