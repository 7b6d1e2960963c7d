----------------------------- MODULE BatchCalculation -----------------------------
(***************************************************************************)
(* The oracle's use of calculateFinalizationBatches: calls on one block's  *)
(* state, each handed the state the one before returned, until it says it  *)
(* is finished.  The queue is any that a few requests and reports in       *)
(* between lead to.                                                        *)
(***************************************************************************)
EXTENDS FinalizationBatches

CONSTANTS Amounts, Pools, ShareRates, Budgets,
          CallSizes,      \* maxRequestsPerCall
          QueueLength     \* bound: requests in the queue

ASSUME CalculationAssumption ==
  /\ Amounts \cup ShareRates \cup Budgets \cup CallSizes \subseteq Nat \ {0}
  /\ Pools \subseteq [ether : Nat \ {0}, shares : Nat \ {0}]
  /\ QueueLength \in Nat \ {0}

\* A request of MIN_STETH_WITHDRAWAL_AMOUNT (100 wei) or more is worth a wei: no
\* pool and no line is off by a factor of a hundred (WithdrawalQueue.sol:52).
\* The shares of the whole queue are fewer than 10^27, those of a billion ether.
ASSUME AmountAssumption ==
  \A amount \in Amounts, pool \in Pools :
    LET shares == (amount * pool.shares) \div pool.ether
    IN /\ \A rate \in ShareRates : shares * rate >= E27_PRECISION_BASE
       /\ QueueLength * shares <= E27_PRECISION_BASE

VARIABLES queue, lastFinalized, maxShareRate, maxTimestamp, budget, callSize, state

given == <<queue, lastFinalized, maxShareRate, maxTimestamp, budget, callSize>>

-------------------------------------------------------------------------------
\* Queues: request i asks for amounts[i] under the pool that report reports[i]
\* left behind.

CumulativeStETH(amounts, i) == Sum([k \in 1..i |-> amounts[k]])

CumulativeShares(amounts, reports, pools, i) ==
  Sum([k \in 1..i |-> (amounts[k] * pools[reports[k]].shares) \div pools[reports[k]].ether])

ReportOrders ==
  {r \in [1..QueueLength -> 1..QueueLength] :
     /\ r[1] = 1
     /\ \A i \in 2..QueueLength : r[i] \in {r[i - 1], r[i - 1] + 1}}

QueueOf(amounts, reports, pools) ==
  [i \in 1..QueueLength |->
     [cumulativeStETH  |-> CumulativeStETH(amounts, i),
      cumulativeShares |-> CumulativeShares(amounts, reports, pools, i),
      timestamp        |-> reports[i],
      reportTimestamp  |-> reports[i]]]

Init ==
  /\ \E a \in [1..QueueLength -> Amounts], r \in ReportOrders, p \in [1..QueueLength -> Pools] :
       queue = QueueOf(a, r, p)
  /\ lastFinalized \in 0..QueueLength - 1
  /\ maxShareRate \in ShareRates
  /\ maxTimestamp \in 1..QueueLength
  /\ budget \in Budgets
  /\ callSize \in CallSizes
  /\ state = StartState(budget)

Call ==
  /\ ~IsRefused(queue, lastFinalized, state)
  /\ state' = CalculateFinalizationBatches(queue, lastFinalized, maxShareRate, maxTimestamp,
                                           callSize, state)
  /\ UNCHANGED given

Spec == Init /\ [][Call]_<<given, state>>

-------------------------------------------------------------------------------
\* Properties

\* The requests lastFinalized + 1 .. k as the comment of the function puts
\* it: old enough, within the budget, in at most MAX_BATCHES_LENGTH batches
\* of requests that are all above or all below the line, those of one report
\* counting as equal.
Open(k) == lastFinalized + 1..k

BatchEnds(k) ==
  {i \in Open(k) : i = k \/ ~SameBatch(queue, i + 1, maxShareRate)}

Cost(i) == EtherFor(queue, i - 1, i, maxShareRate)

Spent(k) == Sum([n \in 1..k - lastFinalized |-> Cost(lastFinalized + n)])

Payable(k) ==
  /\ \A i \in Open(k) : queue[i].timestamp <= maxTimestamp
  /\ Spent(k) <= budget
  /\ Cardinality(BatchEnds(k)) <= MAX_BATCHES_LENGTH

LastPayable == Max({k \in lastFinalized..QueueLength : Payable(k)})

\* Whatever the number of requests per call, the calls end with the longest
\* payable prefix of the open requests, cut where requests stop being on one
\* side of the line (WithdrawalQueueBase.sol:183-198).  They end when the
\* state is finished, or when a call that is not finished uses up the budget:
\* the next one is refused then (line 221).
LongestPrefixFound ==
  IsRefused(queue, lastFinalized, state) =>
    /\ Range(state.batches) = BatchEnds(LastPayable)
    /\ \A m, n \in DOMAIN state.batches : m < n => state.batches[m] < state.batches[n]

\* Requests of one report were made at one rate, and only rounding tells theirs
\* apart.  It tells little of a large request and much of a tiny one.  Here the
\* line falls between no two of them.
OneSided ==
  \A i \in lastFinalized + 2..QueueLength :
    queue[i - 1].reportTimestamp = queue[i].reportTimestamp
      => (IsDiscounted(queue, i - 2, i - 1, maxShareRate)
            <=> IsDiscounted(queue, i - 1, i, maxShareRate))

\* A wei for each request that is finalized.
Dust == LastPayable - lastFinalized

\* The ether prefinalize asks for is accepted by _finalize, and is not less
\* than what the calculation took off the budget but for rounding, a wei for
\* each request.  Neither is it more, unless a tiny request on the other side of
\* the line than its report joins discounted requests to nominal ones.
EtherMatchesBudget ==
  IsRefused(queue, lastFinalized, state) /\ state.batches # << >> =>
    LET ether == Prefinalize(queue, lastFinalized, state.batches, maxShareRate)
    IN /\ ether <= StETHIn(queue, lastFinalized, LastPayable)
       /\ ether >= Spent(LastPayable) - Dust
       /\ OneSided => ether <= Spent(LastPayable) + Dust
===================================================================================
