--------------------------- MODULE FinalizationBatches ----------------------------
(***************************************************************************)
(* The arithmetic of WithdrawalQueueBase.sol: the share rate and the ether *)
(* of a range of requests, the batches the oracle computes off chain, and  *)
(* the ether the contract asks for to finalize them.                       *)
(*                                                                         *)
(* A queue is a sequence of requests, each with the cumulative stETH and   *)
(* shares up to and including it; request 0 is a dummy of zeros.           *)
(***************************************************************************)
EXTENDS Totals

CONSTANTS E27_PRECISION_BASE,    \* the unit of a share rate
          MAX_BATCHES_LENGTH

ASSUME BatchesAssumption == {E27_PRECISION_BASE, MAX_BATCHES_LENGTH} \subseteq Nat \ {0}

-------------------------------------------------------------------------------
\* _calcBatch: the requests pre + 1 .. end as one.

StETHIn(q, pre, end)  ==
  q[end].cumulativeStETH - (IF pre = 0 THEN 0 ELSE q[pre].cumulativeStETH)

SharesIn(q, pre, end) ==
  q[end].cumulativeShares - (IF pre = 0 THEN 0 ELSE q[pre].cumulativeShares)

ShareRate(q, pre, end) ==
  (StETHIn(q, pre, end) * E27_PRECISION_BASE) \div SharesIn(q, pre, end)

IsDiscounted(q, pre, end, maxShareRate) == ShareRate(q, pre, end) > maxShareRate

\* The ether the range is worth at maxShareRate.
EtherFor(q, pre, end, maxShareRate) ==
  IF IsDiscounted(q, pre, end, maxShareRate)
  THEN (SharesIn(q, pre, end) * maxShareRate) \div E27_PRECISION_BASE
  ELSE StETHIn(q, pre, end)

-------------------------------------------------------------------------------
\* calculateFinalizationBatches

\* BatchesCalculationState, as the caller passes it first.
StartState(budget) == [budget |-> budget, batches |-> << >>, stopped |-> FALSE]

\* Request i and the one before it go into the same batch.

SameBatch_Fault(q, i, maxShareRate) ==   \* fault: a nominal batch takes a discounted request
  \/ q[i - 1].reportTimestamp = q[i].reportTimestamp
  \/ ~IsDiscounted(q, i - 2, i - 1, maxShareRate)
SameBatch(q, i, maxShareRate) ==
  \/ q[i - 1].reportTimestamp = q[i].reportTimestamp
  \/ IsDiscounted(q, i - 2, i - 1, maxShareRate) = IsDiscounted(q, i - 1, i, maxShareRate)

\* currentId, the first request not yet in a batch.
CurrentId(lastFinalized, s) ==
  1 + (IF s.batches = << >> THEN lastFinalized ELSE s.batches[Len(s.batches)])

HasRoom_Fault(batches) == Len(batches) <= MAX_BATCHES_LENGTH      \* fault: one too many
HasRoom(batches) == Len(batches) < MAX_BATCHES_LENGTH

NewBatch(batches, i) == Append(batches, i)

\* One turn of the loop.  The ether is taken off the budget before the limit
\* on the number of batches is looked at.
TakeRequest(q, lastFinalized, maxShareRate, maxTimestamp, s) ==
  LET i     == CurrentId(lastFinalized, s)
      cost  == EtherFor(q, i - 1, i, maxShareRate)
      n     == Len(s.batches)
      spent == [s EXCEPT !.budget = @ - cost]
  IN IF s.stopped \/ i > Len(q) \/ q[i].timestamp > maxTimestamp \/ cost > s.budget
     THEN [s EXCEPT !.stopped = TRUE]
     ELSE IF n # 0 /\ SameBatch(q, i, maxShareRate)
     THEN [spent EXCEPT !.batches[n] = i]
     ELSE IF HasRoom(s.batches)
     THEN [spent EXCEPT !.batches = NewBatch(@, i)]
     ELSE [spent EXCEPT !.stopped = TRUE]

\* A call: at most maxTurns turns (_maxRequestsPerCall).
CalculateFinalizationBatches(q, lastFinalized, maxShareRate, maxTimestamp, maxTurns, s) ==
  LET after[k \in 0..maxTurns] ==
        IF k = 0
        THEN s
        ELSE TakeRequest(q, lastFinalized, maxShareRate, maxTimestamp, after[k - 1])
  IN after[maxTurns]

\* The returned flag `finished`.
IsFinished(q, lastFinalized, s) == s.stopped \/ CurrentId(lastFinalized, s) > Len(q)

\* The revert at the head of a call.
IsRefused(q, lastFinalized, s) == IsFinished(q, lastFinalized, s) \/ s.budget = 0

-------------------------------------------------------------------------------
\* prefinalize: the ether to send along, given batches in order.

BatchStart(lastFinalized, batches, n) == IF n = 1 THEN lastFinalized ELSE batches[n - 1]

Prefinalize(q, lastFinalized, batches, maxShareRate) ==
  Sum([n \in DOMAIN batches |->
         EtherFor(q, BatchStart(lastFinalized, batches, n), batches[n], maxShareRate)])
===================================================================================
