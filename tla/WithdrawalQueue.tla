----------------------------- MODULE WithdrawalQueue ------------------------------
(***************************************************************************)
(* WithdrawalQueueBase.sol, WithdrawalQueue.sol, WithdrawalQueueERC721.sol:*)
(* requests to turn stETH into ether, in a queue that the oracle's reports *)
(* finalize from the front.  Finalizing locks ether and adds a checkpoint  *)
(* with the highest share rate its requests are paid at; the owner of a    *)
(* finalized request claims it against that checkpoint.                    *)
(*                                                                         *)
(* A call with several requests is several actions: its parts touch        *)
(* different requests only.  Callers are authorised: roles, allowances and *)
(* ERC-721 approvals are not modelled.  The balance of the contract is     *)
(* lockedEtherAmount, so the check of _sendValue is the one of the         *)
(* subtraction before it.                                                  *)
(***************************************************************************)
EXTENDS FinalizationBatches, PausableUntil, FiniteSets

CONSTANTS Owners,
          Amounts,          \* stETH that _checkWithdrawalRequestAmount accepts
          Pools,            \* [ether, shares] of the stETH pool, moved by reports
          Budgets,          \* ether the oracle may spend on a report's batches
          Durations,        \* arguments of pauseFor
          PauseEnds,        \* arguments of pauseUntil
          BUNKER_MODE_DISABLED_TIMESTAMP,
          StartTime,        \* when the queue is deployed
          MaxRequests,      \* bound: requests in the queue
          MaxTime           \* bound: the clock stops here

ASSUME WithdrawalAssumption ==
  /\ Amounts \subseteq Nat \ {0} /\ Budgets \subseteq Nat \ {0}
  /\ Durations \subseteq Nat \ {0} /\ PauseEnds \subseteq Nat
  /\ Pools \subseteq [ether : Nat \ {0}, shares : Nat \ {0}]
  /\ \A a \in Amounts, p \in Pools : a * p.shares >= p.ether
  /\ {StartTime, MaxRequests, MaxTime} \subseteq Nat /\ StartTime > 0
  /\ PAUSE_INFINITELY \in Nat /\ PAUSE_INFINITELY > MaxTime
  /\ BUNKER_MODE_DISABLED_TIMESTAMP \in Nat /\ BUNKER_MODE_DISABLED_TIMESTAMP > MaxTime

VARIABLES pool,                   \* external: rate at which stETH turns into shares
          queue,
          lastFinalizedRequestId,
          checkpoints,
          lockedEtherAmount,
          requestsByOwner,
          lastReportTimestamp,
          bunkerModeSince,
          sent,                   \* history: all ether paid to claimers
          mixed                   \* history: discounted batches with a nominal request

requestVars == <<queue, requestsByOwner>>
finalVars   == <<lastFinalizedRequestId, checkpoints, mixed>>
reportVars  == <<pool, lastReportTimestamp, bunkerModeSince>>

vars == <<now, resumeSince, requestVars, finalVars, reportVars, lockedEtherAmount, sent>>

Request == [cumulativeStETH : Nat, cumulativeShares : Nat, owner : Owners,
            timestamp : Nat, claimed : BOOLEAN, reportTimestamp : Nat]

Checkpoint == [fromRequestId : Nat \ {0}, maxShareRate : Nat \ {0}]

\* _initializeQueue, _initialize: paused, no bunker mode, nothing queued.
Init ==
  /\ now = StartTime
  /\ resumeSince = PAUSE_INFINITELY
  /\ pool \in Pools
  /\ queue = << >>
  /\ lastFinalizedRequestId = 0
  /\ checkpoints = << >>
  /\ lockedEtherAmount = 0
  /\ requestsByOwner = [o \in Owners |-> {}]
  /\ lastReportTimestamp = 0
  /\ bunkerModeSince = BUNKER_MODE_DISABLED_TIMESTAMP
  /\ sent = 0
  /\ mixed = 0

-------------------------------------------------------------------------------
\* The clock and the pause

Tick ==
  /\ now < MaxTime
  /\ now' = now + 1
  /\ UNCHANGED <<resumeSince, requestVars, finalVars, reportVars, lockedEtherAmount, sent>>

ChangePause ==
  /\ \/ Resume
     \/ \E d \in Durations : PauseFor(d)
     \/ \E t \in PauseEnds : PauseUntil(t)
  /\ UNCHANGED <<now, requestVars, finalVars, reportVars, lockedEtherAmount, sent>>

-------------------------------------------------------------------------------
\* Requests

GetSharesByPooledEth(amount) == (amount * pool.shares) \div pool.ether

\* The index of requests by owner, with id added or handed over.

\* Fault: off by one.
IndexWith_Fault(owner, id) == [requestsByOwner EXCEPT ![owner] = @ \cup {id - 1}]

IndexWith(owner, id) == [requestsByOwner EXCEPT ![owner] = @ \cup {id}]

IndexMoved_Fault(from, to, id) == IndexWith(to, id)      \* fault: the old owner keeps it
IndexMoved(from, to, id) ==
  [requestsByOwner EXCEPT ![from] = @ \ {id}, ![to] = @ \cup {id}]

\* _enqueue
Enqueue(amount, shares, owner) ==
  LET id == Len(queue) + 1
      upTo(f) == IF id = 1 THEN 0 ELSE queue[id - 1][f]
  IN /\ queue' = Append(queue, [cumulativeStETH  |-> upTo("cumulativeStETH") + amount,
                                cumulativeShares |-> upTo("cumulativeShares") + shares,
                                owner            |-> owner,
                                timestamp        |-> now,
                                claimed          |-> FALSE,
                                reportTimestamp  |-> lastReportTimestamp])
     /\ requestsByOwner' = IndexWith(owner, id)

RequestWithdrawals(amount, owner) ==
  /\ ~IsPaused
  /\ Len(queue) < MaxRequests
  /\ Enqueue(amount, GetSharesByPooledEth(amount), owner)
  /\ UNCHANGED <<now, resumeSince, finalVars, reportVars, lockedEtherAmount, sent>>

\* _transfer, by the owner or whom the owner approved.
TransferFrom(from, to, id) ==
  /\ to # from
  /\ ~queue[id].claimed
  /\ queue[id].owner = from
  /\ id \in requestsByOwner[from] /\ id \notin requestsByOwner[to]
  /\ queue' = [queue EXCEPT ![id].owner = to]
  /\ requestsByOwner' = IndexMoved(from, to, id)
  /\ UNCHANGED <<now, resumeSince, finalVars, reportVars, lockedEtherAmount, sent>>

-------------------------------------------------------------------------------
\* Checkpoints and claims

NOT_FOUND == 0

\* The binary search of _findCheckpointHint over [lo, hi].
Search(id, lo, hi) ==
  LET within[r \in (lo..hi) \X (lo..hi)] ==
        LET min == r[1]
            max == r[2]
            mid == (max + min + 1) \div 2
        IN IF max <= min THEN min
           ELSE IF checkpoints[mid].fromRequestId <= id THEN within[<<mid, max>>]
           ELSE within[<<min, mid - 1>>]
  IN within[<<lo, hi>>]

IsBefore_Fault(id, hint) == id <= checkpoints[hint].fromRequestId      \* fault: off by one
IsBefore(id, hint) == id < checkpoints[hint].fromRequestId

FindCheckpointHint(id, start, end) ==
  LET last == Len(checkpoints)
  IN IF last = 0 \/ id > lastFinalizedRequestId \/ start > end THEN NOT_FOUND
     ELSE IF id >= checkpoints[end].fromRequestId
     THEN IF end = last \/ id < checkpoints[end + 1].fromRequestId THEN end ELSE NOT_FOUND
     ELSE IF IsBefore(id, start) THEN NOT_FOUND
     ELSE Search(id, start, end - 1)

\* The checks of _calculateClaimableEther.
HintAccepted(id, hint) ==
  /\ hint \in DOMAIN checkpoints
  /\ id >= checkpoints[hint].fromRequestId
  /\ hint < Len(checkpoints) => checkpoints[hint + 1].fromRequestId > id

CalculateClaimableEther_Fault(id, hint) == StETHIn(queue, id - 1, id)   \* fault: no discount
CalculateClaimableEther(id, hint) ==
  EtherFor(queue, id - 1, id, checkpoints[hint].maxShareRate)

\* _claim
Claim(sender, id, hint) ==
  /\ id \in 1..lastFinalizedRequestId
  /\ ~queue[id].claimed
  /\ queue[id].owner = sender
  /\ id \in requestsByOwner[sender]
  /\ HintAccepted(id, hint)
  /\ lockedEtherAmount >= CalculateClaimableEther(id, hint)
  /\ queue' = [queue EXCEPT ![id].claimed = TRUE]
  /\ requestsByOwner' = [requestsByOwner EXCEPT ![sender] = @ \ {id}]
  /\ lockedEtherAmount' = lockedEtherAmount - CalculateClaimableEther(id, hint)
  /\ sent' = sent + CalculateClaimableEther(id, hint)
  /\ UNCHANGED <<now, resumeSince, finalVars, reportVars>>

ClaimWithdrawal(sender, id) ==
  Claim(sender, id, FindCheckpointHint(id, 1, Len(checkpoints)))

-------------------------------------------------------------------------------
\* Oracle reports: AccountingOracle calls onOracleReport, then Lido moves the
\* pool and finalizes the batches of the report, all in one transaction.

OnOracleReport(isBunkerModeNow, bunkerStartTimestamp, reportTimestamp) ==
  LET wasActive == bunkerModeSince < BUNKER_MODE_DISABLED_TIMESTAMP
  IN /\ bunkerStartTimestamp < now /\ reportTimestamp < now
     /\ lastReportTimestamp' = reportTimestamp
     /\ bunkerModeSince' = CASE isBunkerModeNow = wasActive   -> bunkerModeSince
                             [] isBunkerModeNow /\ ~wasActive -> bunkerStartTimestamp
                             [] ~isBunkerModeNow /\ wasActive -> BUNKER_MODE_DISABLED_TIMESTAMP

\* Checkpoints with the rate of the requests after the last finalized one.

WithCheckpoint_Fault(rate) ==      \* fault: the checkpoint index does not advance
  IF checkpoints = << >>
  THEN <<[fromRequestId |-> lastFinalizedRequestId + 1, maxShareRate |-> rate]>>
  ELSE [checkpoints EXCEPT ![Len(checkpoints)].maxShareRate = rate]
WithCheckpoint(rate) ==
  Append(checkpoints, [fromRequestId |-> lastFinalizedRequestId + 1, maxShareRate |-> rate])

\* finalize, _finalize
Finalize(lastId, amountOfETH, maxShareRate) ==
  /\ ~IsPaused
  /\ lastId \in lastFinalizedRequestId + 1..Len(queue)
  /\ amountOfETH <= StETHIn(queue, lastFinalizedRequestId, lastId)
  /\ checkpoints' = WithCheckpoint(maxShareRate)
  /\ lockedEtherAmount' = lockedEtherAmount + amountOfETH
  /\ lastFinalizedRequestId' = lastId

\* What the oracle puts into its report: all batches it can pay for.
BatchesFor(maxShareRate, maxTimestamp, budget) ==
  CalculateFinalizationBatches(queue, lastFinalizedRequestId, maxShareRate, maxTimestamp,
                               MaxRequests + 1, StartState(budget)).batches

\* External, Lido.sol: nothing is finalized when there is nothing to lock.
EtherToLock(batches, maxShareRate) ==
  IF IsPaused THEN 0 ELSE Prefinalize(queue, lastFinalizedRequestId, batches, maxShareRate)

\* The batches that are discounted as a whole and hold a nominal request.
MixedBatches(batches, maxShareRate) ==
  {n \in DOMAIN batches :
     LET pre == BatchStart(lastFinalizedRequestId, batches, n)
     IN /\ IsDiscounted(queue, pre, batches[n], maxShareRate)
        /\ \E i \in pre + 1..batches[n] : ~IsDiscounted(queue, i - 1, i, maxShareRate)}

FinalizeReported(batches, maxShareRate) ==
  /\ IsPaused \/ batches = << >> \/ maxShareRate # 0
  /\ IF EtherToLock(batches, maxShareRate) = 0
     THEN UNCHANGED <<finalVars, lockedEtherAmount>>
     ELSE /\ Finalize(batches[Len(batches)], EtherToLock(batches, maxShareRate), maxShareRate)
          /\ mixed' = mixed + Cardinality(MixedBatches(batches, maxShareRate))

\* External: the rate of the pool after the report, as the comment of
\* handleOracleReport tells the oracle to compute it.
SimulatedShareRate(newPool) == (newPool.ether * E27_PRECISION_BASE) \div newPool.shares

\* A report refers to a later slot than the one before, and bunker mode
\* starts at the reference slot of the report before.  _checkLastFinalizableId
\* of the sanity checker keeps requests younger than the report out of it (its
\* margin is 0 here).
OracleReport(isBunkerModeNow, reportTimestamp, newPool, maxTimestamp, budget) ==
  LET rate == SimulatedShareRate(newPool)
  IN /\ reportTimestamp > lastReportTimestamp
     /\ maxTimestamp <= reportTimestamp
     /\ OnOracleReport(isBunkerModeNow, lastReportTimestamp, reportTimestamp)
     /\ pool' = newPool
     /\ FinalizeReported(BatchesFor(rate, maxTimestamp, budget), rate)
     /\ UNCHANGED <<now, resumeSince, requestVars, sent>>

-------------------------------------------------------------------------------
Next ==
  \/ Tick
  \/ ChangePause
  \/ \E a \in Amounts, o \in Owners : RequestWithdrawals(a, o)
  \/ \E from, to \in Owners, id \in DOMAIN queue : TransferFrom(from, to, id)
  \/ \E o \in Owners, id \in DOMAIN queue, hint \in DOMAIN checkpoints : Claim(o, id, hint)
  \/ \E o \in Owners, id \in DOMAIN queue : ClaimWithdrawal(o, id)
  \/ \E b \in BOOLEAN, t, m \in 0..now, p \in Pools, e \in Budgets : OracleReport(b, t, p, m, e)

Spec == Init /\ [][Next]_vars

-------------------------------------------------------------------------------
\* Properties

TypeOK ==
  /\ now \in Nat /\ resumeSince \in Nat
  /\ pool \in Pools
  /\ queue \in Seq(Request)
  /\ lastFinalizedRequestId \in 0..Len(queue)
  /\ checkpoints \in Seq(Checkpoint)
  /\ lockedEtherAmount \in Nat /\ sent \in Nat /\ mixed \in Nat
  /\ requestsByOwner \in [Owners -> SUBSET (1..Len(queue))]
  /\ lastReportTimestamp \in Nat /\ bunkerModeSince \in Nat

Finalized == 1..lastFinalizedRequestId

\* Every finalized request has exactly one hint that _claim accepts, and the
\* binary search of _findCheckpointHint finds it from any range that holds it
\* and reports NOT_FOUND from any other (WithdrawalQueueBase.sol:407-453).
OneHintAndFound ==
  \A id \in Finalized : \E hint \in DOMAIN checkpoints :
    /\ {h \in DOMAIN checkpoints : HintAccepted(id, h)} = {hint}
    /\ \A start, end \in DOMAIN checkpoints :
         FindCheckpointHint(id, start, end) = IF hint \in start..end THEN hint ELSE NOT_FOUND

\* The ether locked pays for every finalized request still to be claimed, so
\* that no claim is stopped by another one's payout.  A batch is priced as a
\* whole: one that is discounted although one of its requests, rounded on its
\* own, is not (_calculateClaimableEther), can be a wei short; no other can.
HintOf(id) == CHOOSE h \in DOMAIN checkpoints : HintAccepted(id, h)

Worth(id) == CalculateClaimableEther(id, HintOf(id))

ClaimsCovered ==
  Sum([id \in Finalized |-> IF queue[id].claimed THEN 0 ELSE Worth(id)])
    <= lockedEtherAmount + mixed

\* The owner index holds exactly the unclaimed requests of each owner, so
\* that the asserts on it in _claim, _transfer and _enqueue never fail.
OwnersIndexed ==
  \A o \in Owners :
    requestsByOwner[o] = {id \in DOMAIN queue : queue[id].owner = o /\ ~queue[id].claimed}

\* The queue is the escrow WithdrawalEscrow.tla describes: first come, first
\* settled, for an amount that later reports do not change, paid once.
Escrow == INSTANCE WithdrawalEscrow WITH
  entries <- [id \in DOMAIN queue |-> [owner  |-> queue[id].owner,
                                       amount |-> StETHIn(queue, id - 1, id)]],
  worth   <- [id \in Finalized |-> Worth(id)],
  paid    <- {id \in DOMAIN queue : queue[id].claimed},
  paidOut <- sent

ImplementsEscrow == Escrow!Spec
===================================================================================
