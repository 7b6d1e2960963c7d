--------------------------------- MODULE Reporting ---------------------------------
(***************************************************************************)
(* lib/protocol/helpers/accounting.ts and finalizeWithdrawalQueue of       *)
(* withdrawal.ts: the client that prepares an oracle report, has the       *)
(* committee agree on it and pushes it, against the protocol of Lido.tla.  *)
(*                                                                         *)
(* Every transaction the client awaits is a step of its own, and so is     *)
(* every read that decides what comes next; reads in a row are one step.   *)
(* What has been read is kept in work until it is used.  Between two steps *)
(* the users of the same chain may act.  A call that reverts, or an        *)
(* expectation that does not hold, throws: the operation ends and failure  *)
(* says why.                                                               *)
(* Time is counted in slots; the client moves the chain's clock itself.    *)
(* Reports carry no extra data here (AccountingOracle.tla has them).       *)
(***************************************************************************)
EXTENDS Lido, Frames

CONSTANTS FrameCfg,               \* of HashConsensus
          OffsetSlots,            \* slots added to the start of the next frame
          CallSize,               \* MAX_REQUESTS_PER_CALL
          MIN_MEMBERS_COUNT,
          Committees,             \* [total, quorum] before the client runs
          ReportOptions,          \* arguments of report, see OptionsType
          DefaultOptions,         \* report(ctx)
          StartPool,
          StartSlot,
          Submits, Requests, Rewards, Burns,      \* amounts of the users' transactions
          Waits,                                  \* slots that pass between two operations
          TopUpAmount,
          BalanceTolerance,                       \* by which a balance may miss what was paid
          Holdings,               \* shares that the holder who drains the queue may have before
          MaxTxs, MaxReports      \* bounds: users' transactions, the client's operations

OptionsType == [clDiff : Int, clAppearedValidators : Nat, skipWithdrawals : BOOLEAN,
                excludeVaultsBalances : BOOLEAN, dryRun : BOOLEAN, waitNextReportTime : BOOLEAN]

ASSUME ReportingAssumption ==
  /\ FrameCfg \in FrameConfig /\ ValidConfig(FrameCfg)
  /\ OffsetSlots \in 1..FrameCfg.epochsPerFrame * SLOTS_PER_EPOCH
  /\ ReportOptions \cup {DefaultOptions} \subseteq OptionsType
  /\ Committees \subseteq [total : Nat, quorum : Nat]
  /\ \A c \in Committees : c.total = 0 \/ c.quorum \in c.total \div 2 + 1..c.total
  /\ StartPool \in Pool /\ Balanced(StartPool) /\ StartPool.queue = << >>
  /\ StartPool.lastFinalized = 0 /\ StartPool.clValidators <= StartPool.depositedValidators
  /\ StartSlot \in Nat /\ FrameStarted(StartSlot, FrameCfg) /\ RefSlotAt(StartSlot, FrameCfg) > 0
  /\ {CallSize, MIN_MEMBERS_COUNT, TopUpAmount} \subseteq Nat \ {0}
  /\ Submits \cup Requests \cup Rewards \cup Burns \subseteq Nat \ {0} /\ Waits \subseteq Nat
  /\ Holdings \cup {BalanceTolerance} \subseteq Nat

VARIABLES slot,
          pool,           \* storage of the contracts of Lido.tla
          committee,      \* members and quorum of HashConsensus
          votes,          \* [member, data] of the frame
          processed,      \* last processing reference slot of AccountingOracle
          extraSubmitted,
          pc, work,       \* the client: where it is, and its local variables
          failure,
          touched,        \* history: a user acted since the client read the chain
          txs, reports    \* bounds

chainVars  == <<slot, pool>>
oracleVars == <<committee, votes, processed, extraSubmitted>>
clientVars == <<pc, work, failure>>
bounds     == <<txs, reports>>
vars == <<chainVars, oracleVars, clientVars, touched, bounds>>

SlotsPerFrame == FrameCfg.epochsPerFrame * SLOTS_PER_EPOCH

CurrentRefSlot == RefSlotAt(slot, FrameCfg)

NoData ==
  [refSlot |-> 0, numValidators |-> 0, clBalance |-> 0, withdrawalVaultBalance |-> 0,
   elRewardsVaultBalance |-> 0, sharesRequestedToBurn |-> 0, batches |-> << >>, rate |-> 0,
   bunker |-> FALSE]

\* opt: the options of the report; data: the report; sim: what the simulation
\* returned; calc: the state of the batch calculation; asked: members that have
\* voted.  Of finalizeWithdrawalQueue: drains: the report is one of it; before and
\* held: the holder's shares before and after the first submit; drained: the
\* queue was finalized when its ends were read.
NoWork == [opt |-> DefaultOptions, data |-> NoData,
           sim |-> [postTotalPooledEther |-> 0, collected |-> 0],
           calc |-> StartState(0), asked |-> {},
           drains |-> FALSE, before |-> 0, held |-> 0, drained |-> FALSE]

opt  == work.opt
data == work.data

Init ==
  /\ slot = StartSlot
  /\ pool = StartPool
  /\ committee \in Committees
  /\ votes = {} /\ processed = 0 /\ extraSubmitted = FALSE
  /\ pc = "idle" /\ work = NoWork /\ failure = "none"
  /\ touched = FALSE
  /\ txs = 0 /\ reports = 0

-------------------------------------------------------------------------------
\* Users and node operators

Transactions ==
  {Submit(pool, a) : a \in Submits}
  \cup {RequestWithdrawal(pool, a, slot) : a \in {x \in Requests : CanRequest(pool, x)}}
  \cup {Deposit(pool, n) : n \in IF CanDeposit(pool) THEN 1..MaxDepositsCount(pool) ELSE {}}
  \cup {[pool EXCEPT !.elVault = @ + a] : a \in Rewards}
  \cup {[pool EXCEPT !.withdrawalVault = @ + a] : a \in Rewards}
  \cup {RequestBurnShares(pool, "holders", n, c) :
          n \in {x \in Burns : x <= pool.shares["holders"]}, c \in BOOLEAN}
  \cup {TransferShares(pool, "holders", "burner", n) :
          n \in {x \in Burns : x <= pool.shares["holders"]}}
  \cup {RecoverExcessStETH(pool)}

UserActs ==
  /\ txs < MaxTxs
  /\ pool' \in Transactions \ {pool}
  /\ txs' = txs + 1
  /\ touched' = (pc # "idle")
  /\ UNCHANGED <<slot, oracleVars, clientVars, reports>>

\* A test moves the clock between two operations.
PassTime ==
  /\ pc = "idle" /\ txs < MaxTxs
  /\ \E n \in Waits : slot' = slot + n
  /\ votes' = IF CurrentRefSlot' = CurrentRefSlot THEN votes ELSE {}
  /\ txs' = txs + 1
  /\ UNCHANGED <<pool, committee, processed, extraSubmitted, clientVars, touched, reports>>

-------------------------------------------------------------------------------
\* The client's control: on to the next call, back to the caller, or an error.

Continue(next, w) == pc' = next /\ work' = w /\ failure' = failure

Return == pc' = "idle" /\ work' = NoWork /\ failure' = failure

Throw(why) == pc' = "idle" /\ work' = NoWork /\ failure' = why

Begin(first, w) ==
  /\ pc = "idle" /\ reports < MaxReports
  /\ reports' = reports + 1
  /\ pc' = first /\ work' = w /\ failure' = "none"

AtReport(o) == IF o.waitNextReportTime THEN "wait" ELSE "read"

Report ==
  /\ \E o \in ReportOptions : Begin(AtReport(o), [NoWork EXCEPT !.opt = o])
  /\ UNCHANGED <<chainVars, oracleVars, touched, txs>>

\* finalizeWithdrawalQueue: the stETH holder, new or not, submits.
FinalizeWithdrawalQueue ==
  /\ \E n \in {x \in Holdings : x <= pool.shares["holders"]} :
       Begin("holder", [NoWork EXCEPT
                          !.before = n,
                          !.held   = n + GetSharesByPooledEth(pool, TopUpAmount)])
  /\ pool' = Submit(pool, TopUpAmount)
  /\ UNCHANGED <<slot, oracleVars, touched, txs>>

\* The members that getFastLaneMembers returns in this frame.
FastLane ==
  {i \in 0..committee.total - 1 :
     IsFastLaneIndex(i, FrameIndex(slot, FrameCfg), committee.quorum, committee.total)}

\* ensureOracleCommitteeMembers: members are counted by the fast lane.
EnsureOracleCommitteeMembers ==
  /\ Begin("idle", NoWork)
  /\ committee' =
       LET missing == MIN_MEMBERS_COUNT - Cardinality(FastLane)
       IN IF missing > 0
          THEN [total |-> committee.total + missing, quorum |-> MIN_MEMBERS_COUNT]
          ELSE committee
  /\ UNCHANGED <<chainVars, votes, processed, extraSubmitted, touched, txs>>

-------------------------------------------------------------------------------
\* report

\* waitNextAvailableReportTime.  The frame that starts has no votes.
NextReportSlot == CurrentRefSlot + SlotsPerFrame + OffsetSlots

WaitNextAvailableReportTime ==
  /\ pc = "wait"
  /\ slot' = NextReportSlot
  /\ votes' = {}
  /\ IF RefSlotAt(slot', FrameCfg) = CurrentRefSlot + SlotsPerFrame
     THEN Continue("read", work)
     ELSE Throw("expectation")
  /\ UNCHANGED <<pool, committee, processed, extraSubmitted, touched, bounds>>

\* What the report says of the chain, and nothing yet of withdrawals.
ReadData(o) ==
  [NoData EXCEPT
     !.refSlot                = CurrentRefSlot,
     !.numValidators          = pool.clValidators + o.clAppearedValidators,
     !.clBalance              = pool.clBalance + o.clDiff,
     !.withdrawalVaultBalance = IF o.excludeVaultsBalances THEN 0 ELSE pool.withdrawalVault,
     !.elRewardsVaultBalance  = IF o.excludeVaultsBalances THEN 0 ELSE pool.elVault,
     !.sharesRequestedToBurn  = pool.cover + pool.nonCover]

\* A dry run returns the data instead of submitting it.
WithData(w) == IF opt.dryRun THEN Return ELSE Continue("consensus", w)

Read ==
  LET w == [work EXCEPT !.data = ReadData(opt)]
  IN /\ pc = "read"
     /\ IF opt.skipWithdrawals THEN WithData(w) ELSE Continue("simulate", w)
     /\ touched' = FALSE
     /\ UNCHANGED <<chainVars, oracleVars, bounds>>

\* simulateReport: handleOracleReport as a static call, with no shares to burn
\* and no withdrawals.  The rate of the report is the one it leads to.
SimulatedReport(d) ==
  HandleOracleReport(pool, [d EXCEPT !.sharesRequestedToBurn = 0])

RateAfter_Fault(p) == TotalPooledEther(p) \div p.totalShares      \* fault: not scaled
RateAfter(p) == (TotalPooledEther(p) * E27_PRECISION_BASE) \div p.totalShares

Simulate ==
  /\ pc = "simulate"
  /\ \E s \in SimulatedReport(data) :
       IF s.accepted
       THEN Continue("budget",
              [work EXCEPT !.sim = [postTotalPooledEther |-> TotalPooledEther(s.pool),
                                    collected            |-> s.withdrawals + s.elRewards],
                           !.data.rate = RateAfter(s.pool)])
       ELSE Throw("refused")
  /\ UNCHANGED <<chainVars, oracleVars, touched, bounds>>

\* getFinalizationBatches: the ether that is there for withdrawals ...
AvailableEth == work.sim.collected + Least(pool.bufferedEther, UnfinalizedStETH(pool))

Budget ==
  /\ pc = "budget"
  /\ Continue(IF AvailableEth = 0 THEN "bunker" ELSE "calculate",
              [work EXCEPT !.calc = StartState(AvailableEth)])
  /\ UNCHANGED <<chainVars, oracleVars, touched, bounds>>

\* ... and one call after the other until the queue says that it is finished.
\* Requests have to be older than the margin now, not at the reference slot.
MaxTimestamp == slot - Limits.requestTimestampMargin

\* Fault: every call starts afresh.
Calculate_Fault ==
  LET s == CalculateFinalizationBatches(pool.queue, pool.lastFinalized, data.rate,
                                        MaxTimestamp, CallSize, StartState(AvailableEth))
      finished == IsFinished(pool.queue, pool.lastFinalized, s)
  IN /\ pc = "calculate"
     /\ Continue(IF finished THEN "bunker" ELSE pc, [work EXCEPT !.calc = s])
     /\ UNCHANGED <<chainVars, oracleVars, touched, bounds>>

Calculate ==
  LET s == CalculateFinalizationBatches(pool.queue, pool.lastFinalized, data.rate,
                                        MaxTimestamp, CallSize, work.calc)
      finished == IsFinished(pool.queue, pool.lastFinalized, s)
  IN /\ pc = "calculate"
     /\ IF work.calc.budget = 0
        THEN Throw("exhausted")
        ELSE Continue(IF finished THEN "bunker" ELSE pc, [work EXCEPT !.calc = s])
     /\ UNCHANGED <<chainVars, oracleVars, touched, bounds>>

\* Bunker mode: the report would lower the pooled ether.

IsLoss_Fault == pool.clBalance > data.clBalance      \* fault: what the vaults add is left out
IsLoss == TotalPooledEther(pool) > work.sim.postTotalPooledEther

Bunker ==
  /\ pc = "bunker"
  /\ WithData([work EXCEPT !.data.batches = work.calc.batches, !.data.bunker = IsLoss])
  /\ UNCHANGED <<chainVars, oracleVars, touched, bounds>>

-------------------------------------------------------------------------------
\* submitReport

\* submitReport of HashConsensus, by the fast lane's next member.
HasVoted(m) == \E v \in votes : v.member = m

VoteRefused(m) ==
  \/ processed >= data.refSlot /\ HasVoted(m)
  \/ [member |-> m, data |-> data] \in votes

VotesWith(m) ==
  IF processed >= data.refSlot
  THEN votes
  ELSE {v \in votes : v.member # m} \cup {[member |-> m, data |-> data]}

NextVoter == Min(FastLane \ work.asked)

\* calcReportDataHash encodes the balance as an unsigned number.
Encodable(d) == d.clBalance >= 0

ReachConsensus ==
  /\ pc = "consensus" /\ FastLane \ work.asked # {}
  /\ IF ~Encodable(data) \/ VoteRefused(NextVoter)
     THEN Throw("refused") /\ votes' = votes
     ELSE /\ Continue(pc, [work EXCEPT !.asked = @ \cup {NextVoter}])
          /\ votes' = VotesWith(NextVoter)
  /\ UNCHANGED <<chainVars, committee, processed, extraSubmitted, touched, bounds>>

\* getConsensusState
IsConsensus(d) ==
  /\ votes # {}
  /\ Cardinality({v \in votes : v.data = d}) >= committee.quorum

ConsensusExpected ==
  /\ pc = "consensus" /\ FastLane \subseteq work.asked
  /\ IF IsConsensus(data) THEN Continue("main", work) ELSE Throw("expectation")
  /\ UNCHANGED <<chainVars, oracleVars, touched, bounds>>

\* submitReportData of AccountingOracle
Submitted(p, d) == HandleOracleReport(OnOracleReport(p, d), d)

SubmitReportData ==
  /\ pc = "main"
  /\ \E outcome \in Submitted(pool, data) :
       IF outcome.accepted /\ processed < data.refSlot
       THEN /\ Continue("extra", work)
            /\ pool' = outcome.pool
            /\ processed' = data.refSlot
            /\ extraSubmitted' = FALSE
       ELSE Throw("refused") /\ UNCHANGED <<pool, processed, extraSubmitted>>
  /\ UNCHANGED <<slot, committee, votes, touched, bounds>>

\* submitReportExtraDataEmpty, and the expectations on the processing state.
SubmitReportExtraData ==
  /\ pc = "extra"
  /\ extraSubmitted' = TRUE
  /\ IF CurrentRefSlot # data.refSlot \/ ~IsConsensus(data) \/ processed # data.refSlot
     THEN Throw("expectation")
     ELSE IF work.drains THEN Continue("queue", NoWork) ELSE Return
  /\ UNCHANGED <<chainVars, committee, votes, processed, touched, bounds>>

-------------------------------------------------------------------------------
\* finalizeWithdrawalQueue

Drained == pool.lastFinalized = Len(pool.queue)

\* The holder's balance, expected to be what was just paid, and the queue's ends.
BalanceExpected ==
  (work.held * TotalPooledEther(pool)) \div pool.totalShares
    \in TopUpAmount - BalanceTolerance..TopUpAmount + BalanceTolerance

\* The head of the loop decides on what was read last.
HeadOfLoop(isDrained) ==
  IF isDrained THEN Continue("last", NoWork) ELSE Continue("wait", [NoWork EXCEPT !.drains = TRUE])

HolderExpected ==
  /\ pc = "holder"
  /\ IF BalanceExpected THEN HeadOfLoop(Drained) ELSE Throw("balance")
  /\ UNCHANGED <<chainVars, oracleVars, touched, bounds>>

\* In the loop the ends are read before the submit.
ReadQueue ==
  /\ pc = "queue"
  /\ Continue("topup", [NoWork EXCEPT !.drained = Drained])
  /\ UNCHANGED <<chainVars, oracleVars, touched, bounds>>

TopUp ==
  /\ pc = "topup"
  /\ HeadOfLoop(work.drained)
  /\ pool' = Submit(pool, TopUpAmount)
  /\ UNCHANGED <<slot, oracleVars, touched, bounds>>

\* The submit after the loop.
LastTopUp ==
  /\ pc = "last"
  /\ Return
  /\ pool' = Submit(pool, TopUpAmount)
  /\ UNCHANGED <<slot, oracleVars, touched, bounds>>

\* handleOracleReport of the client: straight to Lido, as the accounting oracle.
HandleReportDirectly ==
  /\ pc = "idle" /\ reports < MaxReports
  /\ reports' = reports + 1
  /\ \E o \in ReportOptions : \E outcome \in HandleOracleReport(pool, ReadData(o)) :
       /\ pool' = IF outcome.accepted THEN outcome.pool ELSE pool
       /\ failure' = IF outcome.accepted THEN "none" ELSE "refused"
  /\ UNCHANGED <<slot, oracleVars, pc, work, touched, txs>>

-------------------------------------------------------------------------------
ClientStep ==
  \/ WaitNextAvailableReportTime \/ Read \/ Simulate \/ Budget \/ Calculate \/ Bunker
  \/ ReachConsensus \/ ConsensusExpected \/ SubmitReportData \/ SubmitReportExtraData
  \/ HolderExpected \/ ReadQueue \/ TopUp \/ LastTopUp

Next ==
  \/ UserActs \/ PassTime
  \/ Report \/ FinalizeWithdrawalQueue \/ EnsureOracleCommitteeMembers \/ HandleReportDirectly
  \/ ClientStep

\* The client awaits one call after the other and the node mines each at once.
Spec == Init /\ [][Next]_vars /\ WF_vars(ClientStep)

-------------------------------------------------------------------------------
\* Properties

TypeOK ==
  /\ slot \in Nat /\ pool \in Pool
  /\ committee \in [total : Nat, quorum : Nat]
  /\ processed \in Nat /\ extraSubmitted \in BOOLEAN
  /\ pc \in {"idle", "wait", "read", "simulate", "budget", "calculate", "bunker", "consensus",
             "main", "extra", "holder", "queue", "topup", "last"}
  /\ failure \in {"none", "refused", "expectation", "balance", "exhausted"}
  /\ \A v \in votes : v.member \in 0..committee.total - 1

\* Nothing is lost or made up, whoever acts in whatever order: shares, buffered
\* ether, burn requests and the queue's shares add up (Lido.sol:967-1044).
Conserved == Balanced(pool)

\* The pool is worth something, and so is what a report takes out of the queue:
\* requests that cost no ether would have their shares burnt and would still not
\* be finalized (Lido.sol:833-840 pays the queue only if there is ether to lock).
Solvent ==
  /\ TotalPooledEther(pool) > 0 /\ pool.totalShares > 0
  /\ pc = "main" /\ data.batches # << >> /\ BatchesAccepted(pool, data)
       => EtherToLock(pool, data) > 0

\* What a report may do to the share rate, rate(p) = TotalPooledEther(p) /
\* p.totalShares, compared without rounding.

\* What the consensus layer earned beyond the limit: the limiter does not hold it back.
CLExcess(p, r) ==
  LET gain == r.clBalance - PreCLBalance(p, r)
      room == (Limits.maxPositiveTokenRebase * TotalPooledEther(p)) \div LIMITER_PRECISION_BASE
  IN IF gain > room THEN gain - room ELSE 0

\* The rate grows from p to q by the limit and less than one unit of the limit's
\* precision for every share of p.
GrowsWithinLimit(p, q, excess) ==
  (TotalPooledEther(q) - excess) * p.totalShares * LIMITER_PRECISION_BASE
    <= TotalPooledEther(p)
         * (q.totalShares * (Limits.maxPositiveTokenRebase + LIMITER_PRECISION_BASE)
            + p.totalShares)

\* A report lifts the share rate by no more than the limit, if there is one, whatever
\* is in the vaults and waiting to be burnt, and whatever leaves through the queue,
\* except by what the consensus layer itself earned
\* (OracleReportSanityChecker.sol:351-396).
LiftedWithinLimit ==
  [][pc = "main" /\ pc' = "extra" /\ Limits.maxPositiveTokenRebase # UNLIMITED_REBASE
       => GrowsWithinLimit(pool, pool', CLExcess(pool, data))]_vars

\* If it was prepared and pushed while nobody else acted and is no loss, the rate is
\* not lowered: those who leave through the queue take no more than their part, and
\* fees come out of the rewards only (Lido.sol:1150-1269).
LoweredByLossOnly ==
  [][pc = "main" /\ pc' = "extra" /\ ~touched /\ ~data.bunker /\ ~opt.skipWithdrawals
       => TotalPooledEther(pool) * pool'.totalShares
            <= TotalPooledEther(pool') * pool.totalShares]_vars

\* Both together: the share rate a report leaves behind.
RebaseBounded == LiftedWithinLimit /\ LoweredByLossOnly

\* Deposits are closed exactly after a loss: the bunker mode the client
\* computed on a simulation is what the report turned out to be, its
\* withdrawals set aside.
BunkerIsLoss ==
  [][pc = "main" /\ pc' = "extra" /\ ~touched /\ ~opt.skipWithdrawals =>
       LET locked == pool'.lockedEther - pool.lockedEther
       IN pool'.bunker = (TotalPooledEther(pool') + locked < TotalPooledEther(pool))]_vars

\* The client's expectations of a report: the clock stands in the next frame, the
\* committee agrees on the report, and it is what was processed.  None of them fails unless
\* there is nobody to vote, whatever the users do in between, and whatever was voted for or
\* processed before (accounting.ts:321, 619-631, 750).
ExpectationsMet ==
  [][pc # "idle" /\ failure' # failure /\ failure' = "expectation" => committee.total = 0]_vars

\* The expectation of a drain, on the balance of the holder that has just submitted, fails
\* only for a holder that had stETH before, as after a drain of its own, whoever acts
\* between the submit and the reading (withdrawal.ts:48-52).
BalanceMet ==
  [][pc # "idle" /\ failure' # failure /\ failure' = "balance" => work.before > 0]_vars

\* A transaction or a static call of the client is refused for one of these reasons: the
\* frame is already reported; an earlier push in it failed after the member had voted for the
\* very same data; numbers the sanity checks exclude; a request younger than the margin at
\* the reference slot, which the client measures from the block it runs in
\* (accounting.ts:448-449); or a share rate farther from the simulated one than the limit.
TooYoung ==
  /\ data.batches # << >>
  /\ data.refSlot < pool.queue[LastBatch(data)].timestamp + Limits.requestTimestampMargin

OutOfLimits(d) == ~CLStateAccepted(pool, d) \/ ~ReportChecked(pool, d)

\* The rate was simulated before users acted, or the report burns shares: the simulation
\* leaves them out (accounting.ts:364).  A report nobody has come between and that burns
\* nothing for others than the queue passes the check of its rate, whatever leaves through
\* the queue and whatever the fees.
StaleRate ==
  /\ touched \/ data.sharesRequestedToBurn > 0
  /\ data.batches # << >>
  /\ \E s \in {Smoothed(pool, data)} :
       ~RateAsSimulated(pool, data, s, Settled(pool, data, s))

RefusedForCause ==
  [][pc # "idle" /\ failure' # failure /\ failure' = "refused" =>
       \/ processed >= data.refSlot
       \/ pc = "consensus" /\ [member |-> NextVoter, data |-> data] \in votes
       \/ OutOfLimits(data)
       \/ TooYoung
       \/ StaleRate]_vars

\* All together.  The one failure left is a budget used up to the last wei with requests
\* left to look at, on which the next call reverts (WithdrawalQueueBase.sol:221).
FailsOnlyForCause == ExpectationsMet /\ BalanceMet /\ RefusedForCause

\* A drain comes to its end: finalizeWithdrawalQueue does not report for ever.
DrainEnds == (pc = "holder") ~> (pc = "idle")
===================================================================================
