----------------------------------- MODULE Lido ------------------------------------
(***************************************************************************)
(* Lido.sol with the parts it settles a report with: the shares of         *)
(* StETH.sol, Burner.sol, the two vaults, the fee split of                 *)
(* StakingRouter.sol, the checks of OracleReportSanityChecker.sol and the  *)
(* side of WithdrawalQueue.sol that a report finalizes.                    *)
(*                                                                         *)
(* Their storage is one record, so that handleOracleReport can be applied  *)
(* as a transaction or evaluated as a static call:                         *)
(*   bufferedEther, depositedValidators, clValidators, clBalance, shares   *)
(*   (by account), totalShares, cover and nonCover (burn requests),        *)
(*   withdrawalVault and elVault, balance (the ether of the Lido contract),*)
(*   queue, lastFinalized, lockedEther, bunker.                            *)
(* The protocol is not stopped and the queue not paused; staking limits    *)
(* and the deposit security module are not modelled.                       *)
(***************************************************************************)
EXTENDS TokenRebaseLimiter, FinalizationBatches, FiniteSets, FiniteSetsExt

CONSTANTS DEPOSIT_SIZE,
          TOTAL_BASIS_POINTS,
          FEE_PRECISION_POINTS,
          DEFAULT_CL_BALANCE,    \* of the sanity checker: stands for a balance of zero
          Modules,               \* staking modules
          ModuleConfig,          \* module -> [active, fee, treasuryFee, stopped]
          Limits                 \* of the sanity checker, see LimitsType

LimitsType == [maxPositiveTokenRebase : Nat \ {0}, oneOffCLBalanceDecreaseBPLimit : Nat,
               clBalanceIncreaseBPLimit : Nat, appearedValidatorsLimit : Nat,
               requestTimestampMargin : Nat, simulatedShareRateDeviationBPLimit : Nat]

ASSUME LidoAssumption ==
  /\ {DEPOSIT_SIZE, TOTAL_BASIS_POINTS, FEE_PRECISION_POINTS, DEFAULT_CL_BALANCE}
       \subseteq Nat \ {0}
  /\ ModuleConfig \in [Modules -> [active : Nat, fee : 0..TOTAL_BASIS_POINTS,
                                   treasuryFee : 0..TOTAL_BASIS_POINTS, stopped : BOOLEAN]]
  /\ \A m \in Modules : ModuleConfig[m].fee + ModuleConfig[m].treasuryFee <= TOTAL_BASIS_POINTS
  /\ Limits \in LimitsType
  /\ IsFiniteSet(Modules) /\ {"holders", "queue", "burner", "treasury"} \cap Modules = {}

Accounts == {"holders", "queue", "burner", "treasury"} \cup Modules

Request == [cumulativeStETH : Nat, cumulativeShares : Nat, timestamp : Int, reportTimestamp : Int]

Pool == [bufferedEther : Nat, depositedValidators : Nat, clValidators : Nat, clBalance : Nat,
         shares : [Accounts -> Nat], totalShares : Nat, cover : Nat, nonCover : Nat,
         withdrawalVault : Nat, elVault : Nat, balance : Nat, queue : Seq(Request),
         lastFinalized : Nat, lastReportTimestamp : Int, lockedEther : Nat, bunker : BOOLEAN]

-------------------------------------------------------------------------------
\* Shares

\* _getTotalPooledEther
TotalPooledEther(p) ==
  p.bufferedEther + p.clBalance + (p.depositedValidators - p.clValidators) * DEPOSIT_SIZE

GetSharesByPooledEth(p, amount) == (amount * p.totalShares) \div TotalPooledEther(p)

MintShares(p, account, n) ==
  [p EXCEPT !.shares[account] = @ + n, !.totalShares = @ + n]

BurnShares(p, account, n) ==
  [p EXCEPT !.shares[account] = @ - n, !.totalShares = @ - n]

TransferShares(p, from, to, n) ==
  [p EXCEPT !.shares[from] = @ - n, !.shares[to] = @ + n]

-------------------------------------------------------------------------------
\* Users and node operators

\* _submit
Submit(p, amount) ==
  LET minted == MintShares(p, "holders", GetSharesByPooledEth(p, amount))
  IN [minted EXCEPT !.bufferedEther = @ + amount, !.balance = @ + amount]

LastStETH(p)   == IF p.queue = << >> THEN 0 ELSE p.queue[Len(p.queue)].cumulativeStETH
LastShares(p)  == IF p.queue = << >> THEN 0 ELSE p.queue[Len(p.queue)].cumulativeShares

UnfinalizedStETH(p) ==
  LastStETH(p) - (IF p.lastFinalized = 0 THEN 0 ELSE p.queue[p.lastFinalized].cumulativeStETH)

\* requestWithdrawals of one amount
CanRequest(p, amount) == GetSharesByPooledEth(p, amount) \in 1..p.shares["holders"]

RequestWithdrawal(p, amount, timestamp) ==
  LET n == GetSharesByPooledEth(p, amount)
  IN [TransferShares(p, "holders", "queue", n) EXCEPT
        !.queue = Append(@, [cumulativeStETH  |-> LastStETH(p) + amount,
                             cumulativeShares |-> LastShares(p) + n,
                             timestamp        |-> timestamp,
                             reportTimestamp  |-> p.lastReportTimestamp])]

CanDeposit(p) == ~p.bunker

GetDepositableEther_Fault(p) == p.bufferedEther      \* fault: nothing is kept for withdrawals
GetDepositableEther(p) ==
  IF p.bufferedEther > UnfinalizedStETH(p) THEN p.bufferedEther - UnfinalizedStETH(p) ELSE 0

\* deposit
MaxDepositsCount(p) == GetDepositableEther(p) \div DEPOSIT_SIZE

Deposit(p, n) ==
  [p EXCEPT !.bufferedEther = @ - n * DEPOSIT_SIZE, !.balance = @ - n * DEPOSIT_SIZE,
            !.depositedValidators = @ + n]

\* requestBurnShares, requestBurnSharesForCover
RequestBurnShares(p, from, n, isCover) ==
  LET moved == TransferShares(p, from, "burner", n)
  IN IF isCover THEN [moved EXCEPT !.cover = @ + n] ELSE [moved EXCEPT !.nonCover = @ + n]

\* recoverExcessStETH
ExcessStETHShares(p) == p.shares["burner"] - (p.cover + p.nonCover)

\* The excess is sent as an amount of stETH, rounded down both ways.
RecoverExcessStETH(p) ==
  LET amount == (ExcessStETHShares(p) * TotalPooledEther(p)) \div p.totalShares
  IN TransferShares(p, "burner", "treasury", GetSharesByPooledEth(p, amount))

-------------------------------------------------------------------------------
\* Fees: getStakingRewardsDistribution of the router, _distributeFee of Lido

TotalActive == SumOver([m \in Modules |-> ModuleConfig[m].active], Modules)

ValidatorsShare(m) == (ModuleConfig[m].active * FEE_PRECISION_POINTS) \div TotalActive

ModuleFee(m) == (ValidatorsShare(m) * ModuleConfig[m].fee) \div TOTAL_BASIS_POINTS

TreasuryFee(m) == (ValidatorsShare(m) * ModuleConfig[m].treasuryFee) \div TOTAL_BASIS_POINTS

\* A stopped module's fee is charged and left to the treasury.
PaidFee(m) == IF ModuleConfig[m].stopped THEN 0 ELSE ModuleFee(m)

TotalFee ==
  IF TotalActive = 0 THEN 0 ELSE SumOver([m \in Modules |-> ModuleFee(m) + TreasuryFee(m)], Modules)

SharesToMint(preTotalPooledEther, preTotalShares, rewards) ==
  (rewards * TotalFee * preTotalShares)
    \div ((preTotalPooledEther + rewards) * FEE_PRECISION_POINTS - rewards * TotalFee)

\* What the treasury gets: all that the modules do not.
TreasuryReward_Fault(minted, moduleReward) ==      \* fault: its own share, rounded like the others
  (minted * SumOver([m \in Modules |-> TreasuryFee(m)], Modules)) \div TotalFee
TreasuryReward(minted, moduleReward) == minted - SumOver(moduleReward, Modules)

DistributeFee(p, preTotalPooledEther, preTotalShares, rewards) ==
  LET minted       == SharesToMint(preTotalPooledEther, preTotalShares, rewards)
      moduleReward == [m \in Modules |-> (minted * PaidFee(m)) \div TotalFee]
      treasury     == TreasuryReward(minted, moduleReward)
  IN IF TotalFee = 0
     THEN p
     ELSE [p EXCEPT
             !.totalShares = @ + minted,
             !.shares = [a \in Accounts |->
                           p.shares[a] + (IF a \in Modules THEN moduleReward[a]
                                          ELSE IF a = "treasury" THEN treasury ELSE 0)]]

-------------------------------------------------------------------------------
\* The report, r: [refSlot, numValidators, clBalance, withdrawalVaultBalance,
\* elRewardsVaultBalance, sharesRequestedToBurn, batches, rate, bunker].

\* _processClStateUpdate: what the consensus layer held before, the validators
\* that have appeared since included.
PreCLBalance(p, r) == p.clBalance + (r.numValidators - p.clValidators) * DEPOSIT_SIZE

\* A balance is unsigned: a negative one cannot even be encoded.
CLStateAccepted(p, r) ==
  r.clBalance >= 0 /\ r.numValidators \in p.clValidators..p.depositedValidators

\* checkAccountingOracleReport.  The two limits per unit of time are given for
\* the time between two reports.
CLDecreaseAccepted(pre, post) ==
  \/ pre <= post
  \/ (TOTAL_BASIS_POINTS * (pre - post)) \div pre <= Limits.oneOffCLBalanceDecreaseBPLimit

CLIncreaseAccepted(pre, post) ==
  LET base == IF pre = 0 THEN DEFAULT_CL_BALANCE ELSE pre
  IN \/ base >= post
     \/ (TOTAL_BASIS_POINTS * (post - base)) \div base <= Limits.clBalanceIncreaseBPLimit

ReportChecked(p, r) ==
  LET pre == PreCLBalance(p, r)
  IN /\ r.withdrawalVaultBalance <= p.withdrawalVault
     /\ r.elRewardsVaultBalance <= p.elVault
     /\ r.sharesRequestedToBurn <= p.cover + p.nonCover
     /\ CLDecreaseAccepted(pre, r.clBalance + r.withdrawalVaultBalance)
     /\ CLIncreaseAccepted(pre, r.clBalance)
     /\ r.numValidators - p.clValidators <= Limits.appearedValidatorsLimit

\* _calculateWithdrawals: the checks of _checkLastFinalizableId and prefinalize.
LastBatch(r) == r.batches[Len(r.batches)]

BatchesAccepted(p, r) ==
  \/ r.batches = << >>
  \/ /\ r.rate # 0
     /\ LastBatch(r) <= Len(p.queue)
     /\ r.refSlot >= p.queue[LastBatch(r)].timestamp + Limits.requestTimestampMargin
     /\ \A n \in DOMAIN r.batches : r.batches[n] > BatchStart(p.lastFinalized, r.batches, n)

EtherToLock(p, r) ==
  IF r.batches = << >> THEN 0 ELSE Prefinalize(p.queue, p.lastFinalized, r.batches, r.rate)

SharesToFinalize(p, r) ==
  IF r.batches = << >> THEN 0 ELSE SharesIn(p.queue, p.lastFinalized, LastBatch(r))

Smoothed(p, r) ==
  SmoothenTokenRebase(
    InitLimiterState(Limits.maxPositiveTokenRebase, TotalPooledEther(p), p.totalShares),
    PreCLBalance(p, r), r.clBalance, r.withdrawalVaultBalance, r.elRewardsVaultBalance,
    r.sharesRequestedToBurn, EtherToLock(p, r), SharesToFinalize(p, r))

\* _collectRewardsAndProcessWithdrawals: the vaults pay in, the queue is paid
\* and remembers how far; it is left alone when there is nothing to lock.
Collect(p, r, withdrawals, elRewards, lock) ==
  LET paid == withdrawals + elRewards - lock
  IN [p EXCEPT !.withdrawalVault = @ - withdrawals,
               !.elVault         = @ - elRewards,
               !.balance         = @ + paid,
               !.bufferedEther   = @ + paid,
               !.lockedEther     = @ + lock,
               !.lastFinalized   = IF lock > 0 THEN LastBatch(r) ELSE @]

\* commitSharesToBurn and _burnShares: covers first.
CommitSharesToBurn_Fault(p, n) ==      \* fault: all taken from the other requests
  [BurnShares(p, "burner", n) EXCEPT !.nonCover = @ - n]
CommitSharesToBurn(p, n) ==
  LET forCover == Least(n, p.cover)
  IN [BurnShares(p, "burner", n) EXCEPT !.cover = @ - forCover, !.nonCover = @ - (n - forCover)]

\* _processRewards: a fee only if the consensus layer earned something.
ProcessRewards(p, r, pre, withdrawals, elRewards) ==
  LET earned == r.clBalance + withdrawals - PreCLBalance(pre, r)
  IN IF earned > 0
     THEN DistributeFee(p, TotalPooledEther(pre), pre.totalShares, earned + elRewards)
     ELSE p

\* checkSimulatedShareRate
ShareRateAccepted(totalPooledEther, totalShares, rate) ==
  LET actual == (totalPooledEther * E27_PRECISION_BASE) \div totalShares
      diff   == IF actual > rate THEN actual - rate ELSE rate - actual
  IN /\ actual # 0
     /\ (TOTAL_BASIS_POINTS * diff) \div actual <= Limits.simulatedShareRateDeviationBPLimit

\* handleOracleReport: whether it goes through and, if so, what it leaves
\* behind and returns.
BurnRequested(p, r) ==
  IF SharesToFinalize(p, r) = 0
  THEN p
  ELSE RequestBurnShares(p, "queue", SharesToFinalize(p, r), FALSE)

\* s: what the limiter lets through.
Settled(p, r, s) ==
  LET updated   == [BurnRequested(p, r) EXCEPT !.clValidators = r.numValidators,
                                               !.clBalance = r.clBalance]
      collected == Collect(updated, r, s.withdrawals, s.elRewards, EtherToLock(p, r))
      burnt     == CommitSharesToBurn(collected, s.sharesToBurn)
  IN ProcessRewards(burnt, r, p, s.withdrawals, s.elRewards)

\* The rate that is left, the queue's ether and shares put back.
RateAsSimulated(p, r, s, post) ==
  ShareRateAccepted(TotalPooledEther(post) + EtherToLock(p, r),
                    post.totalShares + s.sharesToBurn - s.simulatedSharesToBurn, r.rate)

ReportAccepted(p, r, s, post) ==
  /\ CLStateAccepted(p, r)
  /\ ReportChecked(p, r)
  /\ BatchesAccepted(p, r)
  /\ ~s.negative
  /\ EtherToLock(p, r) <= p.bufferedEther + s.withdrawals + s.elRewards
  /\ r.batches # << >> =>
       /\ EtherToLock(p, r) <= StETHIn(p.queue, p.lastFinalized, LastBatch(r))
       /\ RateAsSimulated(p, r, s, post)

\* The outcome, as a set with one element.
HandleOracleReport(p, r) ==
  UNION {{[accepted    |-> ReportAccepted(p, r, s, post),
           pool        |-> post,
           withdrawals |-> s.withdrawals,
           elRewards   |-> s.elRewards] : post \in {Settled(p, r, s)}} : s \in {Smoothed(p, r)}}

\* _handleConsensusReportData of AccountingOracle.sol tells the withdrawal
\* queue first (onOracleReport), then Lido.
OnOracleReport(p, r) == [p EXCEPT !.bunker = r.bunker, !.lastReportTimestamp = r.refSlot]

-------------------------------------------------------------------------------
\* Nothing is lost or made up: all shares belong to an account, the fee to the
\* last share; the buffer is the ether the contract holds; the burner holds
\* what it was asked to burn and the queue what is still to be finalized
\* (Lido.sol:967-1044, 814-846, Burner.sol:286-327).
Balanced(p) ==
  /\ p.totalShares = SumOver(p.shares, Accounts)
  /\ p.bufferedEther = p.balance
  /\ p.shares["burner"] >= p.cover + p.nonCover
  /\ p.shares["queue"] = IF p.lastFinalized = Len(p.queue)
                         THEN 0
                         ELSE SharesIn(p.queue, p.lastFinalized, Len(p.queue))
===================================================================================
