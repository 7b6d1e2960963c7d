---------------------------- MODULE TokenRebaseLimiter -----------------------------
(***************************************************************************)
(* PositiveTokenRebaseLimiter.sol and smoothenTokenRebase of               *)
(* OracleReportSanityChecker.sol: how much of the vaults' ether, and how   *)
(* many of the shares waiting to be burnt, one report may use before the   *)
(* share rate has grown by the limit.                                      *)
(*                                                                         *)
(* A limiter l holds what TokenRebaseLimiterData keeps of the pool before  *)
(* the report; its currentTotalPooledEther is the argument `current`.      *)
(***************************************************************************)
EXTENDS Integers

CONSTANTS LIMITER_PRECISION_BASE,
          UNLIMITED_REBASE

ASSUME LimiterAssumption ==
  /\ {LIMITER_PRECISION_BASE, UNLIMITED_REBASE} \subseteq Nat \ {0}
  /\ LIMITER_PRECISION_BASE < UNLIMITED_REBASE

Least(a, b) == IF a <= b THEN a ELSE b

-------------------------------------------------------------------------------
InitLimiterState(rebaseLimit, preTotalPooledEther, preTotalShares) ==
  [preTotalPooledEther |-> preTotalPooledEther,
   preTotalShares      |-> preTotalShares,
   positiveRebaseLimit |-> IF preTotalPooledEther = 0 THEN UNLIMITED_REBASE ELSE rebaseLimit]

IsUnlimited(l) == l.positiveRebaseLimit = UNLIMITED_REBASE

MaxTotalPooledEther(l) ==
  l.preTotalPooledEther
    + (l.positiveRebaseLimit * l.preTotalPooledEther) \div LIMITER_PRECISION_BASE

IsLimitReached(l, current) == current >= MaxTotalPooledEther(l)

DecreaseEther(l, current, amount) == IF IsUnlimited(l) THEN current ELSE current - amount

IncreaseEther(l, current, amount) ==
  IF IsUnlimited(l) THEN current ELSE Least(current + amount, MaxTotalPooledEther(l))

\* What increaseEther returns: the part of amount that fits.
Consumed(l, current, amount) ==
  IF IsUnlimited(l) THEN amount ELSE IncreaseEther(l, current, amount) - current

GetSharesToBurnLimit(l, current) ==
  LET rebaseLimitPlus1 == l.positiveRebaseLimit + LIMITER_PRECISION_BASE
      pooledEtherRate  == (current * LIMITER_PRECISION_BASE) \div l.preTotalPooledEther
  IN IF IsUnlimited(l) THEN l.preTotalShares
     ELSE IF IsLimitReached(l, current) THEN 0
     ELSE (l.preTotalShares * (rebaseLimitPlus1 - pooledEtherRate)) \div rebaseLimitPlus1

-------------------------------------------------------------------------------
\* The consensus layer's gain or loss comes first and is never held back.
AfterCLUpdate(l, preCLBalance, postCLBalance) ==
  IF postCLBalance < preCLBalance
  THEN DecreaseEther(l, l.preTotalPooledEther, preCLBalance - postCLBalance)
  ELSE IncreaseEther(l, l.preTotalPooledEther, postCLBalance - preCLBalance)

\* Fault: the shares are limited before the ether to lock is taken out.
SmoothenTokenRebase_Fault(l, preCL, postCL, withdrawalVault, elVault, toBurn, toLock, newToBurn) ==
  LET cl    == AfterCLUpdate(l, preCL, postCL)
      wd    == IncreaseEther(l, cl, withdrawalVault)
      el    == IncreaseEther(l, wd, elVault)
      final == DecreaseEther(l, el, toLock)
  IN [withdrawals           |-> Consumed(l, cl, withdrawalVault),
      elRewards             |-> Consumed(l, wd, elVault),
      simulatedSharesToBurn |-> Least(GetSharesToBurnLimit(l, el), toBurn),
      sharesToBurn          |-> Least(GetSharesToBurnLimit(l, el), newToBurn + toBurn),
      negative              |-> cl < 0 \/ final < 0]

\* smoothenTokenRebase; it reverts when the pooled ether would fall below zero.
SmoothenTokenRebase(l, preCL, postCL, withdrawalVault, elVault, toBurn, toLock, newToBurn) ==
  LET cl    == AfterCLUpdate(l, preCL, postCL)
      wd    == IncreaseEther(l, cl, withdrawalVault)
      el    == IncreaseEther(l, wd, elVault)
      final == DecreaseEther(l, el, toLock)
  IN [withdrawals           |-> Consumed(l, cl, withdrawalVault),
      elRewards             |-> Consumed(l, wd, elVault),
      simulatedSharesToBurn |-> Least(GetSharesToBurnLimit(l, el), toBurn),
      sharesToBurn          |-> Least(GetSharesToBurnLimit(l, final), newToBurn + toBurn),
      negative              |-> cl < 0 \/ final < 0]
===================================================================================
