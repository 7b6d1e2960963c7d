-------------------------------- MODULE MCReporting --------------------------------
(***************************************************************************)
(* Instances of Reporting for TLC: two staking modules, one of them        *)
(* stopped; a pool whose share rate is not one; frames of 32 slots.        *)
(***************************************************************************)
EXTENDS Reporting, TLC

CONSTANTS m1, m2

MCModules == {m1, m2}

MCModuleConfig ==
  (m1 :> [active |-> 2, fee |-> 500, treasuryFee |-> 500, stopped |-> FALSE])
    @@ (m2 :> [active |-> 1, fee |-> 800, treasuryFee |-> 200, stopped |-> TRUE])

MCLimits ==
  [maxPositiveTokenRebase |-> 6, oneOffCLBalanceDecreaseBPLimit |-> 500,
   clBalanceIncreaseBPLimit |-> 1500, appearedValidatorsLimit |-> 1,
   requestTimestampMargin |-> 11, simulatedShareRateDeviationBPLimit |-> 250]

MCFrameCfg == [initialEpoch |-> 1, epochsPerFrame |-> 2, fastLaneLengthSlots |-> 5]

MCCommittees == {[total |-> 0, quorum |-> 0], [total |-> 4, quorum |-> 3]}

MCPool ==
  [bufferedEther |-> 250, depositedValidators |-> 3, clValidators |-> 2, clBalance |-> 405,
   shares |-> [a \in Accounts |-> IF a = "holders" THEN 700 ELSE 0],
   totalShares |-> 700, cover |-> 0, nonCover |-> 0, withdrawalVault |-> 0, elVault |-> 0,
   balance |-> 250, queue |-> << >>, lastFinalized |-> 0, lastReportTimestamp |-> 0,
   lockedEther |-> 0, bunker |-> FALSE]

Option(diff, appeared, skip, exclude, dry, wait) ==
  [clDiff |-> diff, clAppearedValidators |-> appeared, skipWithdrawals |-> skip,
   excludeVaultsBalances |-> exclude, dryRun |-> dry, waitNextReportTime |-> wait]

MCDefaultOptions == Option(30, 0, FALSE, FALSE, FALSE, TRUE)

MCReportOptions ==
  {MCDefaultOptions,
   Option(-20, 0, FALSE, FALSE, FALSE, TRUE),
   Option(288, 1, FALSE, TRUE, FALSE, TRUE),
   Option(0, 0, TRUE, FALSE, FALSE, FALSE),
   Option(-150, 0, TRUE, FALSE, FALSE, TRUE),
   Option(30, 0, FALSE, FALSE, TRUE, TRUE)}
===================================================================================
