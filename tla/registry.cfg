SPECIFICATION Spec
VIEW WithoutNonce
CONSTANTS
  MAX_NODE_OPERATORS_COUNT = 2
  MAX_STUCK_PENALTY_DELAY = 1
  Targets = {0, 1}
  MaxKeys <- TwoAndOne
  MaxTime = 2
  MaxReward = 4
  MaxBuckets = 3
  MaxFill = 3
  MaxSize = 5
INVARIANTS
  TypeOK
  CountsConsistent
  DepositableIsObtainable
  ResultIsMinFirst
  PayoutsCovered
  TrueReportAccepted
PROPERTIES
  NonceFollowsKeysButRefunds
