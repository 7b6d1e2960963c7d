SPECIFICATION Spec
CONSTANTS
  MAX_NODE_OPERATORS_COUNT = 1
  MAX_STUCK_PENALTY_DELAY = 1
  Targets = {0}
  MaxKeys <- TwoKeys
  MaxTime = 2
  MaxReward = 0
  MaxBuckets = 0
  MaxFill = 0
  MaxSize = 0
PROPERTY NonceFollowsKeys
