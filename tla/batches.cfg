SPECIFICATION Spec
CONSTANTS
  E27_PRECISION_BASE = 10000
  MAX_BATCHES_LENGTH = 2
  Amounts = {41, 1000}
  Pools <- ThreePools
  ShareRates = {8000, 10000, 12700}
  Budgets = {1041, 1900, 2990}
  CallSizes = {1, 2}
  QueueLength = 4
INVARIANTS
  LongestPrefixFound
  EtherMatchesBudget
CHECK_DEADLOCK FALSE
