SPECIFICATION Spec
SYMMETRY AnyOwner
VIEW WithoutBunkerMode
CONSTANTS
  E27_PRECISION_BASE = 11
  MAX_BATCHES_LENGTH = 2
  PAUSE_INFINITELY = 1000
  BUNKER_MODE_DISABLED_TIMESTAMP = 1000
  Owners = {o1, o2}
  Amounts = {3, 4}
  Pools <- TwoPools
  Budgets = {8}
  Durations = {1}
  PauseEnds = {3}
  MaxRequests = 3
  StartTime = 1
  MaxTime = 4
INVARIANTS
  TypeOK
  OneHintAndFound
  ClaimsCovered
  OwnersIndexed
PROPERTIES
  ImplementsEscrow
CHECK_DEADLOCK FALSE
