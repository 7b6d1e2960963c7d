SPECIFICATION Spec
CONSTANTS
  m1 = m1
  m2 = m2
  E27_PRECISION_BASE = 10000
  MAX_BATCHES_LENGTH = 3
  LIMITER_PRECISION_BASE = 300
  UNLIMITED_REBASE = 1000000
  DEPOSIT_SIZE = 200
  TOTAL_BASIS_POINTS = 10000
  FEE_PRECISION_POINTS = 1000
  DEFAULT_CL_BALANCE = 1
  Modules <- MCModules
  ModuleConfig <- MCModuleConfig
  Limits <- MCLimits
  SLOTS_PER_EPOCH = 16
  FrameCfg <- MCFrameCfg
  OffsetSlots = 10
  CallSize = 1
  MIN_MEMBERS_COUNT = 3
  Committees <- MCCommittees
  ReportOptions <- MCReportOptions
  DefaultOptions <- MCDefaultOptions
  StartPool <- MCPool
  StartSlot = 20
  Submits = {375}
  Requests = {45, 350}
  Rewards = {60}
  Burns = {35}
  Waits = {25}
  TopUpAmount = 150
  BalanceTolerance = 3
  Holdings = {0, 50}
  MaxTxs = 2
  MaxReports = 2
INVARIANTS
  TypeOK
  Conserved
  Solvent
PROPERTIES
  RebaseBounded
  BunkerIsLoss
  FailsOnlyForCause
  DrainEnds
CHECK_DEADLOCK FALSE
