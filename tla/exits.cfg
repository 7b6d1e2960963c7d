SPECIFICATION Spec
CONSTANTS
  SLOTS_PER_EPOCH = 2
  PAUSE_INFINITELY = 1000
  Self = eb
  Processors = {eb}
  Hashes <- Lists
  ZeroHash = zero
  Versions = {1}
  DataVersion <- AllVersion1
  Config <- OneEpoch
  NodeOpIds = 2
  Indices = 2
  Modules = 1
  MaxRequests = 3
  Durations = {2, 1000}
  PauseEnds = {4}
  MaxSlot = 7
INVARIANTS
  TypeOK
  RequestedOnce
  AttestedIndicesHold
CHECK_DEADLOCK FALSE
