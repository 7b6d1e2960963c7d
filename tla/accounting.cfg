SPECIFICATION Spec
CONSTANTS
  SLOTS_PER_EPOCH = 2
  Self = ao
  Processors = {ao}
  Hashes <- Slots
  ZeroHash = zero
  Versions = {1}
  DataVersion <- AllVersion1
  Config <- OneEpoch
  ModuleOf <- ThreeOperators
  MaxKeys <- OneEach
  Unreliable = {2}
  MaxSlot = 7
INVARIANTS
  TypeOK
  CountsSettle
  ReportsNeverRefused
PROPERTIES
  NeverAfterNextObservation
CHECK_DEADLOCK FALSE
