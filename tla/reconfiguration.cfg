SPECIFICATION Spec
SYMMETRY AllSymmetry
CONSTANTS
  SLOTS_PER_EPOCH = 1
  Processors = {p1, p2}
  h1 = h1
  h2 = h2
  Hashes = {h1, h2}
  ZeroHash = zero
  Versions = {1}
  DataVersion <- AllVersion1
  Addresses = {a1, a2}
  Quorums = {1, 2}
  UNREACHABLE_QUORUM = 100
  InitialEpochs = {2}
  FAR_FUTURE_EPOCH = 1000
  FrameLengths = {1, 2}
  FastLanes = {0}
  MaxSlot = 3
  MaxSwitches = 1
INVARIANTS
  OraclesNotAhead
  CommitteeNeverBlocked
PROPERTIES
  SlotsOnlyAdvance
