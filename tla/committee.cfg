SPECIFICATION Spec
SYMMETRY MemberSymmetry
CONSTANTS
  SLOTS_PER_EPOCH = 2
  Processors = {p1}
  h1 = h1
  h2 = h2
  Hashes = {h1, h2}
  ZeroHash = zero
  Versions = {1, 2}
  DataVersion <- FirstIsVersion1
  Addresses = {a1, a2, a3}
  Quorums = {1, 2, 3}
  UNREACHABLE_QUORUM = 100
  InitialEpochs = {1}
  FAR_FUTURE_EPOCH = 1000
  FrameLengths = {1}
  FastLanes = {0, 1}
  MaxSlot = 4
  MaxSwitches = 1
INVARIANTS
  TypeOK
  VotesCounted
PROPERTIES
  ImplementsVoting
