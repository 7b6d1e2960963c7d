SPECIFICATION Spec
CONSTANTS
  NumHolders = 3
  HoldersInOneTx = 2
  MinOperators = 2
  MinKeys = 2
  Configs <- MCConfigs
  MaxRuns = 3
INVARIANTS
  VerifiesEveryDeployed
