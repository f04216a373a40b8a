SPECIFICATION Spec
CONSTANTS
  Chains <- MCChains
  Names = {"x"}
  Weights = {}
  Rates = {12}
  Saturates = {}
  MaxBuilders = 1
  MaxScenarios = 1
  MaxSteps = 1
  MaxSlots = 1
  U32 = 4
  RateArgs = {12}
  Connections = 7
  Files <- MCFiles
  Entries <- MCEntries
  MaxFiles = 1
  MaxOps = 1
  Ladder <- MCLadder
  Exports <- MCExports
  Percents = {5, 60}
  MaxP = 6
INVARIANT RatesReachTheBackend
CHECK_DEADLOCK FALSE
