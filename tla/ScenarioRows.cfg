SPECIFICATION Spec
CONSTANTS
  Chains <- MCChains
  Names = {"x"}
  Weights = {}
  Rates = {}
  Saturates = {}
  MaxBuilders = 2
  MaxScenarios = 2
  MaxSteps = 2
  MaxSlots = 1
  U32 = 4
  RateArgs = {}
  Connections = 7
  Files <- MCFiles
  Entries <- MCEntries
  MaxFiles = 1
  MaxOps = 1
  Ladder <- MCLadder
  Exports <- MCExports
  Percents = {5, 60}
  MaxP = 6
INVARIANT RowsAreTheScenarios
CHECK_DEADLOCK FALSE
