SPECIFICATION Spec
CONSTANTS
  Chains <- MCChains
  Names = {"x", "y"}
  Weights = {3}
  Rates = {12}
  Saturates = {5}
  MaxBuilders = 2
  MaxScenarios = 2
  MaxSteps = 2
  MaxSlots = 2
  U32 = 4
  RateArgs = {12}
  Connections = 7
  Files <- MCFiles
  Entries <- MCEntries
  MaxFiles = 2
  MaxOps = 2
  Ladder <- MCLadder
  Exports <- MCExports
  Percents = {5, 60}
  MaxP = 6
INVARIANTS
  PlanIsTheInputs
  ReportIsTheRun
  ExitZeroIsClean
  GatesFollowTheRuns
  EvidenceIsExact
CHECK_DEADLOCK FALSE
