SPECIFICATION Spec
CONSTANTS
  p1 = p1
  p2 = p2
  planA = planA
  planB = planB
  Procs = {p1, p2}
  PlanOf <- MCSamePlan
  ArgSets <- MCFirstAnyArgs
  Runs = 2
  Overlap = FALSE
  MaxSeconds = 2
INVARIANTS ArchivesAreSound ResultIsTheRuns ExitZeroMeansArchived SelfCheckOnRecord
PROPERTIES ArchivesAreFinal
CHECK_DEADLOCK FALSE
