SPECIFICATION Spec
CONSTANTS
  NumConns = 2
  Modes = {TRUE}
  ConnectMayFail = TRUE
  Kinds = {"keep"}
  MaxJobs = 1
  MaxBurst = 1
INVARIANTS EventsReachTheirConnection
CHECK_DEADLOCK FALSE
