SPECIFICATION Spec
CONSTANTS
  NumConns = 2
  Modes = {TRUE, FALSE}
  ConnectMayFail = TRUE
  Kinds = {"keep", "close", "nolen", "bad"}
  MaxJobs = 3
  MaxBurst = 2
INVARIANTS EveryJobInOnePlace IdlePoolExact SaturateKeepsBusy
CHECK_DEADLOCK FALSE
