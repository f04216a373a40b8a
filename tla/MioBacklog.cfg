SPECIFICATION FairSpec
CONSTANTS
  NumConns = 1
  Modes = {TRUE}
  ConnectMayFail = FALSE
  Kinds = {"keep", "close", "nolen", "bad"}
  MaxJobs = 5
  MaxBurst = 3
INVARIANTS OldestFirst LossAtExitBounded
PROPERTIES TokensLeaveTheQueue AnswersAreRecorded
CHECK_DEADLOCK FALSE
