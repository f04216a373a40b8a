SPECIFICATION FairRunSpec
CONSTANTS
  Workers = {w1}
  NumShards = 2
  NumScenarios = 1
  NumErrorKinds = 1
  ShardOf <- MCShardOf
  Sids = {0}
  MaxOps <- MCOne
  MaxTicks = 2
INVARIANT NothingLost
PROPERTIES FrozenAfterCompletion QuitEndsTheRun
CHECK_DEADLOCK FALSE
