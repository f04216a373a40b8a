SPECIFICATION Spec
CONSTANTS
  w1 = w1
  w2 = w2
  Workers = {w1, w2}
  NumShards = 1
  NumScenarios = 0
  NumErrorKinds = 1
  ShardOf <- MCShardOf
  Sids = {0}
  MaxOps <- MCCalls
  MaxTicks = 2
INVARIANTS TypeOK NothingLost NothingTwice RequestsLeadByOne
PROPERTY EveryCellIsAFeed
CHECK_DEADLOCK FALSE
