SPECIFICATION FairSpec
CONSTANTS
  w1 = w1
  w2 = w2
  Workers = {w1, w2}
  NumScenarios = 1
  Intervals = {0, 1}
  SleepCap = 2
  Deadline = 1
  Tls = TRUE
  Shapes = {"length", "bad"}
  MaxOps = 1
INVARIANTS NeverEarly EverySlotAccounted
PROPERTY RunEnds
CHECK_DEADLOCK FALSE
