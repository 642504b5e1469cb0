SPECIFICATION FairSpec
CONSTANTS
  w1 = w1
  w2 = w2
  Workers <- TwoWorkers
  Events = {1, 2}
  BatchSize = 2
  MaxAttempts = 3
  BaseDelay = 1
  MaxDelay = 3
  MaxRollbacks = 2
INVARIANTS
  ClaimsDisjoint
  CopiesBounded
  StuckMeansExhausted
  DuplicatesExplained
  RelayInvariant
PROPERTIES
  FinalIsFinal
  RelaySpec
  EventuallyFinal
CHECK_DEADLOCK FALSE
