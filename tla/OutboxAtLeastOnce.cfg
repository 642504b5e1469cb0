SPECIFICATION FairSpec
CONSTANTS
  w1 = w1
  w2 = w2
  Workers <- OneWorker
  Events = {1}
  BatchSize = 1
  MaxAttempts = 2
  BaseDelay = 1
  MaxDelay = 2
  MaxRollbacks = 0
PROPERTIES
  AtLeastOnce
CHECK_DEADLOCK FALSE
