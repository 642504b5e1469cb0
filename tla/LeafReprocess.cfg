SPECIFICATION FairSpec
CONSTANTS
  c1 = c1
  c2 = c2
  o1 = o1
  NoGroup = NoGroup
  Consumers <- OneConsumer
  Orders <- OneOrder
  BatchSize = 2
  MaxEntries = 1
  MaxStarts = 2
  MaxErrors = 1
PROPERTY
  Reprocessed
CHECK_DEADLOCK FALSE
