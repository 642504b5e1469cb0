SPECIFICATION FairSpec
CONSTANTS
  c1 = c1
  c2 = c2
  o1 = o1
  NoGroup = NoGroup
  Consumers <- TwoConsumers
  Orders <- OneOrder
  BatchSize = 2
  MaxEntries = 3
  MaxStarts = 3
  MaxErrors = 2
INVARIANTS
  AckedTookEffect
  HandledOnce
  StrandedHasCause
  NotesInOrder
PROPERTIES
  InboxSpec
  DroppedHasCause
  EntriesSettle
CHECK_DEADLOCK FALSE
