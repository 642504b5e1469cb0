SPECIFICATION Spec
CONSTANTS
  t1 = t1
  t2 = t2
  l = l
  None = None
  Messages <- Sends
  Conversations <- Chats
  Home <- HomeOf
  Tabs <- TwoTabs
  Book <- BothReadFirst
  Listers <- Lister
  Limit = 1
CONSTRAINT OneKindReads
SYMMETRY TabSymmetry
INVARIANT AllListed
