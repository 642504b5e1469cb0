SPECIFICATION FairSpec
CONSTANTS
  m = m
  i1 = i1
  i2 = i2
  w1 = w1
  w2 = w2
  p = p
  None = None
  Messages <- OneMessage
  Instances <- TwoInstances
  Sockets <- TwoSockets
  Principals <- OnePrincipal
  Owner <- OneOwner
  MaxQueue = 1
INVARIANTS
  NothingPhantom
  NoGap
PROPERTY EventuallyTold
