SPECIFICATION Spec
CONSTANTS
  s1 = s1
  s2 = s2
  s3 = s3
  p = p
  q = q
  conv = conv
  Listener = Listener
  Idle = Idle
  Sockets <- ThreeSockets
  Principals <- TwoPrincipals
  Conversations <- OneConversation
  Owner <- TwoTabs
  MaxEvents = 2
  MaxSends = 1
SYMMETRY TabSymmetry
INVARIANTS
  TypeOK
  RegistryOwned
  CalmReachesAll
  OnlyTabsUnsubscribe
  FanoutInOrder
CHECK_DEADLOCK FALSE
