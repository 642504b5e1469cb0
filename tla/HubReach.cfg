SPECIFICATION Spec
CONSTANTS
  s1 = s1
  s2 = s2
  s3 = s3
  p = p
  q = q
  conv = conv
  Listener = Listener
  Idle = Idle
  Sockets <- ThreeSockets
  Principals <- TwoPrincipals
  Conversations <- OneConversation
  Owner <- TwoTabs
  MaxEvents = 1
  MaxSends = 0
INVARIANT
  SubscribersReached
CHECK_DEADLOCK FALSE
