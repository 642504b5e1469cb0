SPECIFICATION FairSpec
CONSTANTS
  s1 = s1
  s2 = s2
  s3 = s3
  p = p
  q = q
  conv = conv
  Listener = Listener
  Idle = Idle
  Sockets <- TwoSockets
  Principals <- OnePrincipal
  Conversations <- OneConversation
  Owner <- AllOfP
  MaxEvents = 2
  MaxSends = 1
PROPERTIES
  BroadcastsEnd
  ChannelDrains
CHECK_DEADLOCK FALSE
