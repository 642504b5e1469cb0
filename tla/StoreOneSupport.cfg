SPECIFICATION Spec
CONSTANTS
  r1 = r1
  r2 = r2
  r3 = r3
  u1 = u1
  u2 = u2
  a1 = a1
  a2 = a2
  sys = sys
  order = order
  Support = Support
  Fresh = Fresh
  None = None
  Keys = {1, 2}
  Users <- TwoUsers
  Admins <- AllAdmins
  Topics <- BothTopics
  Requests <- ThreeRequests
  Tasks <- OpenTasks
  Existing <- NoneExisting
INVARIANT OneSupportEach
CHECK_DEADLOCK FALSE
