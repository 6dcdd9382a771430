SPECIFICATION FairSpec
CONSTANTS
  c1 = c1
  c2 = c2
  c3 = c3
  d1 = d1
  d2 = d2
  k1 = k1
  k2 = k2
  k3 = k3
  k4 = k4
  k5 = k5
  p1 = p1
  q1 = q1
  None = None
  Device = {d1, d2}
  Permission = {p1}
  Question = {q1}
  Key = {k1, k2, k3, k4, k5}
  Value <- MCValue
  Conn = {c1, c3}
  DeviceOf <- TwoConnDeviceOf
  Outbox <- LiveOutbox
  EventBuffer = 2
  StoreMayFail = FALSE
  AgentMayFail = FALSE
  AnswersUnseen = FALSE
  MaxLog = 1
PROPERTIES
  EveryEventBroadcast
  ResolvedReachesAgent
CHECK_DEADLOCK FALSE
