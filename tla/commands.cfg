SPECIFICATION Spec
CONSTANTS
  c1 = c1
  c2 = c2
  c3 = c3
  d1 = d1
  d2 = d2
  k1 = k1
  k2 = k2
  k3 = k3
  k4 = k4
  k5 = k5
  p1 = p1
  q1 = q1
  None = None
  Device = {d1, d2}
  Permission = {p1}
  Question = {}
  Key = {k1, k2, k3, k4, k5}
  Value <- MCValue
  Conn = {c1, c2, c3}
  DeviceOf <- MCDeviceOf
  Outbox <- SafetyOutbox
  EventBuffer = 1
  StoreMayFail = TRUE
  AgentMayFail = TRUE
  AnswersUnseen = TRUE
  MaxLog = 2
INVARIANTS
  TypeOK
  FirstAnswerWins
  AnswersFollowRequests
  ExactlyOnce
  PendingMatchesLog
  AckNamesItsEvent
  RefusedMeansNoEffect
  AgentReleasedByLog
CHECK_DEADLOCK FALSE
