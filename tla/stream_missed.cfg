SPECIFICATION Spec
CONSTANTS
  ingest = ingest
  handler = handler
  d1 = d1
  k1 = k1
  r1 = r1
  c1 = c1
  None = None
  Device = {d1}
  Permission = {r1}
  Question = {}
  Key = {k1}
  Value <- MCValue
  Conn = {c1}
  Writer = {ingest, handler}
  WriterEvents <- MCWriterEvents
  QueueCap = 4
  MaxLog = 2
  MaxSession = 1
  ConnectAgain = FALSE
  UserCloses = FALSE
  MaxDrops = 0
INVARIANTS CaughtUp
CHECK_DEADLOCK FALSE
