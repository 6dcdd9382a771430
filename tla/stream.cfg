SPECIFICATION Spec
CONSTANTS
  ingest = ingest
  handler = handler
  d1 = d1
  k1 = k1
  r1 = r1
  c1 = c1
  None = None
  Device = {d1}
  Permission = {r1}
  Question = {}
  Key = {k1}
  Value <- MCValue
  Conn = {c1}
  Writer = {ingest, handler}
  WriterEvents <- MCWriterEvents
  QueueCap = 1
  MaxLog = 2
  MaxSession = 2
  ConnectAgain = FALSE
  UserCloses = TRUE
  MaxDrops = 1
INVARIANTS TypeOK LiveViewIsLog OnlyTheWindowLosesEvents
PROPERTIES Implements
CHECK_DEADLOCK FALSE
