SPECIFICATION FairSpec
CONSTANTS
  ingest = ingest
  handler = handler
  d1 = d1
  k1 = k1
  r1 = r1
  c1 = c1
  None = None
  Device = {d1}
  Permission = {r1}
  Question = {}
  Key = {k1}
  Value <- MCValue
  Conn = {c1}
  Writer = {ingest, handler}
  WriterEvents <- PlainEvents
  QueueCap = 4
  MaxLog = 2
  MaxSession = 2
  ConnectAgain = FALSE
  UserCloses = FALSE
  MaxDrops = 0

PROPERTIES GetsLive
CHECK_DEADLOCK FALSE
