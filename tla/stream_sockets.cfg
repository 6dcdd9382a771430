SPECIFICATION FairSpec
CONSTANTS
  ingest = ingest
  handler = handler
  d1 = d1
  k1 = k1
  r1 = r1
  c1 = c1
  c2 = c2
  None = None
  Device = {d1}
  Permission = {r1}
  Question = {}
  Key = {k1}
  Value <- MCValue
  Conn = {c1, c2}
  Writer = {ingest}
  WriterEvents <- PlainEvents
  QueueCap = 3
  MaxLog = 2
  MaxSession = 1
  ConnectAgain = TRUE
  UserCloses = FALSE
  MaxDrops = 1
PROPERTIES Implements GetsLive
CHECK_DEADLOCK FALSE
