SPECIFICATION FairSpec
CONSTANTS
  phone = phone
  t1 = t1
  browser = browser
  lan = lan
  tail = tail
  loop = loop
  None = None
  Cli = Cli
  App = {phone, browser}
  Mobile = {phone}
  Host <- Hosts
  Localhost <- Loopback
  Origin <- Loopback
  Code <- Codes
  Token = {t1}
  Bound <- Bounds
  MaxLost = 1
INVARIANTS
  EveryAddressTried
  EveryDeviceWasApproved
  OneTimeUnlessOverlapping
  SavedIsUsable
PROPERTIES
  PairingEnds
CHECK_DEADLOCK FALSE
