SPECIFICATION Spec
CONSTANTS
  phone = phone
  t1 = t1
  browser = browser
  lan = lan
  tail = tail
  loop = loop
  None = None
  Cli = Cli
  App = {phone, browser}
  Mobile = {phone}
  Host <- Hosts
  Localhost <- Loopback
  Origin <- Loopback
  Code <- Codes
  Token = {t1}
  Bound <- Bounds
  MaxLost = 0
INVARIANTS
  IdentityIsSaved
CHECK_DEADLOCK FALSE
