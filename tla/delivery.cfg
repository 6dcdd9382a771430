SPECIFICATION FairSpec
CONSTANTS
  None = None
  MaxCmd = 2
  Dev = {d1, d2}
  Conn = {c1, c2}
  App = {"web", "mobile"}
  MaxOutbox <- OutboxRoom
  MaxEach = 1
  MaxFaults = 1
INVARIANTS TypeOK PromisesAreTrue OncePerDevice InOrder OutboxMatchesPromises UnauthorizedIsTrue
PROPERTIES OutboxDrains RevokedIsToldOnOneSocket
CHECK_DEADLOCK FALSE
