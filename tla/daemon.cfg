SPECIFICATION FairSpec
CONSTANTS
  Platforms = {TRUE, FALSE}
  KeyDamage = TRUE
  MaxKeys = 2
  MaxStarts = 3
INVARIANTS TypeOK PinsStayGood FilesAreRepaired StraysExplained
PROPERTIES StopEnds
CHECK_DEADLOCK FALSE
