SPECIFICATION Spec
CONSTANTS
  Request = {r1}
  None = None
  MaxText = 2
  MaxNotices = 1
  MaxItems = 3
  Bound <- LongOrBroken
INVARIANTS TypeOK TextIsKept TurnsDoNotMix ToolsFinishLifo CardsAreOpenRequests NothingIsSkipped
CHECK_DEADLOCK FALSE
