CONSTANTS
  c1 = c1
  Caller = {c1}
  MaxCalls = 3
  MaxStrings = 2
  MaxFound = 2
  Slack = {0, 1}
SPECIFICATION FairSpec
INVARIANTS
  TypeOK
  NothingLeftBehind
  UsedWhileLive
PROPERTIES
  RefinesResource
  EventuallyFreed
CHECK_DEADLOCK FALSE
