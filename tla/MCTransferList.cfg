CONSTANTS
  c1 = c1
  Caller = {c1}
  MaxCalls = 3
  MaxStrings = 2
  MaxFound = 2
  Slack = {0, 1}
SPECIFICATION Spec
INVARIANT
  ListFreedAsAllocated
CHECK_DEADLOCK FALSE
