SPECIFICATION Spec
CONSTANTS
  Requests <- AllRequests
  Faults = {}
  Timeouts = {1}
  Infinite = 2
  MaxTime = 2
INVARIANT TreeEndsWithRun
