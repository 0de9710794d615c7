SPECIFICATION Spec
CONSTANTS
  Requests <- AllRequests
  Faults = {"job", "spawn", "assign", "terminate"}
  Timeouts = {0, 1, 2, 3}
  Infinite = 2
  MaxTime = 3
INVARIANT TypeOK
INVARIANT JobEndsWithRun
INVARIANT TimeoutIsGenuine
INVARIANT TrailTellsOutcome
PROPERTY TimeoutsHonoured
