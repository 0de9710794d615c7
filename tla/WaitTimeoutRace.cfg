SPECIFICATION WSpec
CONSTANTS
  PidReuse = TRUE
  Timeouts = {0, 1, 2}
  MaxTime = 3
INVARIANT TimeoutEndedIt
