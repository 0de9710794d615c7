SPECIFICATION Spec
CONSTANTS
  Requests <- AllowlistRequests
  Faults = {}
  Forks = FALSE
  PidReuse = FALSE
  Timeouts = {1}
  MaxTime = 1
PROPERTY LostListenerIsFatal
CHECK_DEADLOCK FALSE
