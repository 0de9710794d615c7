SPECIFICATION Spec
CONSTANTS
  Requests <- EveryRequest
  Faults = {"plan", "channel", "fork", "setup", "exec", "kill", "receive", "limits", "attach"}
  Forks = TRUE
  PidReuse = TRUE
  Timeouts = {1}
  MaxTime = 2
INVARIANT TypeOK
INVARIANT FailClosed
INVARIANT ClaimsHold
INVARIANT ChildAccountedFor
INVARIANT AnswerIsRight
INVARIANT StepsCanSucceed
INVARIANT CgroupRemoved
INVARIANT NoUnreportedKill
INVARIANT NoFalseTimeout
INVARIANT TrailTellsOutcome
PROPERTY BoundedWaitReturns
PROPERTY BoundedRunReturns
PROPERTY ContractSpec
CHECK_DEADLOCK FALSE
