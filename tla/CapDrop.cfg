SPECIFICATION CapSpec
CONSTANTS
  Setpcap = setpcap
  Caps = {setpcap, bind, other}
INVARIANT OnlyKeptSurvive
INVARIANT NothingReturns
INVARIANT WorksIfKeepable
CHECK_DEADLOCK FALSE
