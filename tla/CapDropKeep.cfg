SPECIFICATION CapSpec
CONSTANTS
  Setpcap = setpcap
  Caps = {setpcap, bind}
INVARIANT KeepWorksInNamespace
CHECK_DEADLOCK FALSE
