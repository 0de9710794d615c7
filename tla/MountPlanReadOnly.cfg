SPECIFICATION Spec
CONSTANTS
  Paths <- MCPaths
  Plans <- SmallPlans
  Hosts <- MCHosts
INVARIANT ReadOnlyHolds
