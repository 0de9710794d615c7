SPECIFICATION Spec
CONSTANTS
  Paths <- MCPaths
  Plans <- SmallPlans
  Hosts <- MCHosts
INVARIANT MountTypeOK
INVARIANT DenyWins
INVARIANT AccessAsListed
INVARIANT LayersAgree
INVARIANT OnlyFreshMountsFail
INVARIANT HostChangesNamed
