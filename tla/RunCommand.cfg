SPECIFICATION Spec
CONSTANTS
  MaxU64 = 255
  Exact = 16
  Spacings = {2, 4, 8, 16, 32, 64, 128, 256}
  UnitSize <- MCUnitSize
  Minute = 3
  Hour = 9
  Day = 27
  MaxToml = 2000
  Paths = {"PATH", "Path"}
  Secrets = {"API_KEY"}
  DefaultMemory = 32
  BaseOf <- MCBaseOf
  LowMemory = 16
  Inputs <- MCInputs
  Environments <- MCEnvironments
  Changes = TRUE
INVARIANT RcTypeOK
INVARIANT AcceptedIsPlannable
INVARIANT FilterDecides
INVARIANT EnvAsListed
INVARIANT SecretsFlagged
INVARIANT ShownIsTheSame
INVARIANT NamespacesAsAsked
INVARIANT StatusTells
CHECK_DEADLOCK FALSE
