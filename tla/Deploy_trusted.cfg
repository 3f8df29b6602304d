CONSTANTS
  Agents = {"timer"}
  Versions = {"v1", "v2"}
  Sound = {"v1", "v2"}
  KeepReleases = 2
  MaxMoves = 2
  MaxPassFaults = 1
SPECIFICATION DSpec
INVARIANT TrustedWasHealthy
CHECK_DEADLOCK FALSE
