CONSTANTS
  Sids = {s1, s2, s3}
  MaxFaults = 2
  Docs = {a, b}
  MaxVersion = 3
  Bad = {2}
  PolicyLease = 1
  MaxTime = 1
  MaxPolicyFaults = 2
  Buffer = 2
  BatchMax = 2
  MaxPending = 3
  MaxEvents = 5
  MaxShipFaults = 3
  Orgs = {"A", "B"}
  NoOrg = "none"
  MaxTagged = 3
  Metered = {"A"}
  MaxLists = 2
  MaxRelayed = 2
  MaxCrashes = 1
  NFiles = 2
  MaxWrites = 3
  MaxHups = 1
  Agents = {"timer", "operator"}
  Versions = {"v1", "v2", "v3"}
  Sound = {"v1", "v3"}
  KeepReleases = 1
  MaxMoves = 2
  MaxPassFaults = 1
SPECIFICATION MCSpec
INVARIANTS NotRevived PolicyInv AuditInv ReloadInv DeployInv
PROPERTIES OnlineMeansInContact CatchesUpWithControlPlane ChangesTakeEffect
CHECK_DEADLOCK FALSE
