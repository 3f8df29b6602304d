CONSTANTS
  OrgTtl = 12
  FallbackTtl = 6
  Leeway = 2
  MinLead = 2
  MaxLead = 4
  RefreshRetry = 6
  ExchangeMax = 1
  KeyInterval = 8
  MaxRotations = 1
  MaxFaults = 2
  Targets = {"a", "b"}
  Scripts <- MCScripts
  Senders = {"c1", "c2"}
  Dests = {"d1", "d2"}
  QueueCap = 2
  MaxDatagrams = 3
  MaxTunnels = 2
  Pids = {1, 2}
  MaxSwaps = 1
  MaxBadWrites = 1
  MaxForwards = 1
  MaxSignals = 1
  Delivered = {"INT", "TERM"}
  Procs = {"p", "q"}
  Commands = {"login", "logout", "whoami", "agent", "audit", "status", "why", "create",
              "register", "add", "role", "remove", "end"}
  MaxLogins = 3
  MaxExpiry = 4
  CapExpiry = 3
  SlowDown = 2
  Page = 2
  MaxEvents = 4
  Orgs = {1, 2}
  Users = {"u", "v"}
  MaxChanges = 1
SPECIFICATION MCSpec
INVARIANTS CredentialInv ClientInv
PROPERTY ClientProgress
CHECK_DEADLOCK FALSE
