CONSTANTS
  Relays = {a, b}
  Units = {1, 3, 5}
  Rate = 1
  Capacity = 4
  NapMax = 2
  MaxSpan = 4
  Sources = {s1, s2, s3}
  MaxSources = 2
  Scale = 2
  SourceRate = 1
  Burst = 2
  GlobalRate = 1
  GlobalBurst = 2
  MaxConnections = 1
  MaxTime = 4
  MaxExtra = 1
  LastMark = 1
  Width = 4
  V4Width = 3
  Clients = {c1, c2, c3}
  ChannelCap = 1
SPECIFICATION MCSpec
INVARIANTS AggregateRate AdmissionInv PoolInv
PROPERTY SomeoneServed
CHECK_DEADLOCK FALSE
