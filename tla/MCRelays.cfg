CONSTANTS
  Buffer = 2
  MaxUnits = 3
  Echo = FALSE
  MaxChunk = 2
  Cap = 4
  Idle = TRUE
  ClientBuffer = 1
  ClientUnits = 5
  Streams = {s1, s2}
  MaxPendingPerStream = 2
  MaxPendingStreams = 1
  InboundCapacity = 2
  MaxArrivals = 4
  Capacity = 2
  MaxSize = 2
  UdpCap = 3
  MaxIn = 4
  MaxReplies = 2
  RecvBuffer = 1
  SendBuffer = 1
  FromApp = 3
  ToApp = 2
  Tuples = {t1}
  MaxSockets = 2
  MaxRelays = 1
  QueueCap = 1
  StreamCap = 1
  IngressCap = 1
  OutCap = 1
  FlowKeys = {f1, f2, f3}
  FlowLimit = 2
  FlowQueue = 1
  ReplyCap = 1
  Generations = 3
SPECIFICATION MCSpec
INVARIANTS TcpInv UdpInv RouterInv StreamInv NativeInv
PROPERTIES BothKeepPromise OnlyLateOnesLost RelaysProgress
CHECK_DEADLOCK FALSE
