CONSTANTS
  Buffer = 1
  MaxUnits = 5
  Echo = TRUE
  MaxChunk = 2
  Cap = 9
  Idle = TRUE
SPECIFICATION FairSpec
PROPERTY IdleTornDown
CHECK_DEADLOCK FALSE
