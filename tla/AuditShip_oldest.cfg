CONSTANTS
  Buffer = 2
  BatchMax = 2
  MaxPending = 3
  MaxEvents = 5
  MaxFaults = 3
SPECIFICATION Spec
PROPERTY OldestDropped
CHECK_DEADLOCK FALSE
