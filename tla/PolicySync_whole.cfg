CONSTANTS
  Docs = {a, b}
  MaxVersion = 2
  Bad = {}
  PolicyLease = 2
  MaxTime = 0
  MaxFaults = 1
SPECIFICATION Spec
INVARIANT WholeSetEnforced
CHECK_DEADLOCK FALSE
