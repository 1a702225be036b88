SPECIFICATION Spec
CONSTANTS
  MaxRetries = 2
  MaxRestarts = 0
  Faults = {}
INVARIANTS OneHumanLeg
CHECK_DEADLOCK FALSE
