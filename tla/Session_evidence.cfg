SPECIFICATION Spec
\* The conversation ends.
CHECK_DEADLOCK FALSE
CONSTANTS
  Purposes = {"COMMIT"}
  MaxTurns = 2
  MaxUpdates = 3
  MaxInFlight = 1
  Faults = {}
PROPERTIES
  LastWordIsEvidence
