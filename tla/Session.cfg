SPECIFICATION FairSpec
\* The conversation ends.
CHECK_DEADLOCK FALSE
CONSTANTS
  Purposes = {"OPERATIONS", "COMMIT", "EXECUTION"}
  MaxTurns = 2
  MaxUpdates = 2
  MaxInFlight = 2
  Faults = {"transcript", "opening", "binding", "closing"}
INVARIANTS
  TypeOK
  EvidenceKept
  SessionFollowsCall
  WholeTranscript
PROPERTIES
  HangUpCloses
