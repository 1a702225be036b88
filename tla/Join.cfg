SPECIFICATION FairSpec
CONSTANTS
  MaxRetries = 2
  MaxRestarts = 1
  Faults = {"lostReply", "storage"}
INVARIANTS TypeOK CarrierMetByHuman JoinedMeansReached NotAbandoned
PROPERTIES ImplementsJoin JoinSettles
\* The join ends.
CHECK_DEADLOCK FALSE
