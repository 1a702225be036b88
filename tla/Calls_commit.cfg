SPECIFICATION Spec
CONSTANTS
  QuoteCalls = {}
  CommitCalls = {m1, m2, m3}
  InboundCalls = {b1}
  MaxParallel = 1
  Concurrency = 1
  MaxRetries = 0
  Endings = {"BUSY"}
  Faults = {"storage", "restart"}
SYMMETRY Interchangeable
INVARIANT RetriedOnce
CHECK_DEADLOCK FALSE
