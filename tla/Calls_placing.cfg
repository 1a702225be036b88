SPECIFICATION Spec
CONSTANTS
  QuoteCalls = {q1, q2}
  CommitCalls = {}
  InboundCalls = {}
  MaxParallel = 1
  Concurrency = 2
  MaxRetries = 2
  Endings = {"COMPLETED", "FAILED"}
  Faults = {"storage", "restart"}
SYMMETRY Interchangeable
INVARIANTS LiveWithinLimit CalledOnce FailureReported
CHECK_DEADLOCK FALSE
