SPECIFICATION Spec
\* Every job ends, and then nothing happens any more.
CHECK_DEADLOCK FALSE
CONSTANTS
  Jobs = {j1, j2, j3, j4}
  Waiters = {w1}
  Concurrency = 2
  MaxRetries = 1
INVARIANTS
  QueueInv
PROPERTIES
  IdleAnnounced
  KeepsContract
