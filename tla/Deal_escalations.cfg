SPECIFICATION Spec
SYMMETRY Identifiers
\* The operation really ends: COMPLETED and CANCELLED.
CHECK_DEADLOCK FALSE
CONSTANTS
  Carriers = {k1}
  Campaigns = {c1}
  Commitments = {i1}
  Escalations = {e1, e2}
  Calls = {l1, l2}
  Offers = {o1}
  MandateTerms = {{}, {o1}}
  MaxMandates = 2
  None = none
INVARIANTS
  DealInv
  EscalationNesting
  StageBacked
PROPERTIES
  KeepsContract
