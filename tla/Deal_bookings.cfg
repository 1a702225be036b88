SPECIFICATION Spec
SYMMETRY Identifiers
\* The operation really ends: COMPLETED and CANCELLED.
CHECK_DEADLOCK FALSE
CONSTANTS
  Carriers = {k1, k2}
  Campaigns = {c1, c2}
  Commitments = {i1, i2}
  Escalations = {}
  Calls = {}
  Offers = {o1}
  MandateTerms = {{}, {o1}}
  MaxMandates = 3
  None = none
INVARIANTS
  MarketOrClosing
  WinnerExclusive
  WithinMandate
  SingleLiveDeal
  EvidenceBacked
PROPERTIES
  CommitmentsOnlyAdvance
