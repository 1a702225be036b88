SPECIFICATION FairFlow
\* The operation really ends: COMPLETED and CANCELLED.
CHECK_DEADLOCK FALSE
CONSTANTS
  Carriers = {k1}
  Campaigns = {c1, c2}
  Commitments = {i1, i2}
  Escalations = {}
  Calls = {}
  Offers = {o1}
  MandateTerms = {{o1}}
  MaxMandates = 2
  None = none
  OtherCalls = {}
  MaxRestarts = 0
  MaxCommits = 2
PROPERTIES
  WinnerCalled
