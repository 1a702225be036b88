SPECIFICATION FairSpec
CONSTANTS
  QuoteCalls = {q1, q2}
  CommitCalls = {}
  InboundCalls = {}
  MaxParallel = 1
  Concurrency = 1
  MaxRetries = 1
  Endings = {"FAILED"}
  Faults = {"lostReply"}
INVARIANTS TypeOK SlotsFollowCalls NobodyForgotten
PROPERTIES NegotiationTold StatusOnlyAdvances KeepsCampaign
CHECK_DEADLOCK FALSE
