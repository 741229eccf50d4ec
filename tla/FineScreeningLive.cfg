CONSTANTS
  Requests = {r1}
  Experts = {x1, x2}
  Uploads = {}
  Other = Other
  None = None
  MaxPool = 2
  MaxCandidates <- AsBounded
  MaxTurns = 2
  MaxConcurrency = 1
  FailMax = 2
SPECIFICATION FairSpec
INVARIANTS DoneIsComplete CostsExplained
PROPERTY EveryRunEnds
CHECK_DEADLOCK FALSE
