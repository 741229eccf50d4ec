CONSTANTS
  Requests = {r1, r2}
  Experts = {x1, x2}
  Uploads = {u1}
  Other = Other
  None = None
  MaxPool = 1
  MaxCandidates <- AsBounded
  MaxTurns = 1
  MaxConcurrency = 1
  FailMax = 2
SPECIFICATION Spec
INVARIANTS TypeOK UpstreamLoad
SYMMETRY Symmetry
CHECK_DEADLOCK FALSE
