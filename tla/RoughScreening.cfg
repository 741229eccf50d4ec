SPECIFICATION Spec
CONSTANTS
  p1 = p1
  p2 = p2
  p3 = p3
  stranger = stranger
  java = java
  go = go
  x = x
  y = y
  NoTag = NoTag
  None = None
  Now = 2026
  Rule <- RuleOfNames
  Near <- TagNear
  Words <- WordIn
  Strangers = {stranger}
  Requests <- Batches
  Jobs <- Positions
  Profiles <- People
  TopK = 2
  RrfK = 60
  MaxCandidates = 1
  Settings <- Configured
  Values = {50, 80}
  Threshold <- Marks
INVARIANTS TypeOK RankedForAReason LeftOutForAReason
