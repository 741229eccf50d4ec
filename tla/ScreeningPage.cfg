CONSTANTS
  t1 = t1
  t2 = t2
  t3 = t3
  Tasks = {t1, t2, t3}
  NoTask = NoTask
  Candidates = {c1}
  c1 = c1
SPECIFICATION Spec
SYMMETRY Symmetry
INVARIANTS TypeOK SpinnerHasCause OneStream RetryMeansFailed ResultsComplete
CHECK_DEADLOCK FALSE
