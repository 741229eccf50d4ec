SPECIFICATION Spec
CONSTANTS
  Tasks = {t1, t2}
  NoTask = NoTask
  Workers = {w1}
  Candidates = {c1}
  Contents = {v1, v2}
  Configs = {k1}
  QueueSize = 1
SYMMETRY Interchangeable
INVARIANTS
  VerdictsAreCurrent
