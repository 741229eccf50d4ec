SPECIFICATION Spec
CONSTANTS
  Tasks = {t1, t2}
  NoTask = NoTask
  Workers = {w1, w2}
  Candidates = {c1}
  Contents = {v1, v2}
  Configs = {k1, k2}
  QueueSize = 1
SYMMETRY Interchangeable
INVARIANTS
  TypeOK
  TaskInOnePlace
  NoTaskLost
  AnnouncedIsSettled
  CacheTellsTruth
  ReportsAreCurrent
PROPERTIES
  OrphansStay
  DoneAfterResults
  ImplementsLifecycle
