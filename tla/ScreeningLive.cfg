SPECIFICATION FairSpec
CONSTANTS
  Tasks = {t1, t2}
  NoTask = NoTask
  Workers = {w1, w2}
  Candidates = {c1}
  Contents = {v1}
  Configs = {k1}
  QueueSize = 1
PROPERTIES
  EveryTaskSettles
