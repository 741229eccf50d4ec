CONSTANTS
  NaN = NaN
  NoNumber = NoNumber
  Now = 2027
  Panel <- TwoExperts
  Stability = "stability_analyzer"
  Numbers = {75, 98, 120}
  Confidences = {0, 3, NaN}
  Histories <- SomeHistories
  BaseWeights <- General
  Overrides <- SomeOverrides
  StdThreshold = 12
  DeltaLimit = 3
  DevilFrom = 80
  MaxRounds = 2
SPECIFICATION Spec
INVARIANTS TypeOK RecordIsTrue OverallWithinExperts HistoryReadRight
CHECK_DEADLOCK FALSE
