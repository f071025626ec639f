SPECIFICATION Spec
CONSTANTS
  Words <- AnyWord
  t1 = t1
  t2 = t2
  None = None
  Runs <- TwoRuns
  Tabs <- OneTab
  Scripts <- TwoShort
  PipeCap = 1
  QueueCap = 1
INVARIANTS RunEndedMeansCrash
CHECK_DEADLOCK FALSE
