SPECIFICATION FairSpec
CONSTANTS
  Words <- AnyWord
  t1 = t1
  t2 = t2
  None = None
  Runs <- TwoRuns
  Tabs <- OneTab
  Scripts <- TalkThenShort
  PipeCap = 1
  QueueCap = 1
INVARIANTS TypeOK SlotWillBeFreed LockedIffOpen SoloTurnIsWhole SoloHearsOwn
PROPERTIES ClosedTurnStays ComposerUnlocks
CHECK_DEADLOCK FALSE
