SPECIFICATION FairSpec
CONSTANTS
  Words <- AnyWord
  c1 = c1
  c2 = c2
  o1 = o1
  o2 = o2
  None = None
  NoFile = NoFile
  Objects <- TwoObjects
  Callers <- TwoCallers
  Loops <- OneCaller
  MaxTurns = 1
  MaxEvents = 2
  MaxBoots = 3
  MaxDeletes = 1
INVARIANTS NothingHangs ShutdownFlushes NoPersisterLeaks
CHECK_DEADLOCK FALSE
PROPERTIES ChangesReachDisk
