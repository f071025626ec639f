SPECIFICATION FairSpec
CONSTANTS
  c1 = c1
  c2 = c2
  h1 = h1
  None = None
  Cmds <- TwoCmds
  Handlers <- OneHandler
  MaxStops = 1
  QueueCap = 2
  MaxFaults = 2
  Faults <- AnyFault
INVARIANT CompletedHasResult
PROPERTIES NeverRunningAgain RecordsSettle
CHECK_DEADLOCK FALSE
