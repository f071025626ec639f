SPECIFICATION FairSpec
CONSTANTS
  c1 = c1
  c2 = c2
  None = None
  Cmds <- TwoCmds
  Outputs = 1
  ReadMax = 3
  Threshold = 6
  Crashes <- AnyCrash
  MaxCrashes = 1
  PipeFails = TRUE
INVARIANTS AtLeastOnce BegunKeepsOutput
PROPERTIES FedInOrder CommandEnds
CHECK_DEADLOCK FALSE
