SPECIFICATION FairSpec
CONSTANTS
  c1 = c1
  c2 = c2
  c3 = c3
  h1 = h1
  h2 = h2
  None = None
  Claude = Claude
  Cmds <- Cmds2
  Handlers <- NoHandlers
  Faults <- TextFaults
  MayExit = FALSE
  MaxChunks = 3
  Size <- Sizes
  MaxBuf = 2
  MaxOps = 0
INVARIANTS OneInFlight EventProtocol
PROPERTIES FinishedIsReported CloseKillsSession RefinesSerialShell
CHECK_DEADLOCK FALSE
