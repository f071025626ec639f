SPECIFICATION FairSpec
CONSTANTS
  c1 = c1
  c2 = c2
  c3 = c3
  h1 = h1
  h2 = h2
  None = None
  Claude = Claude
  Cmds <- Cmds1
  Handlers <- OneHandler
  Faults <- RespawnFaults
  MayExit = TRUE
  MaxChunks = 2
  Size <- ShortSizes
  MaxBuf = 1
  MaxOps = 2
INVARIANTS DeadUnflaggedIsVoluntary BufferBounded KilledAfterLoops
PROPERTIES StopRestoresBash
CHECK_DEADLOCK FALSE
