SPECIFICATION Spec
CONSTANTS
  s1 = s1
  s2 = s2
  s3 = s3
  w1 = w1
  w2 = w2
  u1 = u1
  u2 = u2
  i1 = i1
  i2 = i2
  i3 = i3
  None = None
  Empty = Empty
  Torn = Torn
  Boot = Boot
  Sessions <- ThreeSessions
  Workers <- TwoWorkers
  Convos <- TwoConvos
  Options <- NoOption
  MaxSessions = 2
  MaxOps = 3
  MaxCrashes = 0
  Crashes <- NoCrash
  MayExit = TRUE
  TmuxFails = TRUE
  IOFails = TRUE
  Inodes <- ThreeInodes
SYMMETRY Symmetry
INVARIANTS LimitRespected SlotsBacked OneConvo
CHECK_DEADLOCK FALSE
