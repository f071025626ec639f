SPECIFICATION FairSpec
CONSTANTS
  s1 = s1
  s2 = s2
  s3 = s3
  w1 = w1
  w2 = w2
  u1 = u1
  u2 = u2
  i1 = i1
  i2 = i2
  i3 = i3
  None = None
  Empty = Empty
  Torn = Torn
  Boot = Boot
  Sessions <- TwoSessions
  Workers <- OneWorker
  Convos <- TwoConvos
  Options <- OneOption
  MaxSessions = 2
  MaxOps = 3
  MaxCrashes = 2
  Crashes <- AnyCrash
  MayExit = FALSE
  TmuxFails = FALSE
  IOFails = FALSE
  Inodes <- TwoInodes
INVARIANTS SettledSound AckedSurvives ClosedIsGone
PROPERTIES Reboots
CHECK_DEADLOCK FALSE
