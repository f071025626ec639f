SPECIFICATION FairSpec
CONSTANTS
  r1 = r1
  r2 = r2
  t1 = t1
  t2 = t2
  None = None
  Requests <- TwoRequests
  Tabs <- TwoTabs
  ChanCap = 1
  AsksCap = 1
INVARIANTS SubIsLive LoneAnswerIsObeyed
PROPERTIES RefinesToolGate EveryAskEnds QueuedIsShown
CHECK_DEADLOCK FALSE
