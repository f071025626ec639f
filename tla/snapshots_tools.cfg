SPECIFICATION Spec
CONSTANTS
  Words <- AnyWord
  c1 = c1
  c2 = c2
  o1 = o1
  o2 = o2
  None = None
  NoFile = NoFile
  Objects <- TwoObjects
  Callers <- TwoCallers
  Loops <- OneCaller
  MaxTurns = 1
  MaxEvents = 2
  MaxBoots = 2
  MaxDeletes = 0
PROPERTIES LoadedToolMatches
CHECK_DEADLOCK FALSE
