SPECIFICATION Spec
CONSTANTS
  w1 = w1
  w2 = w2
  i1 = i1
  i2 = i2
  i3 = i3
  l1 = l1
  l2 = l2
  l3 = l3
  None = None
  Empty = Empty
  Torn = Torn
  Writers <- OneWriter
  Lists <- ThreeLists
  Inodes <- ThreeInodes
  IOFails = TRUE
PROPERTIES RefinesAtomicFile
CHECK_DEADLOCK FALSE
