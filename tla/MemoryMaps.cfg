\* as many entries as threads
SPECIFICATION Spec
CONSTANTS
  t1 = t1
  t2 = t2
  t3 = t3
  image = image
  handle = handle
  array = array
  Threads <- MCTwoThreads
  Images <- MCImages
  HandleImages <- MCHandleImages
  Arrays <- MCArrays
  NumSlots = 2
  Null = null
SYMMETRY Symmetry
INVARIANTS
  MapsAreEntries
  ReadsAreWhole
  MappedObjectsLive
CHECK_DEADLOCK FALSE
