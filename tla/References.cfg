SPECIFICATION Spec
CONSTANTS
  graph = graph
  node = node
  image = image
  region = region
  array = array
  item = item
  Null = null
  t1 = t1
  t2 = t2
  Threads <- MCThreads
  Graphs <- MCGraphs
  Nodes <- MCNodes
  Images <- MCImages
  Regions <- MCRegions
  Arrays <- MCArrays
  Items <- MCItems
  NumSlots = 4
  MaxHandles = 1
  MaxObjects = 4
SYMMETRY Symmetry
INVARIANTS
  TableIsComplete
  CountsMatchHolders
  NothingDangles
  CollectedAtTheEnd
CHECK_DEADLOCK FALSE
