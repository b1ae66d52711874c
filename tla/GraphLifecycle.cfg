SPECIFICATION Spec
CONSTANTS
  n1 = n1
  n2 = n2
  d1 = d1
  d2 = d2
  x1 = x1
  Graph = graph
  Null = null
  Nodes <- MCNodes
  UserNodes <- MCUserNodes
  Data <- MCData
  Held <- MCHeld
  Others <- MCOthers
INVARIANTS
  LifecycleInv
  RunsChecked
  InitializedOnce
