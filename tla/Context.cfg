\* one context after another, used by a bracketing thread and two others
SPECIFICATION FairSpec
CONSTANTS
  main = main
  a1 = a1
  a2 = a2
  g1 = g1
  g2 = g2
  Apps <- MCApps
  Main = main
  Disciplined = TRUE
  Graphs <- MCGraphs
  MaxContexts = 2
  NoGraph = nograph
INVARIANTS
  ReferencesAreLive
  ThreadEndsFirst
PROPERTIES
  CallsReturn
CHECK_DEADLOCK FALSE
