\* an application thread and the graph thread; one queue call may fail
SPECIFICATION FairSpec
CONSTANTS
  Graphs = {g1, g2}
  NumSlots = 2
  Apps = {a1}
  GraphThread = GraphThread
  NoGraph = NoGraph
  Depth = 3
  MaxFailures = 1
  MaxLock = 1
INVARIANTS
  EntryHasOneOwner
  WaitGetsItsOwnResult
  EntriesMatchLocks
  OneExecutionUsesThePool
PROPERTIES
  ScheduledRunsOnce
  WaitReturns
CHECK_DEADLOCK FALSE
