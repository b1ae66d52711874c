\* batches that any one worker and its queue can hold; the context is released at
\* any moment
SPECIFICATION FairSpec
CONSTANTS
  NumWorkers = 2
  Depth = 2
  MaxBatch = 3
  Spurious = FALSE
  Client = Client
  None = None
INVARIANTS
  CompletedMeansDone
  CollectsOnlyFinishedWork
PROPERTIES
  BatchReturns
  ReleaseReturns
CHECK_DEADLOCK FALSE
