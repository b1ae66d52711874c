\* the queue of a thread-pool worker: one writer at a time, one reader
SPECIFICATION FairSpec
CONSTANTS
  Depth = 2
  Writers = {a}
  Readers = {b}
  Poppers = {c}
  Values = {u, v}
  NULL = NULL
  None = None
  Spurious = FALSE
PROPERTIES
  FailsOnlyWhenPopped
  WriteReturns
  PopReleases
