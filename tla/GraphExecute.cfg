SPECIFICATION FairSpec
CONSTANTS
  image = image
  left_half = left_half
  right_half = right_half
  x = x
  y = y
  NoRef = NoRef
  Refs <- MCRefs
  Overlaps <- MCOverlaps
  Catalog <- MCCatalog
  MaxNodes = 3
  Smp = TRUE
  Rebinds = FALSE
  DeinitFails = FALSE
INVARIANTS
  VerifiedIsRunnable
  SortIsTopological
  NoDataRace
  RunsAfterProducers
  EveryNodeRunsOnce
PROPERTIES
  ExecutionEnds
