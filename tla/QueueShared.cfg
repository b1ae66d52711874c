\* the output queue of vx_processor_t: threads that read and put back (a, b),
\* the graph thread that writes (c), and a pop at any moment
SPECIFICATION Spec
CONSTANTS
  Depth = 2
  Writers = {a, c}
  Readers = {a, b}
  Poppers = {c}
  Values = {u, v}
  NULL = NULL
  None = None
  Spurious = TRUE
SYMMETRY Symmetry
INVARIANTS
  IInv
  EventsTellTheState
  NoLostWakeup
PROPERTY ImplementsFifo
