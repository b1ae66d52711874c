\* the built-in kernel, one of the application and one of a module
SPECIFICATION Spec
CONSTANTS
  NumSlots = 3
  Builtin = b
  k1 = k1
  k2 = k2
  m1 = m1
  UserKernels = {k1, k2}
  Invalid = Invalid
  Modules = {m1}
  Publishes <- PublishesSecond
  App = App
  Handles = {h1}
  Nodes = {n1}
  RefWidth = 3
  MaxSlips = 2
INVARIANTS
  TableAddsUp
  KernelsAreServed
