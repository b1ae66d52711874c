\* the shortest delay whose slots are filed in one direction and aged in the other
SPECIFICATION Spec
CONSTANTS
  n1 = n1
  n2 = n2
  n3 = n3
  level1 = level1
  level2 = level2
  Nodes <- MCNodes
  Levels <- MCLevels
  Pyramid = pyramid
  Plain = plain
  Null = null
  Count = 3
SYMMETRY Symmetry
INVARIANTS
  AssociationsAreFound
