CONSTANTS
  NULL = NULL
  Node = {n1, n2, n3}
  Item = {a, b}
  Sortkey <- MCSortkey
SPECIFICATION Spec
INVARIANT WellFormed
PROPERTY ImplementsList
SYMMETRY Symmetry
