CONSTANTS
  Node = {n1, n2, n3, n4, n5, n6}
  NULL = NULL
SYMMETRY Symmetry
SPECIFICATION Spec
INVARIANTS LinksConsistent Owned
PROPERTIES OrderKept
