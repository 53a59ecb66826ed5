CONSTANTS
  Name = {n1, n2, n3}
  Shape = {s1, s2}
  Cell = {c1, c2, c3, c4, c5, c6}
  Null = Null
  Free = Free
  ProbeUnknown = FALSE
SYMMETRY Symmetry
SPECIFICATION Spec
INVARIANTS TypeOK KeysIntact OneNodePerName
PROPERTIES KeysArePermanent ImplementsNamedShapes
