CONSTANTS
  Name = {n1, n2}
  Shape = {s1}
  Cell = {c1, c2, c3}
  Null = Null
  Free = Free
  ProbeUnknown = TRUE
SYMMETRY Symmetry
SPECIFICATION SpecH
PROPERTY GetsReturnLastSet
