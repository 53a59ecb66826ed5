CONSTANTS
  Name = {a, b}
  TShape = {t1, t2, t3}
  Null = Null
  Gone = Gone
  Kind = {"compound", "shell", "face"}
SYMMETRY Symmetry
SPECIFICATION Spec
INVARIANTS TypeOK Acyclic ComponentsFrozen HierarchyHolds
PROPERTY ComponentsOnlyShrink
