CONSTANTS
  Name = {m, n}
  Address = {a1, a2, a3}
  Shape = {s1, s2, s3, s4}
  Gone = Gone
  NoHistory = NoHistory
  MaxNew = 2
SYMMETRY Symmetry
SPECIFICATION Spec
INVARIANTS TypeOK RefsTrue MatchesMeanSameShape
