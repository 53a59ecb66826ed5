CONSTANTS
  Shape = {a, b}
  DS = {d1, d2, d3}
  Null = Null
  NoDS = NoDS
  NoHistory = {NoHandle}
  Risks = {"unify"}
SYMMETRY Symmetry
SPECIFICATION Spec
PROPERTY HistoryFollowsResult
