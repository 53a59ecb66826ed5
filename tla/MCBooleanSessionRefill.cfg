CONSTANTS
  Shape = {a, b}
  DS = {d1, d2, d3}
  Null = Null
  NoDS = NoDS
  NoHistory = {NoHandle}
  Risks = {"refill"}
SYMMETRY Symmetry
SPECIFICATION Spec
PROPERTY HistoryFollowsResult
