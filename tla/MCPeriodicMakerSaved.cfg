CONSTANTS
  Shape = {s1, s2}
  Dir = {x, y}
  Name = {k}
  Handle = {h1, h2, h3, h4}
  None = None
  NoHandle = NoHandle
  Times <- MCTimes
  MaxReach = 4
SYMMETRY Symmetry
SPECIFICATION Spec
PROPERTY SavedHistoriesFixed
