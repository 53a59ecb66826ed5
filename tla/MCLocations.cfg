CONSTANTS
  a1 = a1
  a2 = a2
  s1 = s1
  s2 = s2
  Shape = {s1, s2}
  Address = {a1, a2}
  Motion <- MCMotion
  Id <- MCId
  Mul <- MCMul
  Inv <- MCInv
  Pow <- MCPow
  Power <- MCPower
  Given <- MCGiven
  MaxLen = 4
SPECIFICATION Spec
SYMMETRY Symmetry
INVARIANTS TypeOK ChainsReduced TailsOutliveHeads ResultsAreRight QuotientVanishes
