CONSTANTS
  n1 = n1
  n2 = n2
  t1 = t1
  t2 = t2
  t3 = t3
  Null = Null
  Name = {n1, n2}
  TShape = {t1, t2, t3}
  Motion <- MCMotion
  Id = 0
  Mul <- MCMul
  Inv <- MCInv
  Given <- MCGiven
  Oriented = {}
  MaxKids = 2
SPECIFICATION Spec
SYMMETRY Symmetry
INVARIANT TypeOK
PROPERTIES AddKeepsPlace InvertKeepsPlaces OthersStay
