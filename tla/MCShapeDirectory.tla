-------------------------- MODULE MCShapeDirectory --------------------------
EXTENDS ShapeDirectory, TLC

Symmetry == Permutations(Cell)
=============================================================================
