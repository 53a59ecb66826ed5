---------------------------- MODULE MCShapeGraph ----------------------------
EXTENDS ShapeGraph, TLC

Symmetry == Permutations(Name) \cup Permutations(TShape)
=============================================================================
