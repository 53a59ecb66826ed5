---------------------------- MODULE MCReferences ----------------------------
EXTENDS References, TLC

Symmetry == Permutations(Name) \cup Permutations(Address) \cup Permutations(Shape)
=============================================================================
