-------------------------- MODULE MCBooleanSession --------------------------
EXTENDS BooleanSession, TLC

Symmetry == Permutations(Shape) \cup Permutations(DS)
=============================================================================
