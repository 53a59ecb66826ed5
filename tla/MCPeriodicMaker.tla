--------------------------- MODULE MCPeriodicMaker ---------------------------
EXTENDS PeriodicMaker, TLC

\* Up by one and down by two: sides of 1, 2, 3 and 4 periods, off centre.
MCTimes == {-2, 1}

Symmetry == Permutations(Dir) \cup Permutations(Handle)
=============================================================================
