-------------------------- MODULE MCShapePlacement --------------------------
(***************************************************************************)
(* The motions that map a triangle to itself stand for locations: k turns  *)
(* by a third of a circle, 0 .. 2, and the same after a flip, 3 .. 5.  In  *)
(* this group it matters on which side one multiplies.                     *)
(***************************************************************************)
EXTENDS ShapePlacement, TLC

MCMotion == 0 .. 5
Flipped(f) == f >= 3
MCMul(f, g) ==
  ((IF Flipped(f) THEN f - g ELSE f + g) % 3)
     + (IF Flipped(f) = Flipped(g) THEN 0 ELSE 3)
MCInv(f) == IF Flipped(f) THEN f ELSE (3 - f) % 3
MCGiven == {1, 3}

Symmetry == Permutations(TShape) \cup Permutations(Name)
=============================================================================
