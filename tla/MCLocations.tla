---------------------------- MODULE MCLocations ----------------------------
(***************************************************************************)
(* The motions that map a triangle to itself: a group that is not abelian, *)
(* with elements of order 2 and 3.  The commands come with one of each.    *)
(***************************************************************************)
EXTENDS Locations, TLC

MCMotion == Permutations({1, 2, 3})
MCId == [i \in {1, 2, 3} |-> i]
MCMul(f, g) == [i \in {1, 2, 3} |-> f[g[i]]]
MCInv(f) == [i \in {1, 2, 3} |-> CHOOSE j \in {1, 2, 3} : f[j] = i]

MCPow(f, p) ==
  LET h == IF p < 0 THEN MCInv(f) ELSE f
      up[n \in 0 .. 6] == IF n = 0 THEN MCId ELSE MCMul(h, up[n - 1])
  IN  up[IF p < 0 THEN -p ELSE p]

MCPower == {-2, -1, 1, 2}
MCGiven == {(1 :> 2 @@ 2 :> 1 @@ 3 :> 3), (1 :> 2 @@ 2 :> 3 @@ 3 :> 1)}

Symmetry == Permutations(Address) \cup Permutations(Shape)
=============================================================================
