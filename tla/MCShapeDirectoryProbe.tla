----------------------- MODULE MCShapeDirectoryProbe -----------------------
(***************************************************************************)
(* The directory for a program that may interrogate a name nothing was set *)
(* under yet, with a history variable: the shape that was last set under   *)
(* each name, whatever the nodes of the map have become.  What the header  *)
(* says of Get can then be asked of each call of Get by itself.            *)
(***************************************************************************)
EXTENDS ShapeDirectory, TLC

VARIABLE stored   \* stored[n]: the shape last set under n, Null when there is none

varsH == <<heap, shapes, last, stored>>

Sets(n, s) == stored' = [stored EXCEPT ![n] = s]

\* Commands whose only call of the directory is a Get of n.
Gets(n) ==
  /\ ReadShape(n) \/ Interogate(n) \/ WriteBrep(n)
  /\ UNCHANGED stored

CopiesH(a, b) ==
  /\ CopyShape(a, b)
  /\ IF last'.shape = Null THEN UNCHANGED stored ELSE Sets(b, last'.shape)

InitH == Init /\ stored = [n \in Name |-> Null]

NextH ==
  \/ \E n \in Name, s \in Shape : (MakeShape(n, s) \/ SetFromBuffer(n, s)) /\ Sets(n, s)
  \/ \E n \in Name : Gets(n)
  \/ \E a, b \in Name : CopiesH(a, b)

SpecH == InitH /\ [][NextH]_varsH

Symmetry == Permutations(Cell)
-----------------------------------------------------------------------------
(***************************************************************************)
(* A Get returns the shape last set under its name: DBRep.hxx:44 says      *)
(* "Returns the shape in the variable.", and of Set "Overwrite the         *)
(* variable if already set." (DBRep.hxx:40).                               *)
(***************************************************************************)
GetsReturnLastSet == [][\A n \in Name : Gets(n) => last'.shape = stored[n]]_varsH
=============================================================================
