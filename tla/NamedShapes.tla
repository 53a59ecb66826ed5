---------------------------- MODULE NamedShapes ----------------------------
(***************************************************************************)
(* What the directory of named shapes promises: DBRep.hxx:29 calls it "a   *)
(* directory of named shapes" whose Set "Sets <S> in the variable <Name>.  *)
(* Overwrite the variable if already set." and whose Get "Returns the      *)
(* shape in the variable."  Names are values here; nothing is known of     *)
(* pointers, of the heap, or of the tree the directory is kept in.         *)
(***************************************************************************)
CONSTANTS Name,     \* the names a session gives to its shapes
          Shape,    \* the non-null shapes
          Null      \* the null TopoDS_Shape

VARIABLES dir,      \* dir[n]: the shape last set under n, Null when there is none
          last      \* the shape the last call set or was given, and its name

vars == <<dir, last>>

TypeOK ==
  /\ dir \in [Name -> Shape \cup {Null}]
  /\ last \in [name : Name, shape : Shape \cup {Null}]

Init ==
  /\ dir = [n \in Name |-> Null]
  /\ last \in [name : Name, shape : {Null}]

Set(n, s) ==
  /\ dir' = [dir EXCEPT ![n] = s]
  /\ last' = [name |-> n, shape |-> s]

Get(n) ==
  /\ last' = [name |-> n, shape |-> dir[n]]
  /\ UNCHANGED dir

\* Copying a name that holds no shape changes nothing.
Copy(a, b) ==
  /\ dir' = IF dir[a] = Null THEN dir ELSE [dir EXCEPT ![b] = dir[a]]
  /\ last' = IF dir[a] = Null THEN [name |-> a, shape |-> Null]
             ELSE [name |-> b, shape |-> dir[a]]

Next ==
  \/ \E n \in Name, s \in Shape : Set(n, s)
  \/ \E n \in Name : Get(n)
  \/ \E a, b \in Name : Copy(a, b)

Spec == Init /\ [][Next]_vars
=============================================================================
