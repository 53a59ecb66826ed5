--------------------------- MODULE ShapePlacement ---------------------------
(***************************************************************************)
(* A TopoDS_Shape is a handle of a TShape with a location and an           *)
(* orientation of its own; a TShape holds its components as such handles.  *)
(* A component is seen where its location puts it within the container's,  *)
(* and oriented by both.  TopoDS_Builder::Add therefore takes the          *)
(* container's location and orientation away from what it stores, and      *)
(* TopoDS_Iterator gives them back.                                        *)
(*                                                                         *)
(* Locations are a group here (Locations shows how they are made one).     *)
(* All shapes are compounds: what fits into what is with ShapeGraph.       *)
(***************************************************************************)
EXTENDS Integers, Sequences, FiniteSets

CONSTANTS Name,      \* names of the directory
          TShape,    \* addresses of TShapes
          Null,      \* the null shape
          Motion,    \* locations
          Id,        \* TopLoc_Location()
          Mul(_, _), \* TopLoc_Location::Multiplied
          Inv(_),    \* TopLoc_Location::Inverted
          Given,     \* the locations commands come with
          Oriented,  \* the orientations commands come with
          MaxKids    \* bound on the components compound and add give out

Orientation == {"FORWARD", "REVERSED", "INTERNAL", "EXTERNAL"}

ASSUME GroupAssumption ==
  /\ Id \in Motion
  /\ \A f, g \in Motion : Mul(f, g) \in Motion /\ Inv(f) \in Motion
  /\ \A f, g, h \in Motion : Mul(Mul(f, g), h) = Mul(f, Mul(g, h))
  /\ \A f \in Motion :
       Mul(Id, f) = f /\ Mul(f, Id) = f /\ Mul(f, Inv(f)) = Id /\ Mul(Inv(f), f) = Id

ASSUME PlacementAssumption ==
  /\ Given \subseteq Motion /\ Oriented \subseteq Orientation /\ MaxKids \in Nat

Handle == [t : TShape, loc : Motion, ori : Orientation]

ASSUME NullAssumption == Null \notin Handle \cup TShape

VARIABLES dir,    \* dir[n]: the shape named n, or Null
          kids,   \* TopoDS_TShape::myShapes
          free    \* its Free flag

vars == <<dir, kids, free>>

Init ==
  /\ dir = [n \in Name |-> Null]
  /\ kids = [t \in TShape |-> <<>>]
  /\ free = [t \in TShape |-> TRUE]
-----------------------------------------------------------------------------
Reverse(o) ==
  CASE o = "FORWARD" -> "REVERSED"
    [] o = "REVERSED" -> "FORWARD"
    [] OTHER -> o

Complement(o) ==
  CASE o = "FORWARD" -> "REVERSED"
    [] o = "REVERSED" -> "FORWARD"
    [] o = "INTERNAL" -> "EXTERNAL"
    [] o = "EXTERNAL" -> "INTERNAL"

\* TopAbs::Compose: an orientation o within one of c.
Compose(c, o) ==
  CASE o = "FORWARD" -> c
    [] o = "REVERSED" -> Reverse(c)
    [] OTHER -> o

Moved(h, g) == [h EXCEPT !.loc = Mul(g, @)]
Reversed(h) == [h EXCEPT !.ori = Reverse(@)]

\* What a container h stores of a component c, and two ways to get it wrong:
\* without the container's orientation, and composed on the other side.
StoredUnturned(h, c) == Moved(c, Inv(h.loc))

StoredBehind(h, c) ==
  [StoredUnturned(h, IF h.ori = "REVERSED" THEN Reversed(c) ELSE c)
     EXCEPT !.loc = Mul(c.loc, Inv(h.loc))]

Stored(h, c) ==
  Moved(IF h.ori = "REVERSED" THEN Reversed(c) ELSE c, Inv(h.loc))

\* What TopoDS_Iterator shows of h.
Seen(h, c) ==
  [t |-> c.t, loc |-> Mul(h.loc, c.loc), ori |-> Compose(h.ori, c.ori)]

SeenIn(h, K) == [i \in DOMAIN K |-> Seen(h, K[i])]
-----------------------------------------------------------------------------
TShapesOf(K) == {K[i].t : i \in DOMAIN K}

ClosedUnder(K, X) == \A x \in X : TShapesOf(K[x]) \subseteq X

Rooted(D) == {D[n].t : n \in {m \in Name : D[m] # Null}}

\* The TShapes that can be reached from the names: in every closed set.
Reached(D, K) ==
  LET roots == Rooted(D)
      Closed == {X \in SUBSET TShape : roots \subseteq X /\ ClosedUnder(K, X)}
  IN  {t \in TShape : \A X \in Closed : t \in X}

Unused == TShape \ Reached(dir, kids)

(***************************************************************************)
(* Handles are well formed, and only what a name can still reach has       *)
(* components (the reference counts of TShapes).                           *)
(***************************************************************************)
TypeOK ==
  /\ dir \in [Name -> Handle \cup {Null}]
  /\ kids \in [TShape -> Seq(Handle)]
  /\ free \in [TShape -> BOOLEAN]
  /\ \A t \in Unused : kids[t] = <<>> /\ free[t]

\* A handle that is dropped without its reference to the TShape.
SettledLeaking(D, K, F) == dir' = D /\ kids' = K /\ free' = F

\* The state after a command; TShapes that nothing refers to are destroyed.
Settled(D, K, F) ==
  LET R == Reached(D, K)
  IN  /\ dir' = D
      /\ kids' = [t \in TShape |-> IF t \in R THEN K[t] ELSE <<>>]
      /\ free' = [t \in TShape |-> IF t \in R THEN F[t] ELSE TRUE]

Named(n, h) == [dir EXCEPT ![n] = h]

\* Only the handle under one name changes.
Renamed(n, h) == Settled(Named(n, h), kids, free)

Freeze(F, T) == [t \in TShape |-> t \notin T /\ F[t]]

\* A handle h of a new TShape with the components C, named n.
Build(n, h, C) ==
  Settled(Named(n, h), [kids EXCEPT ![h.t] = [i \in DOMAIN C |-> Stored(h, C[i])]],
          Freeze([free EXCEPT ![h.t] = TRUE], TShapesOf(C)))

\* The same TShape, placed or turned in another way.
Turned(n, h) == dir' = Named(n, h) /\ UNCHANGED <<kids, free>>

\* Where components are stored; MaxKids bounds how many before the next one.
Places(K) == {<<t, i>> : t \in TShape, i \in 1 .. MaxKids} \cap
               UNION {{<<t, i>> : i \in DOMAIN K[t]} : t \in TShape}

Room == MaxKids - Cardinality(Places(kids))

UpTo(k, S) == UNION {[1 .. i -> S] : i \in 0 .. k}

Held(n) == dir[n] # Null
-----------------------------------------------------------------------------
\* compound
Compound(n) ==
  \E t \in Unused, C \in UpTo(MaxKids, {dir[m] : m \in Name} \ {Null}) :
    /\ Len(C) <= Room
    /\ Build(n, [t |-> t, loc |-> Id, ori |-> "FORWARD"], C)

\* emptycopy of m
EmptyCopy(n, m) ==
  /\ Held(m)
  /\ \E t \in Unused : Build(n, [dir[m] EXCEPT !.t = t], <<>>)

\* add a b: throws FrozenShape when b is not free, once a has been frozen.
Add(a, b) ==
  /\ Held(a) /\ Held(b)
  /\ LET c == dir[a]
         h == dir[b]
         F == Freeze(free, {c.t})
         K == [kids EXCEPT ![h.t] = Append(@, Stored(h, c))]
     IN  /\ Room > 0
         /\ Settled(dir, IF F[h.t] THEN K ELSE kids, F)

\* explode m: part[n] is the component that gets the name n, when n is one of
\* the names m_i.
Explode(m) ==
  /\ Held(m)
  /\ LET C == SeenIn(dir[m], kids[dir[m].t])
     IN  \E part \in [Name \ {m} -> 0 .. Len(C)] :
           /\ \A n, l \in Name \ {m} : part[n] = part[l] /\ n # l => part[n] = 0
           /\ Settled([n \in Name |-> IF n = m \/ part[n] = 0 THEN dir[n] ELSE C[part[n]]],
                      kids, free)

\* copy
Copy(n, m) ==
  /\ Held(m)
  /\ Renamed(n, dir[m])

\* ttranslate, trotate
Transform(n) ==
  /\ Held(n)
  /\ \E g \in Given : Turned(n, Moved(dir[n], g))

\* SetLocation, reset
SetLocation(n) ==
  /\ Held(n)
  /\ \E g \in Given \cup {Id} : Turned(n, [dir[n] EXCEPT !.loc = g])

\* tmove
SetLocationFrom(n, m) ==
  /\ Held(n) /\ Held(m)
  /\ Turned(n, [dir[n] EXCEPT !.loc = dir[m].loc])

\* AddLocation
AddLocation(n) ==
  /\ Held(n)
  /\ \E g \in Given : Turned(n, [dir[n] EXCEPT !.loc = Mul(@, g)])

\* orientation, treverse, complement
Orient(n) ==
  /\ Held(n)
  /\ \E o \in Oriented \cup {Reverse(dir[n].ori), Complement(dir[n].ori)} :
       Turned(n, [dir[n] EXCEPT !.ori = o])

\* The components reversed where they are.
InvertInPlace(n) ==
  /\ Held(n)
  /\ LET h == dir[n]
     IN  Settled(dir, [kids EXCEPT ![h.t] = [i \in DOMAIN @ |-> Reversed(@[i])]], free)

\* invert: a new TShape with the components seen, each reversed.
Invert(n) ==
  /\ Held(n)
  /\ LET h == dir[n]
         C == SeenIn(h, kids[h.t])
     IN  \E t \in Unused :
           Build(n, [h EXCEPT !.t = t], [i \in DOMAIN C |-> Reversed(C[i])])

Next ==
  \/ \E n \in Name : Compound(n) \/ Transform(n) \/ SetLocation(n)
                       \/ AddLocation(n) \/ Orient(n) \/ Explode(n) \/ Invert(n)
  \/ \E n, m \in Name : EmptyCopy(n, m) \/ Add(n, m) \/ Copy(n, m)
                          \/ SetLocationFrom(n, m)

Spec == Init /\ [][Next]_vars
-----------------------------------------------------------------------------
Last(s) == s[Len(s)]

(***************************************************************************)
(* What add puts into b is seen in b exactly where it is by itself, so     *)
(* IsSame holds of the two; and oriented as it is, in a b that is FORWARD  *)
(* or REVERSED (TopoDS_Builder::Add against TopoDS_Iterator).              *)
(***************************************************************************)
AddKeepsPlace ==
  [][\A a, b \in Name :
       kids' # kids /\ Add(a, b) =>
         LET c == dir[a]
             s == Last(SeenIn(dir[b], kids'[dir[b].t]))
         IN  /\ s.t = c.t /\ s.loc = c.loc
             /\ dir[b].ori \in {"FORWARD", "REVERSED"} => s.ori = c.ori]_vars

(***************************************************************************)
(* invert shows the components it showed, in their order and at their      *)
(* places, each of them reversed, wherever the shape itself is.            *)
(***************************************************************************)
InvertKeepsPlaces ==
  [][\A n \in Name :
       kids' # kids /\ Invert(n) =>
         LET was == SeenIn(dir[n], kids[dir[n].t])
         IN  SeenIn(dir'[n], kids'[dir'[n].t])
               = [i \in DOMAIN was |-> Reversed(was[i])]]_vars

\* What is seen one level further down, and of h down to two levels.
Within(S, K) == S \cup UNION {{Seen(x, K[x.t][i]) : i \in DOMAIN K[x.t]} : x \in S}

Pieces(h, K) == Within(Within({h}, K), K)

(***************************************************************************)
(* Names share TShapes.  A command on one name never moves, turns or takes *)
(* away anything that is seen under another name.                          *)
(***************************************************************************)
OthersStay ==
  [][\A m \in Name :
       kids' # kids /\ Held(m) /\ dir'[m] = dir[m]
         => Pieces(dir[m], kids) \subseteq Pieces(dir[m], kids')]_vars
=============================================================================
