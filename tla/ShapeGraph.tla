----------------------------- MODULE ShapeGraph -----------------------------
(***************************************************************************)
(* Names hold shapes, and shapes share their TShapes: what a command does  *)
(* to the TShape behind one name, every compound that contains it sees.    *)
(* The directed graph of TShapes and their sub-shapes must stay acyclic,   *)
(* or every explorer, nbshapes and Interogate among them, runs for ever.   *)
(* What keeps it so is the Free flag: TopoDS_Builder::Add freezes the      *)
(* component first ("From now the Component cannot be edited") and only    *)
(* then asks whether the container may be edited.  setflags can undo it.   *)
(*                                                                         *)
(* Orientation, location and geometry do not shape the graph and are left  *)
(* out; myShapes is a set here, for adding a component twice shows in no   *)
(* property below.                                                         *)
(***************************************************************************)
CONSTANTS Name,     \* names of the directory
          TShape,   \* addresses of TShapes
          Null,     \* the null shape
          Gone,     \* what is at an address no TShape lives at
          Kind      \* the types of the TShapes commands create here

\* TopAbs_ShapeEnum, without SHAPE.
Type == {"compound", "compsolid", "solid", "shell", "face", "wire", "edge", "vertex"}

ASSUME GraphAssumption ==
  /\ Null \notin TShape
  /\ Gone \notin Type
  /\ Kind \subseteq Type

VARIABLES dir,     \* dir[n]: the TShape of the shape named n, or Null
          held,    \* the TShapes of the shapes kept for JavaScript's pointers
          kids,    \* TopoDS_TShape::myShapes
          free,    \* its Free flag
          type,    \* its ShapeType, or Gone
          thawed   \* history: the TShapes setflags made free after they had
                   \* been frozen

vars == <<dir, held, kids, free, type, thawed>>

Alive == {t \in TShape : type[t] # Gone}

\* Nothing refers to a TShape that has been destroyed.
TypeOK ==
  /\ type \in [TShape -> Type \cup {Gone}]
  /\ free \in [TShape -> BOOLEAN]
  /\ kids \in [TShape -> SUBSET Alive]
  /\ held \subseteq Alive
  /\ dir \in [Name -> Alive \cup {Null}]
  /\ thawed \subseteq Alive

Init ==
  /\ dir = [n \in Name |-> Null]
  /\ held = {}
  /\ kids = [t \in TShape |-> {}]
  /\ free = [t \in TShape |-> TRUE]
  /\ type = [t \in TShape |-> Gone]
  /\ thawed = {}
-----------------------------------------------------------------------------
\* The table of TopoDS_Builder::Add: what a component of type c goes into.
Containers ==
  [compound |-> {"compound"}, compsolid |-> {"compound"},
   solid |-> {"compound", "compsolid"}, shell |-> {"compound", "solid"},
   face |-> {"compound", "shell"}, wire |-> {"compound", "face"},
   edge |-> {"compound", "solid", "wire"},
   vertex |-> {"compound", "solid", "face", "edge"}]

FitsAnywhere(c, s) == TRUE

Fits(c, s) == s \in Containers[c]

ClosedUnder(K, X) == \A x \in X : K[x] \subseteq X

\* The handles in hand, without what hangs on them.
HandledOnly(roots, K) == roots

\* What can be reached from roots along K: it lies in every closed set.
Below(roots, K) ==
  LET Closed == {X \in SUBSET TShape : roots \subseteq X /\ ClosedUnder(K, X)}
  IN  {t \in TShape : \A X \in Closed : t \in X}

Rooted(D, H) == H \cup {t \in TShape : \E n \in Name : D[n] = t}

(***************************************************************************)
(* The state after a command: TShapes are counted by their handles, and    *)
(* one that nothing refers to any more is destroyed, down to its kids.     *)
(***************************************************************************)
Settled(D, H, K, F, Y) ==
  LET R == Below(Rooted(D, H), K)
  IN  /\ dir' = D
      /\ held' = H
      /\ kids' = [t \in TShape |-> IF t \in R THEN K[t] ELSE {}]
      /\ free' = [t \in TShape |-> IF t \in R THEN F[t] ELSE TRUE]
      /\ type' = [t \in TShape |-> IF t \in R THEN Y[t] ELSE Gone]
      /\ thawed' = thawed \cap R

Unused == TShape \ Alive

Named(n, t) == [dir EXCEPT ![n] = t]

NeverFrozen(F, C) == F

\* Add takes the Free flag of every component.
Freeze(F, C) == [t \in TShape |-> IF t \in C THEN FALSE ELSE F[t]]

\* A new TShape of type y at t, the components C added to it, named n.
Build(n, t, y, C) ==
  Settled(Named(n, t), held, [kids EXCEPT ![t] = C],
          Freeze([free EXCEPT ![t] = TRUE], C), [type EXCEPT ![t] = y])
-----------------------------------------------------------------------------
(***************************************************************************)
(* Any command that builds a shape of its own, out of sub-shapes it finds  *)
(* below the names and pointers in use, or out of nothing (primitives,     *)
(* sweeps, Boolean operations).                                            *)
(***************************************************************************)
Make(n, y) ==
  \E t \in Unused, C \in SUBSET Alive :
    /\ \A c \in C : Fits(type[c], y)
    /\ Build(n, t, y, C)

\* compound: null shapes are skipped.
Compound(n, M) ==
  \E t \in Unused : Build(n, t, "compound", {dir[m] : m \in M} \ {Null})

\* emptycopy of m under the name n: same type, free, no sub-shapes.
EmptyCopy(n, m) ==
  /\ dir[m] # Null
  /\ \E t \in Unused : Build(n, t, type[dir[m]], {})

EditableBefore(c, s) == free[s]

\* Is s free once its component c has been frozen?
Editable(c, s) == Freeze(free, {c})[s]

InsertsUnasked(c, s) == Fits(type[c], type[s])

\* add a b, an insertion: a becomes a sub-shape of b.
Inserts(c, s) == Editable(c, s) /\ Fits(type[c], type[s])

(***************************************************************************)
(* add a b.  A refusal throws, when the component is already frozen.       *)
(***************************************************************************)
Add(a, b) ==
  LET c == dir[a]
      s == dir[b]
      K == IF Inserts(c, s) THEN [kids EXCEPT ![s] = @ \cup {c}] ELSE kids
  IN  /\ c # Null /\ s # Null
      /\ Settled(dir, held, K, Freeze(free, {c}), type)

\* explode, nexplode, exwire of m name the sub-shapes they find m_1, m_2, ...:
\* part[n] is the one that gets the name n, when n is one of these names.
Explode(m) ==
  /\ dir[m] # Null
  /\ \E part \in [Name \ {m} -> (Below({dir[m]}, kids) \cup {Null}) \ {dir[m]}] :
       Settled([n \in Name |-> IF n = m \/ part[n] = Null THEN dir[n] ELSE part[n]],
               held, kids, free, type)

\* invert: an empty copy takes the reversed sub-shapes.
Invert(n) ==
  /\ dir[n] # Null
  /\ \E t \in Unused : Build(n, t, type[dir[n]], kids[dir[n]])

\* copy.
Copy(n, m) ==
  /\ dir[m] # Null
  /\ Settled(Named(n, dir[m]), held, kids, free, type)

\* removeinternals: each TShape below n may lose sub-shapes, frozen or not.
RemoveInternals(n) ==
  /\ dir[n] # Null
  /\ \E K \in [Below({dir[n]}, kids) -> SUBSET Alive] :
       /\ \A t \in DOMAIN K : K[t] \subseteq kids[t]
       /\ Settled(dir, held, [t \in TShape |-> IF t \in DOMAIN K THEN K[t] ELSE kids[t]],
                  free, type)

\* The shape named n and its sub-shapes of the types in Y.
WithSubShapes(n, Y) ==
  {dir[n]} \cup {t \in Below({dir[n]}, kids) : type[t] \in Y}

\* setflags n free, or -free.
Flagged(n) == WithSubShapes(n, {"vertex", "edge", "face"})

SetFree(n, f) ==
  /\ dir[n] # Null
  /\ free' = [t \in TShape |-> IF t \in Flagged(n) THEN f ELSE free[t]]
  /\ thawed' = thawed \cup {t \in Flagged(n) : f /\ ~free[t]}
  /\ UNCHANGED <<dir, held, kids, type>>

(***************************************************************************)
(* Interogate leaks a shape for each pointer it publishes: of the faces    *)
(* that are triangulated, of the edges in the order of their wires, and of *)
(* n at last.  An exception between two of them leaves the pointers so far.*)
(***************************************************************************)
Interogate(n) ==
  /\ dir[n] # Null
  /\ \E H \in SUBSET WithSubShapes(n, {"face", "edge"}) : held' = held \cup H
  /\ UNCHANGED <<dir, kids, free, type, thawed>>

\* pushModel names the shape at such a pointer.
PushModel(n) ==
  \E t \in held : Settled(Named(n, t), held, kids, free, type)

Next ==
  \/ \E n \in Name, y \in Kind : Make(n, y)
  \/ \E n \in Name, M \in SUBSET Name : Compound(n, M)
  \/ \E n, m \in Name : EmptyCopy(n, m) \/ Add(n, m) \/ Copy(n, m)
  \/ \E n \in Name : Explode(n) \/ Invert(n) \/ RemoveInternals(n)
                      \/ Interogate(n) \/ PushModel(n)
  \/ \E n \in Name, f \in BOOLEAN : SetFree(n, f)

Spec == Init /\ [][Next]_vars
-----------------------------------------------------------------------------
(***************************************************************************)
(* No shape is below itself, unless setflags made it or something between  *)
(* free again: every cycle goes through a thawed TShape.  Among any other  *)
(* TShapes there is one none of whose sub-shapes is among them.  As long   *)
(* as nothing is thawed, every recursion over sub-shapes ends.             *)
(***************************************************************************)
AcyclicIn(K) ==
  \A X \in SUBSET (TShape \ thawed) : X # {} => \E x \in X : K[x] \cap X = {}

Acyclic == AcyclicIn(kids)

(***************************************************************************)
(* A TShape that is a component of another is frozen, whichever commands   *)
(* named, exploded, copied or inverted it since it was added, unless it is *)
(* one that setflags made free.                                            *)
(***************************************************************************)
FrozenIn(K, F) == \A t \in TShape : \A c \in K[t] \ thawed : ~F[c]

ComponentsFrozen == FrozenIn(kids, free)

(***************************************************************************)
(* A TShape never gains sub-shapes while another shape contains it: what   *)
(* is built into a compound and never thawed is only ever changed by       *)
(* removeinternals.                                                        *)
(***************************************************************************)
ComponentsOnlyShrink ==
  [][\A t \in Alive : \A c \in kids[t] \ thawed : kids'[c] \subseteq kids[c]]_vars

(***************************************************************************)
(* Sub-shapes are of a type TopoDS_Builder::Add puts into their container, *)
(* in copies, inverted shapes and results as well.                         *)
(***************************************************************************)
FitIn(K, Y) == \A t \in TShape : \A c \in K[t] : Y[t] \in Containers[Y[c]]

HierarchyHolds == FitIn(kids, type)
=============================================================================
