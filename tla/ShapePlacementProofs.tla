------------------------ MODULE ShapePlacementProofs ------------------------
(***************************************************************************)
(* Every command settles on a directory, lists of components and flags of  *)
(* which three things hold (lemma EveryStep): they are well formed, what   *)
(* could be reached keeps the components it had, and what is a component   *)
(* is frozen.  The properties of whole steps follow from that, and those   *)
(* of add and invert from the group of locations.                          *)
(***************************************************************************)
EXTENDS ShapePlacement, TLAPS

Dirs == [Name -> Handle \cup {Null}]
Lists == [TShape -> Seq(Handle)]
Flags == [TShape -> BOOLEAN]

\* What could be reached has in K the components it has now.
Keeps(K) ==
  \A t \in Reached(dir, kids) : \A i \in DOMAIN kids[t] :
    i \in DOMAIN K[t] /\ K[t][i] = kids[t][i]

FrozenIn(K, F) == \A t \in TShape : \A x \in TShapesOf(K[t]) : ~F[x]

\* What is inside something is frozen.
ComponentsFrozen == \A t \in TShape : \A x \in TShapesOf(kids[t]) : ~free[x]

IInv == TypeOK /\ ComponentsFrozen

(***************************************************************************)
(* Handles.                                                                *)
(***************************************************************************)
LEMMA OrientationsTyped ==
  ASSUME NEW c \in Orientation, NEW o \in Orientation
  PROVE  /\ Reverse(o) \in Orientation /\ Complement(o) \in Orientation
         /\ Compose(c, o) \in Orientation
BY DEF Orientation, Reverse, Complement, Compose

LEMMA HandlesTyped ==
  ASSUME NEW h \in Handle, NEW c \in Handle, NEW g \in Motion
  PROVE  /\ Moved(c, g) \in Handle /\ Moved(c, g).t = c.t
         /\ Reversed(c) \in Handle /\ Reversed(c).t = c.t
         /\ Stored(h, c) \in Handle /\ Stored(h, c).t = c.t
         /\ Seen(h, c) \in Handle /\ Seen(h, c).t = c.t
<1>1. Reverse(c.ori) \in Orientation /\ Compose(h.ori, c.ori) \in Orientation
  BY OrientationsTyped DEF Handle
<1>2. \A d \in Handle, f \in Motion : Moved(d, f) \in Handle /\ Moved(d, f).t = d.t
  BY GroupAssumption DEF Moved, Handle
<1>3. Reversed(c) \in Handle /\ Reversed(c).t = c.t
  BY <1>1 DEF Reversed, Handle
<1>4. Inv(h.loc) \in Motion
  BY GroupAssumption DEF Handle
<1>5. Stored(h, c) \in Handle /\ Stored(h, c).t = c.t
  BY <1>2, <1>3, <1>4 DEF Stored
<1>6. Seen(h, c) \in Handle /\ Seen(h, c).t = c.t
  BY <1>1, GroupAssumption DEF Seen, Handle
<1>. QED BY <1>2, <1>3, <1>5, <1>6

(***************************************************************************)
(* What can be reached: it holds the roots and is closed, and is the least *)
(* set that does and is.                                                   *)
(***************************************************************************)
LEMMA ReachedIsLeast ==
  ASSUME NEW D \in Dirs, NEW K \in Lists
  PROVE  /\ Reached(D, K) \subseteq TShape
         /\ Rooted(D) \subseteq Reached(D, K)
         /\ ClosedUnder(K, Reached(D, K))
         /\ \A X \in SUBSET TShape :
              Rooted(D) \subseteq X /\ ClosedUnder(K, X) => Reached(D, K) \subseteq X
<1>1. Rooted(D) \subseteq TShape
  BY DEF Rooted, Dirs, Handle
<1>2. \A t \in TShape : TShapesOf(K[t]) \subseteq TShape
  <2>1. \A t \in TShape : K[t] \in Seq(Handle)
    BY DEF Lists
  <2>2. \A t \in TShape : \A i \in DOMAIN K[t] : K[t][i] \in Handle
    BY <2>1
  <2>. QED BY <2>2 DEF TShapesOf, Handle
<1>3. \A t : t \in Reached(D, K) <=>
         /\ t \in TShape
         /\ \A X \in SUBSET TShape : Rooted(D) \subseteq X /\ ClosedUnder(K, X) => t \in X
  BY Zenon DEF Reached
<1>4. Rooted(D) \subseteq Reached(D, K)
  BY <1>1, <1>3
<1>5. ASSUME NEW x \in Reached(D, K), NEW y \in TShapesOf(K[x])
      PROVE  y \in Reached(D, K)
  <2>1. x \in TShape /\ y \in TShape
    BY <1>2, <1>3
  <2>2. ASSUME NEW X \in SUBSET TShape, Rooted(D) \subseteq X, ClosedUnder(K, X)
        PROVE  y \in X
    BY <2>2, <1>3 DEF ClosedUnder
  <2>. QED BY <2>1, <2>2, <1>3
<1>. QED BY <1>3, <1>4, <1>5 DEF ClosedUnder

LEMMA CanBeReached ==
  ASSUME TypeOK, NEW n \in Name, Held(n)
  PROVE  /\ dir[n] \in Handle /\ dir[n].t \in Reached(dir, kids)
         /\ \A i \in DOMAIN kids[dir[n].t] :
              /\ kids[dir[n].t][i] \in Handle
              /\ kids[dir[n].t][i].t \in Reached(dir, kids)
<1>1. dir \in Dirs /\ kids \in Lists
  BY DEF TypeOK, Dirs, Lists
<1>2. dir[n] \in Handle /\ dir[n].t \in Rooted(dir)
  BY <1>1 DEF Held, Rooted, Dirs
<1>3. dir[n].t \in Reached(dir, kids) /\ dir[n].t \in TShape
  BY <1>1, <1>2, ReachedIsLeast DEF Handle
<1>4. TShapesOf(kids[dir[n].t]) \subseteq Reached(dir, kids)
  BY <1>1, <1>3, ReachedIsLeast DEF ClosedUnder
<1>5. kids[dir[n].t] \in Seq(Handle)
  BY <1>1, <1>3 DEF Lists
<1>. QED BY <1>2, <1>3, <1>4, <1>5 DEF TShapesOf

(***************************************************************************)
(* The three things that hold of what a command settles on, for the        *)
(* commands that rename handles, build TShapes, and add.                   *)
(***************************************************************************)
Sound(D, K, F) ==
  D \in Dirs /\ K \in Lists /\ F \in Flags /\ Keeps(K) /\ FrozenIn(K, F)

LEMMA Renaming ==
  ASSUME IInv, NEW D \in Dirs
  PROVE  Sound(D, kids, free)
BY DEF IInv, TypeOK, ComponentsFrozen, Sound, Dirs, Lists, Flags, Keeps, FrozenIn

LEMMA Building ==
  ASSUME IInv, NEW n \in Name, NEW h \in Handle, h.t \in Unused, NEW C \in Seq(Handle),
         TShapesOf(C) \subseteq Reached(dir, kids)
  PROVE  LET K == [kids EXCEPT ![h.t] = [i \in DOMAIN C |-> Stored(h, C[i])]]
             F == Freeze([free EXCEPT ![h.t] = TRUE], TShapesOf(C))
         IN  Sound(Named(n, h), K, F) /\ K[h.t] = [i \in DOMAIN C |-> Stored(h, C[i])]
<1>. DEFINE L == [i \in DOMAIN C |-> Stored(h, C[i])]
            K == [kids EXCEPT ![h.t] = L]
            F == Freeze([free EXCEPT ![h.t] = TRUE], TShapesOf(C))
<1>1. dir \in Dirs /\ kids \in Lists /\ free \in Flags
  BY DEF IInv, TypeOK, Dirs, Lists, Flags
<1>2. h.t \in TShape /\ h.t \notin Reached(dir, kids)
  BY DEF Unused
<1>3. \A i \in DOMAIN C : Stored(h, C[i]) \in Handle /\ Stored(h, C[i]).t = C[i].t
  BY HandlesTyped, GroupAssumption
<1>4. DOMAIN C = 1 .. Len(C) /\ Len(C) \in Nat
  OBVIOUS
<1>5. L \in Seq(Handle)
  BY <1>3, <1>4
<1>6. TShapesOf(L) = TShapesOf(C)
  BY <1>3, <1>4 DEF TShapesOf
<1>7. K \in Lists /\ K[h.t] = L /\ \A t \in TShape \ {h.t} : K[t] = kids[t]
  BY <1>1, <1>2, <1>5 DEF Lists
<1>8. F \in Flags
  BY <1>1 DEF Flags, Freeze
<1>9. Named(n, h) \in Dirs
  BY <1>1 DEF Named, Dirs
<1>10. Keeps(K)
  <2>. HIDE DEF K, L
  <2>1. \A t \in Reached(dir, kids) : t \in TShape \ {h.t}
    BY <1>1, <1>2, ReachedIsLeast
  <2>. QED BY <2>1, <1>7 DEF Keeps
<1>11. FrozenIn(K, F)
  <2>1. ASSUME NEW t \in TShape, NEW x \in TShapesOf(K[t])
        PROVE  ~F[x]
    <3>1. CASE t = h.t
      <4>1. x \in TShapesOf(C)
        BY <3>1, <2>1, <1>6, <1>7
      <4>2. x \in TShape
        BY <4>1, <1>1, ReachedIsLeast
      <4>. QED BY <4>1, <4>2 DEF Freeze
    <3>2. CASE t # h.t
      <4>1. x \in TShapesOf(kids[t])
        BY <3>2, <2>1, <1>7
      <4>2. ~free[x]
        BY <4>1 DEF IInv, ComponentsFrozen
      <4>3. kids[t] # <<>>
        BY <4>1 DEF TShapesOf
      <4>4. t \in Reached(dir, kids)
        BY <4>3 DEF IInv, TypeOK, Unused
      <4>5. x \in Reached(dir, kids)
        BY <4>1, <4>4, <1>1, ReachedIsLeast DEF ClosedUnder
      <4>6. x \in TShape /\ x # h.t
        BY <4>5, <1>1, <1>2, ReachedIsLeast
      <4>. QED BY <4>2, <4>6, <1>1 DEF Freeze, Flags
    <3>. QED BY <3>1, <3>2
  <2>. QED BY <2>1 DEF FrozenIn
<1>. HIDE DEF K, F, L
<1>12. Sound(Named(n, h), K, F) /\ K[h.t] = L
  BY <1>7, <1>8, <1>9, <1>10, <1>11 DEF Sound
<1>. QED BY <1>12 DEF K, F, L

LEMMA Adding ==
  ASSUME IInv, NEW c \in Handle, NEW h \in Handle
  PROVE  LET F == Freeze(free, {c.t})
             K == [kids EXCEPT ![h.t] = Append(@, Stored(h, c))]
         IN  /\ Sound(dir, IF F[h.t] THEN K ELSE kids, F)
             /\ K[h.t] = Append(kids[h.t], Stored(h, c))
             /\ kids[h.t] \in Seq(Handle) /\ Stored(h, c) \in Handle
<1>. DEFINE F == Freeze(free, {c.t})
            L == Append(kids[h.t], Stored(h, c))
            K == [kids EXCEPT ![h.t] = L]
            J == IF F[h.t] THEN K ELSE kids
<1>1. dir \in Dirs /\ kids \in Lists /\ free \in Flags
  BY DEF IInv, TypeOK, Dirs, Lists, Flags
<1>2. Stored(h, c) \in Handle /\ Stored(h, c).t = c.t
  BY HandlesTyped, GroupAssumption
<1>3. h.t \in TShape /\ c.t \in TShape /\ kids[h.t] \in Seq(Handle)
  BY <1>1 DEF Handle, Lists
<1>4. /\ L \in Seq(Handle) /\ DOMAIN L = 1 .. Len(kids[h.t]) + 1
      /\ DOMAIN kids[h.t] = 1 .. Len(kids[h.t]) /\ Len(kids[h.t]) \in Nat
      /\ \A i \in DOMAIN kids[h.t] : L[i] = kids[h.t][i]
      /\ L[Len(kids[h.t]) + 1] = Stored(h, c)
  BY <1>2, <1>3
<1>5. TShapesOf(L) = TShapesOf(kids[h.t]) \cup {c.t}
  <2>. HIDE DEF L
  <2>1. \A i \in DOMAIN L : i \in DOMAIN kids[h.t] \/ i = Len(kids[h.t]) + 1
    BY <1>4
  <2>2. \A i \in DOMAIN kids[h.t] : i \in DOMAIN L
    BY <1>4
  <2>3. Len(kids[h.t]) + 1 \in DOMAIN L
    BY <1>4
  <2>. QED BY <2>1, <2>2, <2>3, <1>2, <1>4 DEF TShapesOf
<1>6. K \in Lists /\ K[h.t] = L /\ \A t \in TShape \ {h.t} : K[t] = kids[t]
  BY <1>1, <1>3, <1>4 DEF Lists
<1>7. F \in Flags
  BY <1>1 DEF Flags, Freeze
<1>8. Keeps(K)
  <2>. HIDE DEF K, L
  <2>1. \A t \in Reached(dir, kids) : t \in TShape
    BY <1>1, ReachedIsLeast
  <2>2. \A t \in TShape : \A i \in DOMAIN kids[t] : i \in DOMAIN K[t] /\ K[t][i] = kids[t][i]
    BY <1>4, <1>6
  <2>. QED BY <2>1, <2>2 DEF Keeps
<1>9. \A t \in TShape : \A x \in TShapesOf(kids[t]) : x \in TShape /\ ~F[x]
  <2>1. \A t \in TShape : \A x \in TShapesOf(kids[t]) : ~free[x] /\ x \in TShape
    <3>1. \A t \in TShape : kids[t] \in Seq(Handle)
      BY <1>1 DEF Lists
    <3>2. \A t \in TShape : \A i \in DOMAIN kids[t] : kids[t][i] \in Handle
      BY <3>1
    <3>3. \A t \in TShape : TShapesOf(kids[t]) \subseteq TShape
      BY <3>2 DEF TShapesOf, Handle
    <3>. QED BY <3>3 DEF IInv, ComponentsFrozen
  <2>. QED BY <2>1 DEF Freeze
<1>10. FrozenIn(K, F)
  <2>1. ~F[c.t]
    BY <1>3 DEF Freeze
  <2>. HIDE DEF K, L, F
  <2>2. ASSUME NEW t \in TShape, NEW x \in TShapesOf(K[t])
        PROVE  ~F[x]
    <3>1. CASE t = h.t
      BY <3>1, <2>1, <2>2, <1>3, <1>5, <1>6, <1>9
    <3>2. CASE t # h.t
      BY <3>2, <2>2, <1>6, <1>9
    <3>. QED BY <3>1, <3>2
  <2>. QED BY <2>2 DEF FrozenIn
<1>11. Keeps(kids) /\ FrozenIn(kids, F)
  <2>. HIDE DEF F
  <2>. QED BY <1>9 DEF Keeps, FrozenIn
<1>. HIDE DEF K, F, L
<1>12. Sound(dir, J, F)
  BY <1>1, <1>6, <1>7, <1>8, <1>10, <1>11 DEF Sound
<1>. QED BY <1>2, <1>3, <1>6, <1>12 DEF K, F, L

(***************************************************************************)
(* Every command.                                                          *)
(***************************************************************************)
Settles == \E D \in Dirs, K \in Lists, F \in Flags : Sound(D, K, F) /\ Settled(D, K, F)

LEMMA RenamingSettles ==
  ASSUME IInv, NEW n \in Name, NEW h \in Handle, Renamed(n, h)
  PROVE  Settles
<1>1. dir \in Dirs /\ kids \in Lists /\ free \in Flags
  BY DEF IInv, TypeOK, Dirs, Lists, Flags
<1>2. Named(n, h) \in Dirs
  BY <1>1 DEF Named, Dirs
<1>3. Sound(Named(n, h), kids, free)
  BY <1>2, Renaming
<1>. QED BY <1>1, <1>2, <1>3 DEF Renamed, Settles

\* The TShapes that can be reached stay the same.
LEMMA TurningSettles ==
  ASSUME IInv, NEW n \in Name, dir[n] # Null, NEW h \in Handle, h.t = dir[n].t,
         Turned(n, h)
  PROVE  Settles
<1>. DEFINE D == Named(n, h)
<1>1. dir \in Dirs /\ kids \in Lists /\ free \in Flags
  BY DEF IInv, TypeOK, Dirs, Lists, Flags
<1>2. D \in Dirs /\ D[n] = h /\ \A m \in Name \ {n} : D[m] = dir[m]
  BY <1>1 DEF Named, Dirs
<1>3. h # Null
  BY NullAssumption
<1>. HIDE DEF D
<1>4. Rooted(D) = Rooted(dir)
  BY <1>2, <1>3 DEF Rooted
<1>5. Reached(D, kids) = Reached(dir, kids)
  BY <1>4 DEF Reached
<1>6. \A t \in TShape \ Reached(dir, kids) : kids[t] = <<>> /\ free[t] = TRUE
  BY <1>1 DEF IInv, TypeOK, Unused, Flags
<1>7. kids = [t \in TShape |-> IF t \in Reached(D, kids) THEN kids[t] ELSE <<>>]
  BY <1>1, <1>5, <1>6 DEF Lists
<1>8. free = [t \in TShape |-> IF t \in Reached(D, kids) THEN free[t] ELSE TRUE]
  BY <1>1, <1>5, <1>6 DEF Flags
<1>9. dir' = D /\ kids' = kids /\ free' = free
  BY DEF Turned, D
<1>10. Settled(D, kids, free)
  BY <1>7, <1>8, <1>9 DEF Settled
<1>11. Sound(D, kids, free)
  BY <1>2, Renaming DEF D
<1>. QED BY <1>1, <1>2, <1>10, <1>11 DEF Settles

LEMMA BuildingSettles ==
  ASSUME IInv, NEW n \in Name, NEW h \in Handle, h.t \in Unused, NEW C \in Seq(Handle),
         TShapesOf(C) \subseteq Reached(dir, kids), Build(n, h, C)
  PROVE  Settles
<1>. DEFINE K == [kids EXCEPT ![h.t] = [i \in DOMAIN C |-> Stored(h, C[i])]]
            F == Freeze([free EXCEPT ![h.t] = TRUE], TShapesOf(C))
            D == Named(n, h)
<1>1. Sound(D, K, F)
  BY Building
<1>2. Settled(D, K, F)
  BY DEF Build
<1>. HIDE DEF D, K, F
<1>. QED BY <1>1, <1>2 DEF Settles, Sound

\* The commands that move or turn the shape named n, and what they do.
Turning(n, m) ==
  \/ Transform(n) \/ SetLocation(n) \/ SetLocationFrom(n, m) \/ AddLocation(n) \/ Orient(n)

Turns(n) == dir[n] # Null /\ \E h \in Handle : h.t = dir[n].t /\ Turned(n, h)

LEMMA Turnings ==
  ASSUME IInv, NEW n \in Name, NEW m \in Name, Turning(n, m)
  PROVE  Turns(n)
<1>1. \A l \in Name : Held(l) => dir[l] \in Handle
  BY CanBeReached DEF IInv
<1>2. CASE Transform(n)
  <2>1. PICK g \in Given : Turned(n, Moved(dir[n], g))
    BY <1>2 DEF Transform, Held
  <2>2. dir[n] # Null /\ Moved(dir[n], g) \in Handle /\ Moved(dir[n], g).t = dir[n].t
    BY <1>1, <1>2, HandlesTyped, PlacementAssumption DEF Transform, Held
  <2>. QED BY <2>1, <2>2 DEF Turns
<1>3. CASE SetLocation(n)
  <2>1. PICK g \in Given \cup {Id} : Turned(n, [dir[n] EXCEPT !.loc = g])
    BY <1>3 DEF SetLocation
  <2>. DEFINE h == [dir[n] EXCEPT !.loc = g]
  <2>2. dir[n] # Null /\ h \in Handle /\ h.t = dir[n].t
    BY <1>1, <1>3, PlacementAssumption, GroupAssumption DEF SetLocation, Handle, Held
  <2>3. Turned(n, h)
    BY <2>1
  <2>. HIDE DEF h
  <2>. QED BY <2>2, <2>3 DEF Turns
<1>4. CASE SetLocationFrom(n, m)
  <2>. DEFINE h == [dir[n] EXCEPT !.loc = dir[m].loc]
  <2>1. dir[n] # Null /\ h \in Handle /\ h.t = dir[n].t
    BY <1>1, <1>4 DEF SetLocationFrom, Handle, Held
  <2>2. Turned(n, h)
    BY <1>4 DEF SetLocationFrom
  <2>. HIDE DEF h
  <2>. QED BY <2>1, <2>2 DEF Turns
<1>5. CASE AddLocation(n)
  <2>1. PICK g \in Given : Turned(n, [dir[n] EXCEPT !.loc = Mul(@, g)])
    BY <1>5 DEF AddLocation
  <2>. DEFINE h == [dir[n] EXCEPT !.loc = Mul(@, g)]
  <2>2. dir[n] # Null /\ h \in Handle /\ h.t = dir[n].t
    BY <1>1, <1>5, PlacementAssumption, GroupAssumption DEF AddLocation, Handle, Held
  <2>3. Turned(n, h)
    BY <2>1
  <2>. HIDE DEF h
  <2>. QED BY <2>2, <2>3 DEF Turns
<1>6. CASE Orient(n)
  <2>1. PICK o \in Oriented \cup {Reverse(dir[n].ori), Complement(dir[n].ori)} :
          Turned(n, [dir[n] EXCEPT !.ori = o])
    BY <1>6 DEF Orient
  <2>2. dir[n] \in Handle /\ dir[n].ori \in Orientation
    BY <1>1, <1>6 DEF Orient, Handle, Held
  <2>3. o \in Orientation
    BY <2>2, OrientationsTyped, PlacementAssumption
  <2>. DEFINE h == [dir[n] EXCEPT !.ori = o]
  <2>4. dir[n] # Null /\ h \in Handle /\ h.t = dir[n].t
    BY <1>6, <2>2, <2>3 DEF Orient, Handle, Held
  <2>5. Turned(n, h)
    BY <2>1
  <2>. HIDE DEF h
  <2>. QED BY <2>4, <2>5 DEF Turns
<1>. QED BY <1>2, <1>3, <1>4, <1>5, <1>6 DEF Turning

LEMMA EveryStep ==
  ASSUME IInv, Next
  PROVE  Settles
<1>. USE DEF Held
<1>1. dir \in Dirs /\ kids \in Lists /\ free \in Flags
  BY DEF IInv, TypeOK, Dirs, Lists, Flags
<1>2. \A m \in Name : Held(m) => dir[m] \in Handle /\ dir[m].t \in Reached(dir, kids)
  BY CanBeReached DEF IInv
<1>3. ASSUME NEW n \in Name, Compound(n)
      PROVE  Settles
  <2>1. PICK t \in Unused, C \in UpTo(MaxKids, {dir[m] : m \in Name} \ {Null}) :
          Build(n, [t |-> t, loc |-> Id, ori |-> "FORWARD"], C)
    BY <1>3 DEF Compound
  <2>. DEFINE h == [t |-> t, loc |-> Id, ori |-> "FORWARD"]
  <2>2. h \in Handle /\ h.t = t
    BY GroupAssumption DEF Handle, Orientation, Unused
  <2>3. PICK k \in Nat : C \in [1 .. k -> {dir[m] : m \in Name} \ {Null}]
    BY PlacementAssumption DEF UpTo
  <2>4. \A i \in 1 .. k : C[i] \in Handle /\ C[i].t \in Reached(dir, kids)
    BY <1>2, <2>3
  <2>5. C \in Seq(Handle) /\ DOMAIN C = 1 .. k
    BY <2>3, <2>4
  <2>6. TShapesOf(C) \subseteq Reached(dir, kids)
    BY <2>4, <2>5 DEF TShapesOf
  <2>. HIDE DEF h
  <2>7. Build(n, h, C)
    BY <2>1 DEF h
  <2>. QED BY <2>2, <2>5, <2>6, <2>7, BuildingSettles
<1>4. ASSUME NEW n \in Name, NEW m \in Name, EmptyCopy(n, m)
      PROVE  Settles
  <2>1. PICK t \in Unused : Build(n, [dir[m] EXCEPT !.t = t], <<>>)
    BY <1>4 DEF EmptyCopy
  <2>. DEFINE h == [dir[m] EXCEPT !.t = t]
  <2>2. h \in Handle /\ h.t = t
    BY <1>2, <1>4 DEF EmptyCopy, Handle, Unused
  <2>3. <<>> \in Seq(Handle) /\ TShapesOf(<<>>) = {}
    BY DEF TShapesOf
  <2>. HIDE DEF h
  <2>4. Build(n, h, <<>>)
    BY <2>1 DEF h
  <2>. QED BY <2>2, <2>3, <2>4, BuildingSettles
<1>5. ASSUME NEW a \in Name, NEW b \in Name, Add(a, b)
      PROVE  Settles
  <2>. DEFINE h == dir[b]
              c == dir[a]
              F == Freeze(free, {c.t})
              K == [kids EXCEPT ![h.t] = Append(@, Stored(h, c))]
              J == IF F[h.t] THEN K ELSE kids
  <2>1. c \in Handle /\ h \in Handle
    BY <1>2, <1>5 DEF Add
  <2>2. Sound(dir, J, F)
    BY <2>1, Adding
  <2>3. Settled(dir, J, F)
    BY <1>5 DEF Add
  <2>. HIDE DEF J, F
  <2>. QED BY <2>2, <2>3 DEF Settles, Sound
<1>6. ASSUME NEW m \in Name, Explode(m)
      PROVE  Settles
  <2>. DEFINE C == SeenIn(dir[m], kids[dir[m].t])
  <2>1. PICK part \in [Name \ {m} -> 0 .. Len(C)] :
          Settled([n \in Name |-> IF n = m \/ part[n] = 0 THEN dir[n] ELSE C[part[n]]],
                  kids, free)
    BY <1>6 DEF Explode
  <2>2. dir[m] \in Handle /\ \A i \in DOMAIN kids[dir[m].t] : kids[dir[m].t][i] \in Handle
    BY <1>6, CanBeReached DEF Explode, IInv
  <2>3. kids[dir[m].t] \in Seq(Handle)
    BY <1>1, <2>2 DEF Lists, Handle
  <2>4. DOMAIN C = DOMAIN kids[dir[m].t] /\ \A i \in DOMAIN C : C[i] \in Handle
    BY <2>2, HandlesTyped, GroupAssumption DEF SeenIn
  <2>. HIDE DEF C
  <2>5. DOMAIN C = 1 .. Len(C) /\ Len(C) \in Nat
    <3>1. DOMAIN C = 1 .. Len(kids[dir[m].t]) /\ Len(kids[dir[m].t]) \in Nat
      BY <2>3, <2>4
    <3>2. C = [i \in 1 .. Len(kids[dir[m].t]) |-> C[i]]
      BY <3>1, <2>4 DEF C, SeenIn
    <3>3. [i \in 1 .. Len(kids[dir[m].t]) |-> C[i]] \in Seq(Handle)
      BY <3>1, <2>4
    <3>. QED BY <3>1, <3>2, <3>3
  <2>. DEFINE D == [n \in Name |-> IF n = m \/ part[n] = 0 THEN dir[n] ELSE C[part[n]]]
  <2>6. \A n \in Name \ {m} : part[n] # 0 => part[n] \in DOMAIN C
    BY <2>1, <2>5
  <2>7. D \in Dirs
    BY <1>1, <2>4, <2>6 DEF Dirs
  <2>. HIDE DEF D
  <2>8. Settled(D, kids, free)
    BY <2>1 DEF D
  <2>. QED BY <1>1, <2>7, <2>8, Renaming DEF Settles
<1>7. ASSUME NEW n \in Name, NEW m \in Name, Copy(n, m)
      PROVE  Settles
  BY <1>2, <1>7, RenamingSettles DEF Copy
<1>8. ASSUME NEW n \in Name, NEW m \in Name, Turning(n, m)
      PROVE  Settles
  <2>1. PICK h \in Handle : h.t = dir[n].t /\ Turned(n, h)
    BY <1>8, Turnings DEF Turns
  <2>2. dir[n] # Null
    BY <1>8, Turnings DEF Turns
  <2>. QED BY <2>1, <2>2, TurningSettles
<1>9. ASSUME NEW n \in Name, Invert(n)
      PROVE  Settles
  <2>. DEFINE h == dir[n]
              C == SeenIn(h, kids[h.t])
              R == [i \in DOMAIN C |-> Reversed(C[i])]
  <2>1. PICK t \in Unused : Build(n, [h EXCEPT !.t = t], R)
    BY <1>9 DEF Invert
  <2>2. h \in Handle /\ h.t \in TShape
    BY <1>2, <1>9 DEF Invert, Handle
  <2>3. \A i \in DOMAIN kids[h.t] :
          kids[h.t][i] \in Handle /\ kids[h.t][i].t \in Reached(dir, kids)
    BY <1>9, CanBeReached DEF Invert, IInv
  <2>4. \A i \in DOMAIN kids[h.t] :
          /\ Reversed(Seen(h, kids[h.t][i])) \in Handle
          /\ Reversed(Seen(h, kids[h.t][i])).t = kids[h.t][i].t
    <3>1. \A k \in Handle : Seen(h, k) \in Handle /\ Seen(h, k).t = k.t
      BY <2>2, HandlesTyped, GroupAssumption
    <3>2. \A k \in Handle : Reversed(k) \in Handle /\ Reversed(k).t = k.t
      BY HandlesTyped, GroupAssumption
    <3>. QED BY <2>3, <3>1, <3>2
  <2>5. DOMAIN R = DOMAIN kids[h.t] /\ \A i \in DOMAIN R : R[i] = Reversed(Seen(h, kids[h.t][i]))
    BY DEF SeenIn
  <2>6. DOMAIN R = 1 .. Len(kids[h.t]) /\ Len(kids[h.t]) \in Nat
    <3>1. kids[h.t] \in Seq(Handle)
      BY <1>1, <2>2 DEF Lists
    <3>. QED BY <3>1, <2>5
  <2>7. R \in Seq(Handle)
    BY <2>4, <2>5, <2>6
  <2>. DEFINE N == [h EXCEPT !.t = t]
  <2>8. N \in Handle /\ N.t = t
    BY <2>2 DEF Handle, Unused
  <2>. HIDE DEF R, N
  <2>9. TShapesOf(R) \subseteq Reached(dir, kids)
    BY <2>3, <2>4, <2>5 DEF TShapesOf
  <2>10. Build(n, N, R)
    BY <2>1 DEF N, R
  <2>. QED BY <2>7, <2>8, <2>9, <2>10, BuildingSettles
<1>. HIDE DEF Held
<1>. QED
  BY <1>3, <1>4, <1>5, <1>6, <1>7, <1>8, <1>9 DEF Next, Turning

(***************************************************************************)
(* What a command settles on is what there is afterwards, as far as it can *)
(* be reached.                                                             *)
(***************************************************************************)
LEMMA AfterSettling ==
  ASSUME NEW D \in Dirs, NEW K \in Lists, NEW F \in Flags, Settled(D, K, F)
  PROVE  /\ dir' = D /\ kids' \in Lists /\ free' \in Flags
         /\ \A t \in Reached(D, K) : t \in TShape /\ kids'[t] = K[t] /\ free'[t] = F[t]
         /\ \A t \in TShape \ Reached(D, K) : kids'[t] = <<>> /\ free'[t]
         /\ Reached(D, K) \subseteq Reached(dir', kids')
<1>. DEFINE R == Reached(D, K)
<1>0. R \subseteq TShape /\ Rooted(D) \subseteq R /\ ClosedUnder(K, R)
  BY ReachedIsLeast
<1>. HIDE DEF R
<1>1. /\ dir' = D
      /\ kids' = [t \in TShape |-> IF t \in R THEN K[t] ELSE <<>>]
      /\ free' = [t \in TShape |-> IF t \in R THEN F[t] ELSE TRUE]
  BY DEF Settled, R
<1>2. kids' \in Lists
  BY <1>1 DEF Lists
<1>3. free' \in Flags
  BY <1>1 DEF Flags
<1>4. \A t \in R : t \in TShape /\ kids'[t] = K[t] /\ free'[t] = F[t]
  BY <1>0, <1>1
<1>5. \A t \in TShape \ R : kids'[t] = <<>> /\ free'[t]
  BY <1>1
<1>6. R \subseteq Reached(dir', kids')
  <2>. DEFINE Q == Reached(dir', kids')
  <2>1. Q \subseteq TShape /\ Rooted(D) \subseteq Q /\ ClosedUnder(kids', Q)
    BY <1>1, <1>2, ReachedIsLeast
  <2>. HIDE DEF Q
  <2>2. ClosedUnder(K, Q \cap R)
    BY <2>1, <1>0, <1>4 DEF ClosedUnder
  <2>3. Q \cap R \in SUBSET TShape /\ Rooted(D) \subseteq Q \cap R
    BY <2>1, <1>0
  <2>4. Reached(D, K) \subseteq Q \cap R
    BY <2>2, <2>3, ReachedIsLeast
  <2>. QED BY <2>4 DEF Q, R
<1>. QED BY <1>1, <1>2, <1>3, <1>4, <1>5, <1>6 DEF R

LEMMA StepKeepsInv ==
  ASSUME IInv, Next
  PROVE  IInv'
<1>1. PICK D \in Dirs, K \in Lists, F \in Flags : Sound(D, K, F) /\ Settled(D, K, F)
  BY EveryStep DEF Settles
<1>. DEFINE R == Reached(D, K)
<1>2. /\ dir' = D /\ kids' \in Lists /\ free' \in Flags
      /\ \A t \in R : t \in TShape /\ kids'[t] = K[t] /\ free'[t] = F[t]
      /\ \A t \in TShape \ R : kids'[t] = <<>> /\ free'[t]
      /\ R \subseteq Reached(dir', kids')
  BY <1>1, AfterSettling
<1>3. ClosedUnder(K, R)
  BY ReachedIsLeast
<1>. HIDE DEF R
<1>4. TypeOK'
  BY <1>2 DEF TypeOK, Unused, Dirs, Lists, Flags
<1>5. ASSUME NEW t \in TShape, NEW x \in TShapesOf(kids'[t])
      PROVE  ~free'[x]
  <2>1. kids'[t] # <<>>
    BY <1>5 DEF TShapesOf
  <2>2. t \in R /\ kids'[t] = K[t]
    BY <2>1, <1>2
  <2>3. x \in R
    BY <2>2, <1>3, <1>5 DEF ClosedUnder
  <2>. QED BY <2>2, <2>3, <1>1, <1>2, <1>5 DEF Sound, FrozenIn
<1>. QED BY <1>4, <1>5 DEF IInv, ComponentsFrozen

LEMMA InvHolds == Spec => []IInv
<1>1. Init => IInv
  <2>. SUFFICES ASSUME Init PROVE IInv
    OBVIOUS
  <2>1. dir = [n \in Name |-> Null] /\ kids = [t \in TShape |-> <<>>] /\ free = [t \in TShape |-> TRUE]
    BY DEF Init
  <2>2. TypeOK
    BY <2>1 DEF TypeOK, Unused
  <2>3. ComponentsFrozen
    BY <2>1 DEF ComponentsFrozen, TShapesOf
  <2>. QED BY <2>2, <2>3 DEF IInv
<1>2. IInv /\ [Next]_vars => IInv'
  <2>1. ASSUME IInv, UNCHANGED vars PROVE IInv'
    BY <2>1 DEF IInv, TypeOK, ComponentsFrozen, Unused, vars
  <2>. QED BY <2>1, StepKeepsInv
<1>. QED BY <1>1, <1>2, PTL DEF Spec

(***************************************************************************)
(* Handles stay well formed, and only what can be reached has components.  *)
(***************************************************************************)
THEOREM TypeCorrect == Spec => []TypeOK
<1>1. IInv => TypeOK
  BY DEF IInv
<1>. QED BY <1>1, InvHolds, PTL

(***************************************************************************)
(* What a container stores of a component is seen in it as the component   *)
(* is by itself: moving by the inverse and then by the location is nothing.*)
(***************************************************************************)
LEMMA StoredIsSeen ==
  ASSUME NEW h \in Handle, NEW c \in Handle
  PROVE  /\ Seen(h, Stored(h, c)).t = c.t
         /\ Seen(h, Stored(h, c)).loc = c.loc
         /\ h.ori \in {"FORWARD", "REVERSED"} \/ c.ori \in {"INTERNAL", "EXTERNAL"}
              => Seen(h, Stored(h, c)).ori = c.ori
<1>1. h.loc \in Motion /\ c.loc \in Motion /\ h.ori \in Orientation /\ c.ori \in Orientation
  BY DEF Handle
<1>. DEFINE d == IF h.ori = "REVERSED" THEN Reversed(c) ELSE c
            o == IF h.ori = "REVERSED" THEN Reverse(c.ori) ELSE c.ori
<1>2. d \in Handle /\ d.t = c.t /\ d.loc = c.loc /\ d.ori = o
  <2>1. Reversed(c) \in Handle
    BY HandlesTyped, GroupAssumption
  <2>. QED BY <2>1 DEF Reversed, Handle
<1>3. Stored(h, c) = Moved(d, Inv(h.loc))
  BY DEF Stored
<1>. HIDE DEF d
<1>4. /\ Stored(h, c).t = c.t
      /\ Stored(h, c).loc = Mul(Inv(h.loc), c.loc)
      /\ Stored(h, c).ori = o
  BY <1>2, <1>3 DEF Moved, Handle
<1>5. Mul(h.loc, Mul(Inv(h.loc), c.loc)) = c.loc
  <2>1. /\ Inv(h.loc) \in Motion
        /\ Mul(Mul(h.loc, Inv(h.loc)), c.loc) = Mul(h.loc, Mul(Inv(h.loc), c.loc))
        /\ Mul(h.loc, Inv(h.loc)) = Id /\ Mul(Id, c.loc) = c.loc
    BY <1>1, GroupAssumption
  <2>. QED BY <2>1
<1>6. h.ori \in {"FORWARD", "REVERSED"} \/ c.ori \in {"INTERNAL", "EXTERNAL"}
        => Compose(h.ori, o) = c.ori
  BY <1>1 DEF Compose, Reverse, Orientation
<1>. QED BY <1>4, <1>5, <1>6 DEF Seen

(***************************************************************************)
(* What add puts into a container is seen there where it is by itself.     *)
(***************************************************************************)
THEOREM AddAlwaysKeepsPlace == Spec => AddKeepsPlace
<1>. DEFINE A == \A a, b \in Name :
                   kids' # kids /\ Add(a, b) =>
                     LET c == dir[a]
                         s == Last(SeenIn(dir[b], kids'[dir[b].t]))
                     IN  /\ s.t = c.t /\ s.loc = c.loc
                         /\ dir[b].ori \in {"FORWARD", "REVERSED"} => s.ori = c.ori
<1>1. ASSUME IInv PROVE A
  <2>. SUFFICES ASSUME NEW a \in Name, NEW b \in Name, kids' # kids, Add(a, b)
                PROVE  LET c == dir[a]
                           s == Last(SeenIn(dir[b], kids'[dir[b].t]))
                       IN  /\ s.t = c.t /\ s.loc = c.loc
                           /\ dir[b].ori \in {"FORWARD", "REVERSED"} => s.ori = c.ori
    OBVIOUS
  <2>. DEFINE c == dir[a]
              h == dir[b]
              F == Freeze(free, {c.t})
              K == [kids EXCEPT ![h.t] = Append(@, Stored(h, c))]
              J == IF F[h.t] THEN K ELSE kids
  <2>1. c \in Handle /\ h \in Handle /\ h.t \in Rooted(dir)
    BY <1>1, CanBeReached DEF Add, IInv, Held, Rooted
  <2>2. /\ Sound(dir, J, F) /\ K[h.t] = Append(kids[h.t], Stored(h, c))
        /\ kids[h.t] \in Seq(Handle) /\ Stored(h, c) \in Handle
    BY <2>1, <1>1, Adding
  <2>3. Settled(dir, J, F)
    BY DEF Add
  <2>4. F[h.t]
    <3>. SUFFICES ASSUME ~F[h.t] PROVE FALSE
      OBVIOUS
    <3>1. Settled(dir, kids, F)
      BY <2>3
    <3>2. kids' = [t \in TShape |-> IF t \in Reached(dir, kids) THEN kids[t] ELSE <<>>]
      BY <3>1 DEF Settled
    <3>3. \A t \in TShape \ Reached(dir, kids) : kids[t] = <<>>
      BY <1>1 DEF IInv, TypeOK, Unused
    <3>4. kids = [t \in TShape |-> kids[t]]
      BY <1>1 DEF IInv, TypeOK
    <3>. QED BY <3>2, <3>3, <3>4
  <2>5. kids'[h.t] = Append(kids[h.t], Stored(h, c))
    <3>. HIDE DEF F, K, J
    <3>1. J = K
      BY <2>4 DEF J
    <3>2. dir \in Dirs /\ K \in Lists /\ F \in Flags
      BY <2>2, <3>1 DEF Sound
    <3>3. h.t \in Reached(dir, K)
      BY <3>2, <2>1, ReachedIsLeast
    <3>. QED BY <2>2, <2>3, <3>1, <3>2, <3>3, AfterSettling
  <2>. DEFINE L == Append(kids[h.t], Stored(h, c))
              n == Len(kids[h.t]) + 1
  <2>6. DOMAIN L = 1 .. n /\ Len(L) = n /\ n \in DOMAIN L /\ L[n] = Stored(h, c)
    BY <2>2
  <2>. HIDE DEF L, n
  <2>7. SeenIn(h, L) = [i \in 1 .. n |-> Seen(h, L[i])] /\ Len(SeenIn(h, L)) = n
    <3>1. SeenIn(h, L) = [i \in 1 .. n |-> Seen(h, L[i])]
      BY <2>6 DEF SeenIn
    <3>2. n \in Nat
      BY <2>2 DEF n
    <3>. QED BY <3>1, <3>2
  <2>8. Last(SeenIn(h, L)) = Seen(h, Stored(h, c))
    BY <2>6, <2>7 DEF Last
  <2>9. Last(SeenIn(h, kids'[h.t])) = Seen(h, Stored(h, c))
    BY <2>5, <2>8 DEF L
  <2>10. /\ Seen(h, Stored(h, c)).t = c.t /\ Seen(h, Stored(h, c)).loc = c.loc
         /\ h.ori \in {"FORWARD", "REVERSED"} => Seen(h, Stored(h, c)).ori = c.ori
    BY <2>1, StoredIsSeen
  <2>. QED BY <2>9, <2>10
<1>2. IInv => [A]_vars
  BY <1>1
<1>3. []IInv => [][A]_vars
  BY <1>2, PTL
<1>. QED BY <1>3, InvHolds, PTL DEF AddKeepsPlace

(***************************************************************************)
(* invert shows what was shown, each of it reversed, at its place.         *)
(***************************************************************************)
THEOREM InvertAlwaysKeepsPlaces == Spec => InvertKeepsPlaces
<1>. DEFINE A == \A n \in Name :
                   kids' # kids /\ Invert(n) =>
                     LET was == SeenIn(dir[n], kids[dir[n].t])
                     IN  SeenIn(dir'[n], kids'[dir'[n].t])
                           = [i \in DOMAIN was |-> Reversed(was[i])]
<1>1. ASSUME IInv PROVE A
  <2>. SUFFICES ASSUME NEW n \in Name, Invert(n)
                PROVE  LET was == SeenIn(dir[n], kids[dir[n].t])
                       IN  SeenIn(dir'[n], kids'[dir'[n].t])
                             = [i \in DOMAIN was |-> Reversed(was[i])]
    OBVIOUS
  <2>. DEFINE h == dir[n]
              C == SeenIn(h, kids[h.t])
              R == [i \in DOMAIN C |-> Reversed(C[i])]
  <2>1. PICK t \in Unused : Build(n, [h EXCEPT !.t = t], R)
    BY DEF Invert
  <2>. DEFINE N == [h EXCEPT !.t = t]
  <2>2. /\ h \in Handle /\ h.t \in TShape
        /\ \A i \in DOMAIN kids[h.t] :
             kids[h.t][i] \in Handle /\ kids[h.t][i].t \in Reached(dir, kids)
    BY <1>1, CanBeReached DEF Invert, IInv, Handle
  <2>3. N \in Handle /\ N.t = t /\ N.loc = h.loc /\ N.ori = h.ori
    BY <2>2 DEF Handle, Unused
  <2>4. DOMAIN R = DOMAIN kids[h.t] /\ \A i \in DOMAIN R : R[i] = Reversed(Seen(h, kids[h.t][i]))
    BY DEF SeenIn
  <2>5. DOMAIN R = 1 .. Len(kids[h.t]) /\ Len(kids[h.t]) \in Nat
    <3>1. kids[h.t] \in Seq(Handle)
      BY <1>1, <2>2 DEF IInv, TypeOK
    <3>. QED BY <3>1, <2>4
  <2>6. ASSUME NEW i \in DOMAIN kids[h.t]
        PROVE  /\ R[i] \in Handle /\ R[i].t = kids[h.t][i].t
               /\ h.ori \in {"FORWARD", "REVERSED"} \/ R[i].ori \in {"INTERNAL", "EXTERNAL"}
    <3>. DEFINE k == kids[h.t][i]
    <3>1. k \in Handle /\ R[i] = Reversed(Seen(h, k))
      BY <2>2, <2>4
    <3>. HIDE DEF k, R
    <3>2. Seen(h, k) \in Handle /\ Seen(h, k).t = k.t
      BY <2>2, <3>1, HandlesTyped, GroupAssumption
    <3>3. Reversed(Seen(h, k)) \in Handle /\ Reversed(Seen(h, k)).t = k.t
      BY <3>2, HandlesTyped, GroupAssumption
    <3>4. Reversed(Seen(h, k)).ori = Reverse(Compose(h.ori, k.ori))
      <4>1. Seen(h, k).ori = Compose(h.ori, k.ori)
        BY DEF Seen
      <4>. QED BY <3>2, <4>1 DEF Reversed, Handle
    <3>5. h.ori \in {"FORWARD", "REVERSED"}
            \/ Reverse(Compose(h.ori, k.ori)) \in {"INTERNAL", "EXTERNAL"}
      BY <2>2, <3>1 DEF Handle, Orientation, Compose, Reverse
    <3>. QED BY <3>1, <3>3, <3>4, <3>5 DEF k
  <2>. HIDE DEF R, N
  <2>7. R \in Seq(Handle) /\ TShapesOf(R) \subseteq Reached(dir, kids)
    <3>1. \A i \in 1 .. Len(kids[h.t]) : R[i] \in Handle /\ R[i].t \in Reached(dir, kids)
      BY <2>2, <2>4, <2>5, <2>6
    <3>2. R = [i \in 1 .. Len(kids[h.t]) |-> R[i]]
      BY <2>5 DEF R
    <3>3. [i \in 1 .. Len(kids[h.t]) |-> R[i]] \in Seq(Handle)
      BY <3>1, <2>5
    <3>. QED BY <3>1, <3>2, <3>3, <2>5 DEF TShapesOf
  <2>. DEFINE L == [i \in DOMAIN R |-> Stored(N, R[i])]
              K == [kids EXCEPT ![N.t] = L]
              F == Freeze([free EXCEPT ![N.t] = TRUE], TShapesOf(R))
              D == Named(n, N)
  <2>8. Sound(D, K, F) /\ K[N.t] = L
    BY <1>1, <2>1, <2>3, <2>7, Building
  <2>9. Settled(D, K, F)
    BY <2>1 DEF Build, N
  <2>10. D[n] = N /\ N.t \in Rooted(D)
    <3>1. D[n] = N
      BY <1>1 DEF IInv, TypeOK, Named
    <3>2. N # Null
      BY <2>3, NullAssumption
    <3>. HIDE DEF D
    <3>. QED BY <3>1, <3>2 DEF Rooted
  <2>11. dir'[n] = N /\ kids'[N.t] = L
    <3>. HIDE DEF D, K, F, L
    <3>1. D \in Dirs /\ K \in Lists /\ F \in Flags
      BY <2>8 DEF Sound
    <3>2. N.t \in Reached(D, K)
      BY <3>1, <2>10, ReachedIsLeast
    <3>. QED BY <3>1, <3>2, <2>8, <2>9, <2>10, AfterSettling
  <2>12. SeenIn(N, L) = R
    <3>1. ASSUME NEW i \in DOMAIN R
          PROVE  Seen(N, Stored(N, R[i])) = R[i]
      <4>. DEFINE s == Seen(N, Stored(N, R[i]))
      <4>1. /\ R[i] \in Handle
            /\ N.ori \in {"FORWARD", "REVERSED"} \/ R[i].ori \in {"INTERNAL", "EXTERNAL"}
        BY <2>3, <2>4, <2>6
      <4>2. s.t = R[i].t /\ s.loc = R[i].loc /\ s.ori = R[i].ori
        BY <4>1, <2>3, StoredIsSeen
      <4>3. s \in Handle
        <5>1. Stored(N, R[i]) \in Handle
          BY <4>1, <2>3, HandlesTyped, GroupAssumption
        <5>. QED BY <5>1, <2>3, HandlesTyped, GroupAssumption
      <4>. HIDE DEF s
      <4>4. s = R[i]
        BY <4>1, <4>2, <4>3 DEF Handle
      <4>. QED BY <4>4 DEF s
    <3>2. SeenIn(N, L) = [i \in DOMAIN R |-> R[i]]
      BY <3>1 DEF SeenIn
    <3>. QED BY <3>2 DEF R
  <2>. QED BY <2>11, <2>12 DEF R
<1>2. IInv => [A]_vars
  BY <1>1
<1>3. []IInv => [][A]_vars
  BY <1>2, PTL
<1>. QED BY <1>3, InvHolds, PTL DEF InvertKeepsPlaces

(***************************************************************************)
(* Shapes of which everything seen keeps its components keep all they show.*)
(***************************************************************************)
LEMMA MoreIsSeen ==
  ASSUME NEW X, NEW S, NEW Q, S \subseteq Q, NEW K, NEW J,
         \A x \in S : x.t \in X,
         \A t \in X : \A i \in DOMAIN K[t] : i \in DOMAIN J[t] /\ J[t][i] = K[t][i]
  PROVE  Within(S, K) \subseteq Within(Q, J)
<1>. SUFFICES ASSUME NEW y \in Within(S, K) PROVE y \in Within(Q, J)
  OBVIOUS
<1>1. CASE y \in S
  BY <1>1 DEF Within
<1>2. CASE y \notin S
  <2>1. PICK x \in S : \E i \in DOMAIN K[x.t] : y = Seen(x, K[x.t][i])
    BY <1>2 DEF Within
  <2>2. PICK i \in DOMAIN K[x.t] : y = Seen(x, K[x.t][i])
    BY <2>1
  <2>3. i \in DOMAIN J[x.t] /\ y = Seen(x, J[x.t][i]) /\ x \in Q
    BY <2>2
  <2>. QED BY <2>3 DEF Within
<1>. QED BY <1>1, <1>2

(***************************************************************************)
(* No command changes what is seen under a name it does not set.           *)
(***************************************************************************)
THEOREM OthersAlwaysStay == Spec => OthersStay
<1>. DEFINE A == \A m \in Name :
                   kids' # kids /\ Held(m) /\ dir'[m] = dir[m]
                     => Pieces(dir[m], kids) \subseteq Pieces(dir[m], kids')
<1>1. ASSUME IInv, Next PROVE A
  <2>. SUFFICES ASSUME NEW m \in Name, Held(m), dir'[m] = dir[m]
                PROVE  Pieces(dir[m], kids) \subseteq Pieces(dir[m], kids')
    OBVIOUS
  <2>1. PICK D \in Dirs, K \in Lists, F \in Flags : Sound(D, K, F) /\ Settled(D, K, F)
    BY <1>1, EveryStep DEF Settles
  <2>. DEFINE R == Reached(dir, kids)
              P == Reached(D, K)
              X == R \cap P
              h == dir[m]
  <2>2. dir' = D /\ \A t \in P : kids'[t] = K[t]
    BY <2>1, AfterSettling
  <2>3. kids \in Lists /\ R \subseteq TShape /\ ClosedUnder(kids, R) /\ ClosedUnder(K, P)
    <3>1. dir \in Dirs /\ kids \in Lists
      BY <1>1 DEF IInv, TypeOK, Dirs, Lists
    <3>. QED BY <3>1, ReachedIsLeast
  <2>4. h.t \in X
    <3>1. h.t \in R
      BY <1>1, CanBeReached DEF IInv
    <3>2. h.t \in Rooted(D)
      BY <2>2 DEF Held, Rooted
    <3>. QED BY <3>1, <3>2, ReachedIsLeast
  <2>5. \A t \in X : \A i \in DOMAIN kids[t] : i \in DOMAIN K[t] /\ K[t][i] = kids[t][i]
    BY <2>1 DEF Sound, Keeps
  <2>6. \A t \in X : \A i \in DOMAIN kids[t] : i \in DOMAIN kids'[t] /\ kids'[t][i] = kids[t][i]
    BY <2>2, <2>5
  <2>7. \A t \in X : \A i \in DOMAIN kids[t] : kids[t][i].t \in X
    BY <2>3, <2>5 DEF ClosedUnder, TShapesOf
  <2>. HIDE DEF X, R, P, h
  <2>. DEFINE S == Within({h}, kids)
              Q == Within({h}, kids')
  <2>8. S \subseteq Q
    BY <2>4, <2>6, MoreIsSeen
  <2>9. \A x \in S : x.t \in X
    BY <2>4, <2>7 DEF Within, Seen
  <2>. HIDE DEF S, Q
  <2>10. Within(S, kids) \subseteq Within(Q, kids')
    BY <2>6, <2>8, <2>9, MoreIsSeen
  <2>. QED BY <2>10 DEF Pieces, S, Q, h
<1>2. IInv /\ [Next]_vars => [A]_vars
  BY <1>1
<1>3. []IInv /\ [][Next]_vars => [][A]_vars
  BY <1>2, PTL
<1>. QED BY <1>3, InvHolds, PTL DEF Spec, OthersStay
-----------------------------------------------------------------------------
(***************************************************************************)
(* Without places and orientations, and with components as sets, this is   *)
(* the graph of ShapeGraph, in which every command here is one of there.   *)
(***************************************************************************)
Tops(D) == [n \in Name |-> IF D[n] = Null THEN Null ELSE D[n].t]

Edges(K) == [t \in TShape |-> TShapesOf(K[t])]

Types(R) == [t \in TShape |-> IF t \in R THEN "compound" ELSE "gone"]

Graph == INSTANCE ShapeGraphProofs
           WITH Gone <- "gone", Kind <- {"compound"}, thawed <- {},
                dir <- Tops(dir), held <- {}, kids <- Edges(kids), free <- free,
                type <- Types(Reached(dir, kids))

LEMMA GraphOfCompounds == Graph!GraphAssumption
BY NullAssumption DEF Graph!GraphAssumption, Graph!Type

LEMMA TopsAndEdges ==
  ASSUME NEW D \in Dirs, NEW K \in Lists
  PROVE  /\ \A n \in Name : D[n] # Null => Tops(D)[n] = D[n].t /\ D[n].t \in TShape
         /\ \A n \in Name : Tops(D)[n] = Null <=> D[n] = Null
         /\ Edges(K) \in [TShape -> SUBSET TShape]
         /\ \A t \in TShape : Edges(K)[t] = TShapesOf(K[t])
<1>1. \A n \in Name : D[n] # Null => D[n] \in Handle /\ D[n].t \in TShape
  BY DEF Dirs, Handle
<1>2. \A t \in TShape : K[t] \in Seq(Handle)
  BY DEF Lists
<1>3. \A t \in TShape : \A i \in DOMAIN K[t] : K[t][i] \in Handle
  BY <1>2
<1>4. \A t \in TShape : TShapesOf(K[t]) \in SUBSET TShape
  BY <1>3 DEF TShapesOf, Handle
<1>. QED BY <1>1, <1>4, NullAssumption DEF Tops, Edges

\* The two models agree about what can be reached.
LEMMA SameReach ==
  ASSUME NEW D \in Dirs, NEW K \in Lists
  PROVE  Graph!Below(Graph!Rooted(Tops(D), {}), Edges(K)) = Reached(D, K)
<1>1. Graph!Rooted(Tops(D), {}) = Rooted(D)
  <2>1. ASSUME NEW t \in Rooted(D) PROVE t \in Graph!Rooted(Tops(D), {})
    <3>1. PICK n \in Name : D[n] # Null /\ t = D[n].t
      BY DEF Rooted
    <3>. QED BY <3>1, TopsAndEdges DEF Graph!Rooted
  <2>2. ASSUME NEW t \in Graph!Rooted(Tops(D), {}) PROVE t \in Rooted(D)
    <3>1. PICK n \in Name : Tops(D)[n] = t /\ t \in TShape
      BY DEF Graph!Rooted
    <3>2. D[n] # Null /\ t = D[n].t
      BY <3>1, NullAssumption, TopsAndEdges
    <3>. QED BY <3>2 DEF Rooted
  <2>. QED BY <2>1, <2>2
<1>2. \A X \in SUBSET TShape : Graph!ClosedUnder(Edges(K), X) <=> ClosedUnder(K, X)
  BY TopsAndEdges DEF Graph!ClosedUnder, ClosedUnder
<1>. QED BY <1>1, <1>2 DEF Graph!Below, Reached

LEMMA SettlingMaps ==
  ASSUME NEW D \in Dirs, NEW K \in Lists, NEW F \in Flags, Settled(D, K, F),
         NEW Y, \A t \in Reached(D, K) : Y[t] = "compound"
  PROVE  Graph!Settled(Tops(D), {}, Edges(K), F, Y)
<1>. DEFINE R == Reached(D, K)
<1>1. R \subseteq TShape /\ Rooted(D) \subseteq R /\ ClosedUnder(K, R)
  BY ReachedIsLeast
<1>2. dir' = D /\ kids' \in Lists /\ R \subseteq Reached(dir', kids')
  BY AfterSettling
<1>3. kids' = [t \in TShape |-> IF t \in R THEN K[t] ELSE <<>>]
  BY DEF Settled
<1>4. free' = [t \in TShape |-> IF t \in R THEN F[t] ELSE TRUE]
  BY DEF Settled
<1>. HIDE DEF R
<1>5. Reached(dir', kids') = R
  <2>1. ClosedUnder(kids', R)
    BY <1>1, <1>3 DEF ClosedUnder
  <2>. QED BY <1>1, <1>2, <2>1, ReachedIsLeast
<1>6. Edges(kids') = [t \in TShape |-> IF t \in R THEN Edges(K)[t] ELSE {}]
  <2>1. TShapesOf(<<>>) = {}
    BY DEF TShapesOf
  <2>. QED BY <1>3, <2>1 DEF Edges
<1>7. Types(R) = [t \in TShape |-> IF t \in R THEN Y[t] ELSE "gone"]
  BY DEF Types, R
<1>8. Graph!Below(Graph!Rooted(Tops(D), {}), Edges(K)) = R
  BY SameReach DEF R
<1>. QED BY <1>2, <1>4, <1>5, <1>6, <1>7, <1>8 DEF Graph!Settled

\* What is reached lives there, and the invariant of the graph is about it.
LEMMA GraphFacts ==
  ASSUME IInv, Graph!IInv
  PROVE  /\ dir \in Dirs /\ kids \in Lists /\ free \in Flags
         /\ Graph!Alive = Reached(dir, kids) /\ Graph!Unused = Unused
         /\ \A t \in TShape : t \notin TShapesOf(kids[t])
<1>1. dir \in Dirs /\ kids \in Lists /\ free \in Flags
  BY DEF IInv, TypeOK, Dirs, Lists, Flags
<1>2. Reached(dir, kids) \subseteq TShape
  BY <1>1, ReachedIsLeast
<1>3. Graph!Alive = Reached(dir, kids)
  BY <1>2 DEF Graph!Alive, Types
<1>4. ASSUME NEW t \in TShape PROVE t \notin TShapesOf(kids[t])
  <2>1. PICK x \in {t} : Edges(kids)[x] \cap {t} = {}
    BY DEF Graph!IInv, Graph!Safe, Graph!Acyclic, Graph!AcyclicIn
  <2>. QED BY <2>1, <1>1, TopsAndEdges
<1>. QED BY <1>1, <1>3, <1>4 DEF Graph!Unused, Unused

LEMMA BuildingMaps ==
  ASSUME IInv, NEW n \in Name, NEW h \in Handle, h.t \in Unused, NEW C \in Seq(Handle),
         TShapesOf(C) \subseteq Reached(dir, kids), Build(n, h, C)
  PROVE  Graph!Build(n, h.t, "compound", TShapesOf(C))
<1>. DEFINE L == [i \in DOMAIN C |-> Stored(h, C[i])]
            K == [kids EXCEPT ![h.t] = L]
            F == Freeze([free EXCEPT ![h.t] = TRUE], TShapesOf(C))
            D == Named(n, h)
            R == Reached(dir, kids)
            Y == [Types(R) EXCEPT ![h.t] = "compound"]
<1>1. dir \in Dirs /\ kids \in Lists /\ free \in Flags
  BY DEF IInv, TypeOK, Dirs, Lists, Flags
<1>2. Sound(D, K, F) /\ K[h.t] = L
  BY Building
<1>3. Settled(D, K, F)
  BY DEF Build
<1>4. D \in Dirs /\ K \in Lists /\ F \in Flags
  <2>. HIDE DEF D, K, F
  <2>. QED BY <1>2 DEF Sound
<1>5. TShapesOf(L) = TShapesOf(C)
  <2>1. \A i \in DOMAIN C : Stored(h, C[i]).t = C[i].t
    BY HandlesTyped, GroupAssumption
  <2>. QED BY <2>1 DEF TShapesOf
<1>6. h.t \in TShape /\ h.t \notin R
  BY DEF Unused
<1>7. R \subseteq TShape /\ Rooted(dir) \subseteq R /\ ClosedUnder(kids, R)
  BY <1>1, ReachedIsLeast
<1>8. Edges(K) = [Edges(kids) EXCEPT ![h.t] = TShapesOf(C)]
  <2>. HIDE DEF L
  <2>1. \A t \in TShape : K[t] = IF t = h.t THEN L ELSE kids[t]
    BY <1>1 DEF Lists
  <2>. HIDE DEF K
  <2>. QED BY <2>1, <1>5 DEF Edges
<1>9. Tops(D) = [Tops(dir) EXCEPT ![n] = h.t]
  <2>1. h # Null
    BY NullAssumption
  <2>2. \A m \in Name : D[m] = IF m = n THEN h ELSE dir[m]
    BY <1>1 DEF Named, Dirs
  <2>. HIDE DEF D
  <2>. QED BY <2>1, <2>2 DEF Tops
<1>10. F = Graph!Freeze([free EXCEPT ![h.t] = TRUE], TShapesOf(C))
  BY <1>1 DEF Freeze, Graph!Freeze, Flags
<1>11. Reached(D, K) \subseteq R \cup {h.t}
  <2>1. ClosedUnder(K, R \cup {h.t})
    BY <1>1, <1>2, <1>5, <1>7 DEF ClosedUnder, Lists
  <2>2. Rooted(D) \subseteq R \cup {h.t}
    BY <1>1, <1>7 DEF Rooted, Named, Dirs
  <2>. HIDE DEF D, K, R
  <2>. QED BY <2>1, <2>2, <1>4, <1>6, <1>7, ReachedIsLeast
<1>12. \A t \in Reached(D, K) : Y[t] = "compound"
  <2>. HIDE DEF D, K, R
  <2>. QED BY <1>6, <1>7, <1>11 DEF Types
<1>13. Graph!Settled(Tops(D), {}, Edges(K), F, Y)
  <2>. HIDE DEF D, K, F, Y
  <2>. QED BY <1>3, <1>4, <1>12, SettlingMaps
<1>. HIDE DEF D, K, F
<1>. QED BY <1>8, <1>9, <1>10, <1>13 DEF Graph!Build, Graph!Named

\* Only the directory changes, and names what could be reached before.
LEMMA RenamingMaps ==
  ASSUME IInv, NEW D \in Dirs, Rooted(D) \subseteq Reached(dir, kids), Settled(D, kids, free)
  PROVE  Graph!Settled(Tops(D), {}, Edges(kids), free, Types(Reached(dir, kids)))
<1>1. dir \in Dirs /\ kids \in Lists /\ free \in Flags
  BY DEF IInv, TypeOK, Dirs, Lists, Flags
<1>2. Reached(D, kids) \subseteq Reached(dir, kids) /\ Reached(dir, kids) \subseteq TShape
  BY <1>1, ReachedIsLeast
<1>3. \A t \in Reached(D, kids) : Types(Reached(dir, kids))[t] = "compound"
  BY <1>2 DEF Types
<1>. QED BY <1>1, <1>3, SettlingMaps

(***************************************************************************)
(* Each command is one of the graph's, or leaves the graph as it is.       *)
(***************************************************************************)
LEMMA TurningMaps ==
  ASSUME IInv, NEW n \in Name, dir[n] # Null, NEW h, h # Null, h.t = dir[n].t, Turned(n, h)
  PROVE  UNCHANGED Graph!vars
<1>1. dir \in Dirs
  BY DEF IInv, TypeOK, Dirs
<1>2. dir' = Named(n, h) /\ kids' = kids /\ free' = free
  BY DEF Turned
<1>3. \A m \in Name : dir'[m] = IF m = n THEN h ELSE dir[m]
  BY <1>1, <1>2 DEF Named, Dirs
<1>4. Tops(dir') = Tops(dir)
  BY <1>3 DEF Tops
<1>5. Rooted(dir') = Rooted(dir)
  BY <1>3 DEF Rooted
<1>6. Reached(dir', kids') = Reached(dir, kids)
  BY <1>2, <1>5 DEF Reached
<1>. QED BY <1>2, <1>4, <1>6 DEF Graph!vars

LEMMA CompoundMaps ==
  ASSUME IInv, Graph!IInv, NEW n \in Name, Compound(n)
  PROVE  Graph!Next
<1>. USE DEF Held
<1>1. PICK t \in Unused, C \in UpTo(MaxKids, {dir[m] : m \in Name} \ {Null}) :
        Build(n, [t |-> t, loc |-> Id, ori |-> "FORWARD"], C)
  BY DEF Compound
<1>. DEFINE h == [t |-> t, loc |-> Id, ori |-> "FORWARD"]
            M == {m \in Name : \E i \in DOMAIN C : dir[m] = C[i]}
<1>2. h \in Handle /\ h.t = t
  BY GroupAssumption DEF Handle, Orientation, Unused
<1>3. PICK k \in Nat : C \in [1 .. k -> {dir[m] : m \in Name} \ {Null}]
  BY PlacementAssumption DEF UpTo
<1>4. \A m \in Name : Held(m) => dir[m] \in Handle /\ dir[m].t \in Reached(dir, kids)
  BY CanBeReached DEF IInv
<1>5. \A i \in 1 .. k : C[i] \in Handle /\ C[i].t \in Reached(dir, kids)
  BY <1>3, <1>4
<1>6. C \in Seq(Handle) /\ DOMAIN C = 1 .. k
  BY <1>3, <1>5
<1>7. TShapesOf(C) \subseteq Reached(dir, kids)
  BY <1>5, <1>6 DEF TShapesOf
<1>8. TShapesOf(C) = {Tops(dir)[m] : m \in M} \ {Null}
  <2>1. dir \in Dirs /\ kids \in Lists
    BY DEF IInv, TypeOK, Dirs, Lists
  <2>2. \A i \in DOMAIN C : \E m \in M : dir[m] = C[i]
    BY <1>3, <1>6
  <2>3. \A m \in M : Tops(dir)[m] = dir[m].t /\ Tops(dir)[m] # Null
    BY <1>3, <1>6, <2>1, TopsAndEdges
  <2>4. ASSUME NEW x \in TShapesOf(C) PROVE x \in {Tops(dir)[m] : m \in M} \ {Null}
    <3>1. PICK i \in DOMAIN C : x = C[i].t
      BY DEF TShapesOf
    <3>2. PICK m \in M : dir[m] = C[i]
      BY <2>2
    <3>. QED BY <3>1, <3>2, <2>3
  <2>5. ASSUME NEW m \in M PROVE Tops(dir)[m] \in TShapesOf(C)
    BY <2>3 DEF TShapesOf
  <2>. QED BY <2>4, <2>5
<1>. HIDE DEF h, M
<1>9. Build(n, h, C)
  BY <1>1 DEF h
<1>10. Graph!Build(n, t, "compound", TShapesOf(C))
  BY <1>2, <1>6, <1>7, <1>9, BuildingMaps
<1>11. t \in Graph!Unused
  BY GraphFacts
<1>12. Graph!Compound(n, M)
  BY <1>8, <1>10, <1>11 DEF Graph!Compound
<1>13. M \in SUBSET Name
  BY DEF M
<1>. QED BY <1>12, <1>13 DEF Graph!Next

LEMMA EmptyCopyMaps ==
  ASSUME IInv, Graph!IInv, NEW n \in Name, NEW m \in Name, EmptyCopy(n, m)
  PROVE  Graph!Next
<1>1. PICK t \in Unused : Build(n, [dir[m] EXCEPT !.t = t], <<>>)
  BY DEF EmptyCopy
<1>. DEFINE h == [dir[m] EXCEPT !.t = t]
<1>2. Held(m) /\ dir[m] \in Handle /\ dir[m].t \in Reached(dir, kids)
  BY CanBeReached DEF EmptyCopy, IInv
<1>3. h \in Handle /\ h.t = t
  BY <1>2 DEF Handle, Unused
<1>4. <<>> \in Seq(Handle) /\ TShapesOf(<<>>) = {}
  BY DEF TShapesOf
<1>. HIDE DEF h
<1>5. Build(n, h, <<>>)
  BY <1>1 DEF h
<1>6. Graph!Build(n, t, "compound", {})
  BY <1>3, <1>4, <1>5, BuildingMaps
<1>7. Tops(dir)[m] = dir[m].t /\ Tops(dir)[m] # Null /\ dir[m].t \in TShape
  BY <1>2, GraphFacts, TopsAndEdges DEF Held
<1>8. Types(Reached(dir, kids))[Tops(dir)[m]] = "compound"
  BY <1>2, <1>7 DEF Types
<1>9. t \in Graph!Unused
  BY GraphFacts
<1>10. Graph!EmptyCopy(n, m)
  BY <1>6, <1>7, <1>8, <1>9 DEF Graph!EmptyCopy
<1>. QED BY <1>10 DEF Graph!Next

LEMMA AddMaps ==
  ASSUME IInv, Graph!IInv, NEW a \in Name, NEW b \in Name, Add(a, b)
  PROVE  Graph!Next
<1>. DEFINE c == dir[a]
            h == dir[b]
            F == Freeze(free, {c.t})
            L == Append(kids[h.t], Stored(h, c))
            K == [kids EXCEPT ![h.t] = L]
            J == IF F[h.t] THEN K ELSE kids
            R == Reached(dir, kids)
<1>1. /\ c \in Handle /\ h \in Handle /\ c.t \in R /\ h.t \in R
      /\ c # Null /\ h # Null
  BY CanBeReached DEF Add, IInv, Held
<1>2. dir \in Dirs /\ kids \in Lists /\ free \in Flags
  BY GraphFacts
<1>3. /\ Sound(dir, J, F) /\ kids[h.t] \in Seq(Handle) /\ Stored(h, c) \in Handle
  BY <1>1, Adding
<1>4. Settled(dir, J, F)
  BY DEF Add
<1>5. J \in Lists /\ F \in Flags
  <2>. HIDE DEF J, F
  <2>. QED BY <1>3 DEF Sound
<1>6. R \subseteq TShape /\ Rooted(dir) \subseteq R /\ ClosedUnder(kids, R)
  BY <1>2, ReachedIsLeast
<1>7. TShapesOf(L) = TShapesOf(kids[h.t]) \cup {c.t}
  <2>1. Stored(h, c).t = c.t
    BY <1>1, HandlesTyped, GroupAssumption
  <2>2. /\ DOMAIN L = 1 .. Len(kids[h.t]) + 1 /\ DOMAIN kids[h.t] = 1 .. Len(kids[h.t])
        /\ Len(kids[h.t]) \in Nat
        /\ \A i \in DOMAIN kids[h.t] : L[i] = kids[h.t][i]
        /\ L[Len(kids[h.t]) + 1] = Stored(h, c)
    BY <1>3
  <2>. HIDE DEF L
  <2>3. \A i \in DOMAIN L : i \in DOMAIN kids[h.t] \/ i = Len(kids[h.t]) + 1
    BY <2>2
  <2>4. Len(kids[h.t]) + 1 \in DOMAIN L /\ \A i \in DOMAIN kids[h.t] : i \in DOMAIN L
    BY <2>2
  <2>. QED BY <2>1, <2>2, <2>3, <2>4 DEF TShapesOf
<1>8. \A t \in TShape : K[t] = IF t = h.t THEN L ELSE kids[t]
  BY <1>2 DEF Lists
<1>. HIDE DEF L
<1>9. Edges(K) = [Edges(kids) EXCEPT ![h.t] = @ \cup {c.t}]
  <2>1. h.t \in TShape
    BY <1>1, <1>6
  <2>. HIDE DEF K, c, h
  <2>. QED BY <2>1, <1>7, <1>8 DEF Edges
<1>10. Reached(dir, J) \subseteq R
  <2>1. ClosedUnder(J, R)
    <3>. HIDE DEF K, c, h, F, R
    <3>1. ClosedUnder(K, R)
      BY <1>1, <1>6, <1>7, <1>8 DEF ClosedUnder
    <3>. QED BY <3>1, <1>6
  <2>. HIDE DEF J, R
  <2>. QED BY <2>1, <1>2, <1>5, <1>6, ReachedIsLeast
<1>11. \A t \in R : t \in TShape /\ Types(R)[t] = "compound"
  BY <1>6 DEF Types
<1>12. Graph!Settled(Tops(dir), {}, Edges(J), F, Types(R))
  <2>. HIDE DEF J, F, R
  <2>. QED BY <1>2, <1>4, <1>5, <1>10, <1>11, SettlingMaps
<1>13. F = Graph!Freeze(free, {c.t})
  BY <1>2 DEF Freeze, Graph!Freeze, Flags
<1>. HIDE DEF F, K, R
<1>14. Graph!Inserts(c.t, h.t) <=> F[h.t]
  <2>1. Graph!Fits(Types(R)[c.t], Types(R)[h.t])
    BY <1>1, <1>11 DEF Graph!Fits, Graph!Containers
  <2>. QED BY <2>1, <1>13 DEF Graph!Inserts, Graph!Editable, R
<1>15. Tops(dir)[a] = c.t /\ Tops(dir)[b] = h.t /\ c.t # Null /\ h.t # Null
  BY <1>1, <1>2, <1>11, NullAssumption, TopsAndEdges
<1>16. Edges(J) = IF Graph!Inserts(c.t, h.t) THEN [Edges(kids) EXCEPT ![h.t] = @ \cup {c.t}]
                  ELSE Edges(kids)
  <2>. HIDE DEF c, h
  <2>. QED BY <1>9, <1>14
<1>. HIDE DEF J, c, h
<1>17. Graph!Add(a, b)
  BY <1>12, <1>13, <1>15, <1>16 DEF Graph!Add, R
<1>. QED BY <1>17 DEF Graph!Next

LEMMA ExplodeMaps ==
  ASSUME IInv, Graph!IInv, NEW m \in Name, Explode(m)
  PROVE  Graph!Next
<1>. DEFINE h == dir[m]
            C == SeenIn(h, kids[h.t])
            R == Reached(dir, kids)
<1>1. PICK part \in [Name \ {m} -> 0 .. Len(C)] :
        Settled([n \in Name |-> IF n = m \/ part[n] = 0 THEN dir[n] ELSE C[part[n]]],
                kids, free)
  BY DEF Explode
<1>2. /\ Held(m) /\ h \in Handle /\ h.t \in R
      /\ \A i \in DOMAIN kids[h.t] : kids[h.t][i] \in Handle /\ kids[h.t][i].t \in R
  BY CanBeReached DEF Explode, IInv
<1>3. dir \in Dirs /\ kids \in Lists /\ free \in Flags
  BY GraphFacts
<1>4. R \subseteq TShape /\ Rooted(dir) \subseteq R
  BY <1>3, ReachedIsLeast
<1>5. DOMAIN C = 1 .. Len(C)
  <2>1. kids[h.t] \in Seq(Handle)
    BY <1>2, <1>3, <1>4 DEF Lists
  <2>2. C = [i \in 1 .. Len(kids[h.t]) |-> Seen(h, kids[h.t][i])] /\ Len(kids[h.t]) \in Nat
    BY <2>1 DEF SeenIn
  <2>. QED BY <2>2
<1>6. \A i \in DOMAIN C : C[i] \in Handle /\ C[i].t \in TShapesOf(kids[h.t])
  <2>1. \A i \in DOMAIN kids[h.t] :
          Seen(h, kids[h.t][i]) \in Handle /\ Seen(h, kids[h.t][i]).t = kids[h.t][i].t
    BY <1>2, HandlesTyped, GroupAssumption
  <2>. QED BY <2>1 DEF SeenIn, TShapesOf
<1>. HIDE DEF C
<1>. DEFINE D == [n \in Name |-> IF n = m \/ part[n] = 0 THEN dir[n] ELSE C[part[n]]]
            top == [n \in Name \ {m} |-> IF part[n] = 0 THEN Null ELSE C[part[n]].t]
<1>7. \A n \in Name \ {m} : part[n] # 0 => part[n] \in DOMAIN C
  BY <1>5
<1>8. D \in Dirs
  BY <1>3, <1>6, <1>7 DEF Dirs
<1>9. Rooted(D) \subseteq R
  <2>1. TShapesOf(kids[h.t]) \subseteq R
    BY <1>2 DEF TShapesOf
  <2>2. ASSUME NEW n \in Name, D[n] # Null PROVE D[n].t \in R
    <3>1. CASE n = m \/ part[n] = 0
      BY <2>2, <3>1, <1>4 DEF Rooted
    <3>2. CASE ~(n = m \/ part[n] = 0)
      BY <3>2, <2>1, <1>6, <1>7
    <3>. QED BY <3>1, <3>2
  <2>. HIDE DEF D
  <2>. QED BY <2>2 DEF Rooted
<1>10. Graph!Settled(Tops(D), {}, Edges(kids), free, Types(R))
  <2>. HIDE DEF D, R
  <2>1. Settled(D, kids, free)
    BY <1>1 DEF D
  <2>. QED BY <2>1, <1>8, <1>9, RenamingMaps DEF R
<1>11. Tops(dir)[m] = h.t /\ h.t \in TShape /\ h.t # Null
  BY <1>2, <1>3, <1>4, NullAssumption, TopsAndEdges DEF Held
<1>12. ASSUME NEW i \in DOMAIN C
       PROVE  C[i].t \in Graph!Below({h.t}, Edges(kids)) \ {h.t} /\ C[i].t # Null
  <2>1. C[i].t \in Edges(kids)[h.t] /\ C[i].t # h.t
    BY <1>6, <1>11, GraphFacts, TopsAndEdges
  <2>2. Edges(kids) \in [TShape -> SUBSET TShape]
    BY <1>3, TopsAndEdges
  <2>3. C[i].t \in Graph!Below({h.t}, Edges(kids))
    <3>. DEFINE E == Edges(kids)
                T == {h.t}
    <3>1. T \in SUBSET TShape /\ E \in [TShape -> SUBSET TShape]
      BY <1>11, <2>2
    <3>. HIDE DEF E, T
    <3>2. T \subseteq Graph!Below(T, E) /\ \A t \in Graph!Below(T, E) : E[t] \subseteq Graph!Below(T, E)
      BY <3>1, Graph!BelowRoots, GraphOfCompounds
    <3>. QED BY <3>2, <2>1 DEF E, T
  <2>. QED BY <2>1, <2>3, <1>6, NullAssumption DEF Handle
<1>13. top \in [Name \ {m} -> (Graph!Below({h.t}, Edges(kids)) \cup {Null}) \ {h.t}]
  BY <1>7, <1>11, <1>12
<1>14. Tops(D) = [n \in Name |-> IF n = m \/ top[n] = Null THEN Tops(dir)[n] ELSE top[n]]
  <2>1. ASSUME NEW n \in Name
        PROVE  (IF D[n] = Null THEN Null ELSE D[n].t)
                 = IF n = m \/ top[n] = Null THEN Tops(dir)[n] ELSE top[n]
    <3>1. CASE n = m \/ part[n] = 0
      BY <3>1 DEF Tops
    <3>2. CASE n # m /\ part[n] # 0
      <4>1. D[n] = C[part[n]] /\ top[n] = C[part[n]].t /\ part[n] \in DOMAIN C
        BY <3>2, <1>7
      <4>2. C[part[n]] # Null /\ C[part[n]].t # Null
        BY <4>1, <1>6, <1>12, NullAssumption
      <4>. QED BY <3>2, <4>1, <4>2
    <3>. QED BY <3>1, <3>2
  <2>. HIDE DEF D, top
  <2>. QED BY <2>1 DEF Tops
<1>. HIDE DEF D, top, h
<1>15. Graph!Explode(m)
  BY <1>10, <1>11, <1>13, <1>14 DEF Graph!Explode, R
<1>. QED BY <1>15 DEF Graph!Next

LEMMA CopyMaps ==
  ASSUME IInv, Graph!IInv, NEW n \in Name, NEW m \in Name, Copy(n, m)
  PROVE  Graph!Next
<1>. DEFINE D == Named(n, dir[m])
<1>1. Held(m) /\ dir[m] \in Handle /\ dir[m].t \in Reached(dir, kids)
  BY CanBeReached DEF Copy, IInv
<1>2. dir \in Dirs /\ kids \in Lists
  BY GraphFacts
<1>3. Rooted(dir) \subseteq Reached(dir, kids)
  BY <1>2, ReachedIsLeast
<1>4. D \in Dirs /\ \A l \in Name : D[l] = IF l = n THEN dir[m] ELSE dir[l]
  BY <1>1, <1>2 DEF Named, Dirs
<1>5. Settled(D, kids, free)
  BY DEF Copy, Renamed
<1>. HIDE DEF D
<1>6. Rooted(D) \subseteq Reached(dir, kids)
  BY <1>1, <1>3, <1>4 DEF Rooted
<1>7. Graph!Settled(Tops(D), {}, Edges(kids), free, Types(Reached(dir, kids)))
  BY <1>4, <1>5, <1>6, RenamingMaps
<1>8. Tops(dir)[m] = dir[m].t /\ Tops(dir)[m] # Null
  BY <1>1, <1>2, TopsAndEdges DEF Held
<1>9. Tops(D) = [Tops(dir) EXCEPT ![n] = Tops(dir)[m]]
  BY <1>1, <1>4, <1>8 DEF Tops, Held
<1>10. Graph!Copy(n, m)
  BY <1>7, <1>8, <1>9 DEF Graph!Copy, Graph!Named
<1>. QED BY <1>10 DEF Graph!Next

LEMMA InvertMaps ==
  ASSUME IInv, Graph!IInv, NEW n \in Name, Invert(n)
  PROVE  Graph!Next
<1>. DEFINE h == dir[n]
            K == kids[h.t]
            C == SeenIn(h, K)
            S == [i \in DOMAIN C |-> Reversed(C[i])]
<1>1. PICK t \in Unused : Build(n, [h EXCEPT !.t = t], S)
  BY DEF Invert
<1>2. /\ Held(n) /\ h \in Handle /\ h.t \in Reached(dir, kids)
      /\ \A i \in DOMAIN K : K[i] \in Handle /\ K[i].t \in Reached(dir, kids)
  BY CanBeReached DEF Invert, IInv
<1>3. dir \in Dirs /\ kids \in Lists
  BY GraphFacts
<1>4. Tops(dir)[n] = h.t /\ h.t \in TShape /\ h.t # Null
  BY <1>2, <1>3, NullAssumption, TopsAndEdges DEF Held
<1>5. \A i \in DOMAIN K :
        /\ Reversed(Seen(h, K[i])) \in Handle
        /\ Reversed(Seen(h, K[i])).t = K[i].t
  <2>1. \A k \in Handle : Seen(h, k) \in Handle /\ Seen(h, k).t = k.t
    BY <1>2, HandlesTyped, GroupAssumption
  <2>2. \A k \in Handle : Reversed(k) \in Handle /\ Reversed(k).t = k.t
    BY HandlesTyped, GroupAssumption
  <2>. QED BY <1>2, <2>1, <2>2
<1>6. S = [i \in DOMAIN K |-> Reversed(Seen(h, K[i]))]
  BY DEF SeenIn
<1>7. S \in Seq(Handle)
  <2>1. DOMAIN K = 1 .. Len(K) /\ Len(K) \in Nat
    BY <1>3, <1>4 DEF Lists
  <2>. HIDE DEF S, K
  <2>. QED BY <1>5, <1>6, <2>1
<1>8. TShapesOf(S) = TShapesOf(K)
  <2>. HIDE DEF S, K
  <2>. QED BY <1>5, <1>6 DEF TShapesOf
<1>9. TShapesOf(S) \subseteq Reached(dir, kids)
  BY <1>2, <1>8 DEF TShapesOf
<1>. DEFINE N == [h EXCEPT !.t = t]
<1>10. N \in Handle /\ N.t = t
  BY <1>2 DEF Handle, Unused
<1>. HIDE DEF N, S
<1>11. Build(n, N, S)
  BY <1>1 DEF N, S
<1>12. Graph!Build(n, t, "compound", TShapesOf(K))
  BY <1>7, <1>8, <1>9, <1>10, <1>11, BuildingMaps
<1>13. Types(Reached(dir, kids))[h.t] = "compound" /\ Edges(kids)[h.t] = TShapesOf(K)
  BY <1>2, <1>3, <1>4, TopsAndEdges DEF Types
<1>14. t \in Graph!Unused
  BY GraphFacts
<1>15. Graph!Invert(n)
  BY <1>4, <1>12, <1>13, <1>14 DEF Graph!Invert
<1>. QED BY <1>15 DEF Graph!Next

\* What only moves or turns a handle leaves the graph as it is.
LEMMA TurningsMap ==
  ASSUME IInv, NEW n \in Name, NEW m \in Name, Turning(n, m)
  PROVE  UNCHANGED Graph!vars
<1>1. PICK h \in Handle : h.t = dir[n].t /\ Turned(n, h)
  BY Turnings DEF Turns
<1>2. dir[n] # Null /\ h # Null
  BY Turnings, NullAssumption DEF Turns
<1>. QED BY <1>1, <1>2, TurningMaps

LEMMA StepMaps == IInv /\ Graph!IInv /\ [Next]_vars => [Graph!Next]_(Graph!vars)
<1>1. ASSUME IInv, Graph!IInv, Next PROVE [Graph!Next]_(Graph!vars)
  <2>1. ASSUME NEW n \in Name, Compound(n) \/ Explode(n) \/ Invert(n) PROVE Graph!Next
    BY <1>1, <2>1, CompoundMaps, ExplodeMaps, InvertMaps
  <2>2. ASSUME NEW n \in Name, NEW m \in Name, EmptyCopy(n, m) \/ Add(n, m) \/ Copy(n, m)
        PROVE  Graph!Next
    BY <1>1, <2>2, EmptyCopyMaps, AddMaps, CopyMaps
  <2>3. ASSUME NEW n \in Name, NEW m \in Name, Turning(n, m) PROVE UNCHANGED Graph!vars
    BY <1>1, <2>3, TurningsMap
  <2>. QED BY <1>1, <2>1, <2>2, <2>3 DEF Next, Turning
<1>2. ASSUME UNCHANGED vars PROVE UNCHANGED Graph!vars
  BY <1>2 DEF vars, Graph!vars
<1>. QED BY <1>1, <1>2

LEMMA StartMaps == Init => Graph!Init
<1>. SUFFICES ASSUME Init PROVE Graph!Init
  OBVIOUS
<1>1. dir \in Dirs /\ kids \in Lists
  BY DEF Init, Dirs, Lists
<1>2. Reached(dir, kids) = {}
  <2>1. Rooted(dir) = {} /\ ClosedUnder(kids, {})
    BY DEF Init, Rooted, ClosedUnder
  <2>. QED BY <1>1, <2>1, ReachedIsLeast
<1>3. Tops(dir) = [n \in Name |-> Null]
  BY DEF Init, Tops
<1>4. Edges(kids) = [t \in TShape |-> {}]
  BY DEF Init, Edges, TShapesOf
<1>5. Types(Reached(dir, kids)) = [t \in TShape |-> "gone"]
  BY <1>2 DEF Types
<1>. QED BY <1>3, <1>4, <1>5 DEF Graph!Init, Init

\* While the graph is acyclic so far, the next command is one of the graph's,
\* and these keep it acyclic.
LEMMA GraphInvHolds == Spec => [](IInv /\ Graph!IInv)
<1>1. Init => Graph!IInv
  BY StartMaps, Graph!InitInv, GraphOfCompounds
<1>2. ASSUME IInv, Graph!IInv, [Next]_vars PROVE Graph!IInv'
  <2>1. [Graph!Next]_(Graph!vars)
    BY <1>2, StepMaps
  <2>2. Graph!Kept
    BY <1>2, <2>1, Graph!NextKept, GraphOfCompounds DEF Graph!IInv
  <2>. QED BY <1>2, <2>2 DEF Graph!Kept, Graph!IInv
<1>. QED BY <1>1, <1>2, InvHolds, PTL DEF Spec

(***************************************************************************)
(* Every command on placed shapes is one of ShapeGraph on the TShapes they *)
(* have, or changes nothing there: what is left out in ShapeGraph, where   *)
(* and how things are placed, has no say in what contains what.            *)
(***************************************************************************)
THEOREM ImplementsShapeGraph == Spec => Graph!Spec
<1>1. Init => Graph!Init
  BY StartMaps
<1>2. IInv /\ Graph!IInv /\ [Next]_vars => [Graph!Next]_(Graph!vars)
  BY StepMaps
<1>. QED BY <1>1, <1>2, GraphInvHolds, PTL DEF Spec, Graph!Spec
=============================================================================
