-------------------------- MODULE ShapeGraphProofs --------------------------
(***************************************************************************)
(* Every cycle of TShapes goes through one that setflags has thawed, for   *)
(* any number of names and TShapes, infinitely many included.  The reason: *)
(* a component that was never thawed is frozen, so a container that Add    *)
(* still edits is thawed, or no component of anything, and then its new    *)
(* edge closes no cycle.  Whatever is thawed, the graph holds nothing that *)
(* was destroyed, and nothing where Add would not have put it.             *)
(***************************************************************************)
EXTENDS ShapeGraph, TLAPS

Shaped == TypeOK /\ HierarchyHolds

Safe == Acyclic /\ ComponentsFrozen

IInv == Shaped /\ Safe

\* What a command does.
Kept == Shaped' /\ (Safe => Safe')

\* The TShapes that live according to the types Y.
Living(Y) == {t \in TShape : Y[t] # Gone}

\* TypeOK, of a state given by its parts.
Typed(D, H, K, F, Y) ==
  /\ Y \in [TShape -> Type \cup {Gone}]
  /\ F \in [TShape -> BOOLEAN]
  /\ K \in [TShape -> SUBSET Living(Y)]
  /\ H \subseteq Living(Y)
  /\ D \in [Name -> Living(Y) \cup {Null}]

LEMMA InitInv == Init => IInv
  <1> SUFFICES ASSUME Init PROVE IInv
    OBVIOUS
  <1>1. TypeOK
    BY GraphAssumption DEF Init, TypeOK, Alive
  <1>2. kids = [t \in TShape |-> {}]
    BY DEF Init
  <1>3. Acyclic
    BY <1>2 DEF Acyclic, AcyclicIn
  <1>4. ComponentsFrozen /\ HierarchyHolds
    BY <1>2 DEF ComponentsFrozen, FrozenIn, HierarchyHolds, FitIn
  <1> QED
    BY <1>1, <1>3, <1>4 DEF IInv, Shaped, Safe
-----------------------------------------------------------------------------
\* What is below roots: roots, and what their members contain, no more than
\* a closed set of living TShapes.
LEMMA BelowRoots ==
  ASSUME NEW R \in SUBSET TShape, NEW K \in [TShape -> SUBSET TShape]
  PROVE  /\ Below(R, K) \subseteq TShape
         /\ R \subseteq Below(R, K)
         /\ \A t \in Below(R, K) : K[t] \subseteq Below(R, K)
  <1>1. ASSUME NEW t \in Below(R, K), NEW u \in K[t] PROVE u \in Below(R, K)
    <2>1. u \in TShape /\ t \in TShape
      BY DEF Below
    <2>2. ASSUME NEW X \in SUBSET TShape, R \subseteq X, ClosedUnder(K, X) PROVE u \in X
      <3>1. t \in X
        BY <2>2 DEF Below
      <3> QED
        BY <2>2, <3>1, <1>1 DEF ClosedUnder
    <2> QED
      BY <2>1, <2>2 DEF Below
  <1> QED
    BY <1>1 DEF Below

LEMMA BelowLiving ==
  ASSUME NEW R \in SUBSET TShape, NEW K \in [TShape -> SUBSET TShape],
         NEW L \in SUBSET TShape, R \subseteq L, \A t \in L : K[t] \subseteq L
  PROVE  Below(R, K) \subseteq L
  BY DEF Below, ClosedUnder

\* Taking sub-shapes away keeps the graph acyclic.
LEMMA FewerKids ==
  ASSUME NEW K, NEW J, AcyclicIn(K), \A t \in TShape : J[t] \subseteq K[t]
  PROVE  AcyclicIn(J)
  <1> SUFFICES ASSUME NEW X \in SUBSET (TShape \ thawed), X # {}
               PROVE  \E x \in X : J[x] \cap X = {}
    BY DEF AcyclicIn
  <1>1. PICK x \in X : K[x] \cap X = {}
    BY DEF AcyclicIn
  <1> QED
    BY <1>1

(***************************************************************************)
(* The kids of one TShape change, which is thawed or nothing contains it:  *)
(* a cycle that runs through it runs through a thawed TShape.              *)
(***************************************************************************)
LEMMA TopChanges ==
  ASSUME NEW K \in [TShape -> SUBSET TShape], NEW s \in TShape, NEW C \in SUBSET TShape,
         AcyclicIn(K), s \notin thawed => s \notin C /\ \A t \in TShape : s \notin K[t]
  PROVE  AcyclicIn([K EXCEPT ![s] = C])
  <1> DEFINE J == [K EXCEPT ![s] = C]
  <1>1. J[s] = C /\ \A t \in TShape : t # s => J[t] = K[t]
    OBVIOUS
  <1> HIDE DEF J
  <1> SUFFICES ASSUME NEW X \in SUBSET (TShape \ thawed), X # {}
               PROVE  \E x \in X : J[x] \cap X = {}
    BY DEF AcyclicIn, J
  <1>2. CASE X = {s}
    BY <1>1, <1>2
  <1>3. CASE s \notin X
    <2>1. PICK x \in X : K[x] \cap X = {}
      BY DEF AcyclicIn
    <2> QED
      BY <1>1, <1>3, <2>1
  <1>4. CASE X # {s} /\ s \in X
    <2>1. X \ {s} # {} /\ X \ {s} \in SUBSET (TShape \ thawed)
      BY <1>4
    <2>2. PICK x \in X \ {s} : K[x] \cap (X \ {s}) = {}
      BY <2>1 DEF AcyclicIn
    <2>3. J[x] = K[x] /\ s \notin K[x]
      BY <1>1, <1>4, <2>2
    <2> QED
      BY <2>2, <2>3
  <1> QED
    BY <1>2, <1>3, <1>4

(***************************************************************************)
(* Destroying what nothing refers to keeps the graph as it is.             *)
(***************************************************************************)
LEMMA SettledSound ==
  ASSUME NEW D, NEW H, NEW K, NEW F, NEW Y,
         Typed(D, H, K, F, Y), FitIn(K, Y), Settled(D, H, K, F, Y)
  PROVE  Shaped' /\ (AcyclicIn(K) /\ FrozenIn(K, F) => Safe')
  <1> DEFINE R == Below(Rooted(D, H), K)
  <1>1. /\ dir' = D /\ held' = H
        /\ kids' = [t \in TShape |-> IF t \in R THEN K[t] ELSE {}]
        /\ free' = [t \in TShape |-> IF t \in R THEN F[t] ELSE TRUE]
        /\ type' = [t \in TShape |-> IF t \in R THEN Y[t] ELSE Gone]
        /\ thawed' = thawed \cap R
    BY DEF Settled
  <1>2. K \in [TShape -> SUBSET TShape] /\ Living(Y) \in SUBSET TShape
    BY DEF Typed, Living
  <1>3. Rooted(D, H) \subseteq Living(Y)
    BY GraphAssumption DEF Typed, Rooted, Living
  <1>4. R \subseteq Living(Y)
    <2>1. \A t \in Living(Y) : K[t] \subseteq Living(Y)
      BY <1>2 DEF Typed
    <2> QED
      BY <1>2, <1>3, <2>1, BelowLiving
  <1>5. Rooted(D, H) \subseteq R /\ \A t \in R : K[t] \subseteq R
    BY <1>2, <1>3, BelowRoots
  <1> HIDE DEF R
  <1>6. Alive' = R
    BY <1>1, <1>2, <1>4 DEF Alive, Living
  <1>7. TypeOK'
    <2>1. type' \in [TShape -> Type \cup {Gone}] /\ free' \in [TShape -> BOOLEAN]
      BY <1>1 DEF Typed
    <2>2. kids' \in [TShape -> SUBSET R]
      BY <1>1, <1>5
    <2>3. held' \subseteq R /\ dir' \in [Name -> R \cup {Null}]
      BY <1>1, <1>2, <1>5 DEF Typed, Rooted
    <2> QED
      BY <1>1, <1>6, <2>1, <2>2, <2>3 DEF TypeOK
  <1>8. AcyclicIn(K) => Acyclic'
    <2> SUFFICES ASSUME AcyclicIn(K), NEW X \in SUBSET (TShape \ thawed'), X # {}
                 PROVE  \E x \in X : kids'[x] \cap X = {}
      BY DEF Acyclic, AcyclicIn
    <2>1. CASE X \subseteq R
      <3>1. X \in SUBSET (TShape \ thawed)
        BY <1>1, <2>1
      <3>2. PICK x \in X : K[x] \cap X = {}
        BY <3>1 DEF AcyclicIn
      <3> QED
        BY <1>1, <2>1, <3>2
    <2>2. ASSUME NEW x \in X, x \notin R PROVE kids'[x] \cap X = {}
      BY <1>1, <2>2
    <2> QED
      BY <2>1, <2>2
  <1>9. ASSUME NEW t \in TShape, NEW c \in kids'[t]
        PROVE  t \in R /\ c \in R /\ c \in TShape /\ c \in K[t]
    BY <1>1, <1>2, <1>4, <1>5, <1>9
  <1>10. FrozenIn(K, F) => ComponentsFrozen'
    <2> SUFFICES ASSUME FrozenIn(K, F), NEW t \in TShape, NEW c \in kids'[t] \ thawed'
                 PROVE  ~free'[c]
      BY DEF ComponentsFrozen, FrozenIn
    <2> QED
      BY <1>1, <1>9 DEF FrozenIn
  <1>11. HierarchyHolds'
    <2> SUFFICES ASSUME NEW t \in TShape, NEW c \in kids'[t]
                 PROVE  type'[t] \in Containers[type'[c]]
      BY DEF HierarchyHolds, FitIn
    <2> QED
      BY <1>1, <1>9 DEF FitIn
  <1> QED
    BY <1>7, <1>8, <1>10, <1>11 DEF Shaped, Safe
-----------------------------------------------------------------------------
LEMMA AliveFacts ==
  ASSUME Shaped
  PROVE  /\ Alive \subseteq TShape /\ kids \in [TShape -> SUBSET TShape]
         /\ \A n \in Name : dir[n] # Null => dir[n] \in Alive
         /\ \A t \in Alive : type[t] \in Type
  BY DEF Shaped, TypeOK, Alive

\* What is below living TShapes lives.
LEMMA BelowAlive ==
  ASSUME Shaped, NEW t \in Alive
  PROVE  Below({t}, kids) \subseteq Alive
  <1>1. kids \in [TShape -> SUBSET TShape] /\ Alive \in SUBSET TShape
    BY AliveFacts
  <1>2. \A u \in Alive : kids[u] \subseteq Alive
    BY <1>1 DEF Shaped, TypeOK
  <1> QED
    BY <1>1, <1>2, BelowLiving

(***************************************************************************)
(* A new TShape over living components.                                    *)
(***************************************************************************)
LEMMA BuildStep ==
  ASSUME Shaped, NEW n \in Name, NEW t \in Unused, NEW y \in Type, NEW C \in SUBSET Alive,
         \A c \in C : y \in Containers[type[c]], Build(n, t, y, C)
  PROVE  Kept
  <1> DEFINE K == [kids EXCEPT ![t] = C]
             F == Freeze([free EXCEPT ![t] = TRUE], C)
             Y == [type EXCEPT ![t] = y]
  <1>1. t \in TShape /\ t \notin Alive /\ C \subseteq TShape /\ t \notin C
    BY DEF Unused, Alive
  <1>2. Living(Y) = Alive \cup {t}
    BY <1>1, GraphAssumption DEF Living, Alive, Shaped, TypeOK
  <1>3. kids \in [TShape -> SUBSET Alive] /\ \A u \in TShape : t \notin kids[u]
    BY <1>1 DEF Shaped, TypeOK
  <1>4. Typed(Named(n, t), held, K, F, Y)
    <2>1. Y \in [TShape -> Type \cup {Gone}] /\ F \in [TShape -> BOOLEAN]
      BY <1>1 DEF Shaped, TypeOK, Freeze
    <2>2. K \in [TShape -> SUBSET (Alive \cup {t})]
      BY <1>1, <1>3
    <2>3. held \subseteq Alive \cup {t} /\ Named(n, t) \in [Name -> Alive \cup {t} \cup {Null}]
      BY DEF Shaped, TypeOK, Named
    <2> QED
      BY <1>2, <2>1, <2>2, <2>3 DEF Typed
  <1>5. Acyclic => AcyclicIn(K)
    <2>1. kids \in [TShape -> SUBSET TShape]
      BY AliveFacts
    <2> QED
      BY <1>1, <1>3, <2>1, TopChanges DEF Acyclic
  <1>6. ComponentsFrozen => FrozenIn(K, F)
    <2> SUFFICES ASSUME ComponentsFrozen, NEW u \in TShape, NEW c \in K[u] \ thawed
                 PROVE  ~F[c]
      BY DEF FrozenIn
    <2>1. c \in TShape /\ (c \in C \/ (c \in kids[u] /\ c # t))
      BY <1>1, <1>3, AliveFacts
    <2>2. F[c] = IF c \in C THEN FALSE ELSE [free EXCEPT ![t] = TRUE][c]
      BY <2>1 DEF Freeze
    <2>3. c \in kids[u] => ~free[c]
      BY DEF ComponentsFrozen, FrozenIn
    <2>4. c # t => [free EXCEPT ![t] = TRUE][c] = free[c]
      BY <2>1 DEF Shaped, TypeOK
    <2> QED
      BY <2>1, <2>2, <2>3, <2>4
  <1>7. FitIn(K, Y)
    BY <1>1, <1>3 DEF FitIn, Shaped, HierarchyHolds, TypeOK
  <1>8. Settled(Named(n, t), held, K, F, Y)
    BY DEF Build
  <1> HIDE DEF K, F, Y
  <1> QED
    BY <1>4, <1>5, <1>6, <1>7, <1>8, SettledSound DEF Kept, Safe

\* A directory that names other living TShapes.
LEMMA RenameStep ==
  ASSUME Shaped, NEW D \in [Name -> Alive \cup {Null}], Settled(D, held, kids, free, type)
  PROVE  Kept
  <1>1. Typed(D, held, kids, free, type)
    BY DEF Shaped, TypeOK, Typed, Alive, Living
  <1>2. FitIn(kids, type)
    BY DEF Shaped, HierarchyHolds
  <1> QED
    BY <1>1, <1>2, SettledSound DEF Kept, Safe, Acyclic, ComponentsFrozen

LEMMA MakeStep ==
  ASSUME Shaped, NEW n \in Name, NEW y \in Kind, Make(n, y) PROVE Kept
  <1>1. PICK t \in Unused, C \in SUBSET Alive :
          (\A c \in C : Fits(type[c], y)) /\ Build(n, t, y, C)
    BY DEF Make
  <1>2. y \in Type
    BY GraphAssumption
  <1> QED
    BY <1>1, <1>2, BuildStep DEF Fits

\* Everything goes into a compound.
LEMMA CompoundStep ==
  ASSUME Shaped, NEW n \in Name, NEW M \in SUBSET Name, Compound(n, M) PROVE Kept
  <1> DEFINE C == {dir[m] : m \in M} \ {Null}
  <1>1. PICK t \in Unused : Build(n, t, "compound", C)
    BY DEF Compound
  <1>2. C \in SUBSET Alive
    BY AliveFacts
  <1>3. \A c \in Type : "compound" \in Containers[c]
    BY DEF Type, Containers
  <1>4. \A c \in C : "compound" \in Containers[type[c]]
    BY <1>2, <1>3, AliveFacts
  <1>5. "compound" \in Type
    BY DEF Type
  <1> HIDE DEF C
  <1> QED
    BY <1>1, <1>2, <1>4, <1>5, BuildStep

LEMMA EmptyCopyStep ==
  ASSUME Shaped, NEW n \in Name, NEW m \in Name, EmptyCopy(n, m) PROVE Kept
  <1>1. PICK t \in Unused : Build(n, t, type[dir[m]], {})
    BY DEF EmptyCopy
  <1>2. type[dir[m]] \in Type
    BY AliveFacts DEF EmptyCopy
  <1> QED
    BY <1>1, <1>2, BuildStep

LEMMA InvertStep ==
  ASSUME Shaped, NEW n \in Name, Invert(n) PROVE Kept
  <1>1. PICK t \in Unused : Build(n, t, type[dir[n]], kids[dir[n]])
    BY DEF Invert
  <1>2. dir[n] \in TShape /\ type[dir[n]] \in Type
    BY AliveFacts DEF Invert
  <1>3. kids[dir[n]] \in SUBSET Alive
    BY <1>2 DEF Shaped, TypeOK
  <1>4. \A c \in kids[dir[n]] : type[dir[n]] \in Containers[type[c]]
    BY <1>2 DEF Shaped, HierarchyHolds, FitIn
  <1> QED
    BY <1>1, <1>2, <1>3, <1>4, BuildStep

(***************************************************************************)
(* add: the container it edits is free with its component frozen, hence    *)
(* thawed, or no component itself, of another shape or of the new one.     *)
(***************************************************************************)
LEMMA AddStep ==
  ASSUME Shaped, NEW a \in Name, NEW b \in Name, Add(a, b) PROVE Kept
  <1> DEFINE c == dir[a]
             s == dir[b]
             K == IF Inserts(c, s) THEN [kids EXCEPT ![s] = @ \cup {c}] ELSE kids
             F == Freeze(free, {c})
  <1>1. c \in Alive /\ s \in Alive /\ c \in TShape /\ s \in TShape
    BY AliveFacts DEF Add
  <1>2. Settled(dir, held, K, F, type)
    BY DEF Add
  <1>3. \A u \in TShape : F[u] = (IF u = c THEN FALSE ELSE free[u])
    BY DEF Freeze
  <1>4. ComponentsFrozen => FrozenIn(kids, F)
    BY <1>3 DEF Shaped, ComponentsFrozen, FrozenIn, TypeOK, Alive
  <1>5. kids \in [TShape -> SUBSET Alive] /\ kids \in [TShape -> SUBSET TShape]
    BY AliveFacts DEF Shaped, TypeOK
  <1>6. CASE Inserts(c, s)
    <2>1. F[s] /\ type[s] \in Containers[type[c]]
      BY <1>6 DEF Inserts, Editable, Fits
    <2>2. /\ s # c
          /\ ComponentsFrozen /\ s \notin thawed => \A u \in TShape : s \notin kids[u]
      BY <1>1, <1>3, <1>4, <2>1 DEF FrozenIn
    <2>3. K = [kids EXCEPT ![s] = kids[s] \cup {c}]
      BY <1>6
    <2>4. K[s] = kids[s] \cup {c} /\ \A u \in TShape : u # s => K[u] = kids[u]
      BY <1>1, <1>5, <2>3
    <2>5. K \in [TShape -> SUBSET Alive]
      BY <1>1, <1>5, <2>3
    <2> HIDE DEF K, F
    <2>6. Safe => AcyclicIn(K)
      <3>1. /\ kids[s] \cup {c} \in SUBSET TShape
            /\ ComponentsFrozen /\ s \notin thawed => s \notin kids[s] \cup {c}
        BY <1>1, <1>5, <2>2
      <3> QED
        BY <1>1, <1>5, <2>2, <2>3, <3>1, TopChanges DEF Safe, Acyclic
    <2>7. Safe => FrozenIn(K, F)
      BY <1>1, <1>3, <1>4, <2>4 DEF FrozenIn, Safe
    <2>8. FitIn(K, type)
      BY <1>1, <2>1, <2>4 DEF FitIn, Shaped, HierarchyHolds
    <2>9. F \in [TShape -> BOOLEAN]
      BY DEF Shaped, TypeOK, Freeze, F
    <2>10. Typed(dir, held, K, F, type)
      BY <2>5, <2>9 DEF Shaped, TypeOK, Typed, Alive, Living
    <2> QED
      BY <1>2, <2>6, <2>7, <2>8, <2>10, SettledSound DEF Kept
  <1>7. CASE ~Inserts(c, s)
    <2>1. K = kids
      BY <1>7
    <2>2. F \in [TShape -> BOOLEAN]
      BY DEF Shaped, TypeOK, Freeze
    <2> HIDE DEF K, F
    <2>3. Typed(dir, held, K, F, type)
      BY <2>1, <2>2 DEF Shaped, TypeOK, Typed, Alive, Living
    <2>4. FitIn(K, type)
      BY <2>1 DEF Shaped, HierarchyHolds
    <2>5. Safe => AcyclicIn(K) /\ FrozenIn(K, F)
      BY <1>4, <2>1 DEF Safe, Acyclic, F
    <2> QED
      BY <1>2, <2>3, <2>4, <2>5, SettledSound DEF Kept
  <1> QED
    BY <1>6, <1>7

LEMMA RenamingsStep ==
  ASSUME Shaped, NEW n \in Name, NEW m \in Name, Explode(m) \/ Copy(n, m) \/ PushModel(n)
  PROVE  Kept
  <1>1. CASE Explode(m)
    <2>1. PICK part \in [Name \ {m} -> (Below({dir[m]}, kids) \cup {Null}) \ {dir[m]}] :
            Settled([l \in Name |-> IF l = m \/ part[l] = Null THEN dir[l] ELSE part[l]],
                    held, kids, free, type)
      BY <1>1 DEF Explode
    <2>2. Below({dir[m]}, kids) \subseteq Alive
      BY <1>1, AliveFacts, BelowAlive DEF Explode
    <2>3. [l \in Name |-> IF l = m \/ part[l] = Null THEN dir[l] ELSE part[l]]
            \in [Name -> Alive \cup {Null}]
      BY <2>2 DEF Shaped, TypeOK
    <2> QED
      BY <2>1, <2>3, RenameStep
  <1>2. ASSUME NEW t \in Alive PROVE Named(n, t) \in [Name -> Alive \cup {Null}]
    BY DEF Shaped, TypeOK, Named
  <1>3. CASE Copy(n, m)
    <2>1. dir[m] \in Alive
      BY <1>3, AliveFacts DEF Copy
    <2> QED
      BY <1>2, <1>3, <2>1, RenameStep DEF Copy
  <1>4. CASE PushModel(n)
    <2>1. PICK t \in held : Settled(Named(n, t), held, kids, free, type)
      BY <1>4 DEF PushModel
    <2>2. t \in Alive
      BY <2>1 DEF Shaped, TypeOK
    <2> QED
      BY <1>2, <2>1, <2>2, RenameStep
  <1> QED
    BY <1>1, <1>3, <1>4

LEMMA RemoveInternalsStep ==
  ASSUME Shaped, NEW n \in Name, RemoveInternals(n) PROVE Kept
  <1>1. PICK J \in [Below({dir[n]}, kids) -> SUBSET Alive] :
          /\ \A t \in DOMAIN J : J[t] \subseteq kids[t]
          /\ Settled(dir, held, [t \in TShape |-> IF t \in DOMAIN J THEN J[t] ELSE kids[t]],
                     free, type)
    BY DEF RemoveInternals
  <1> DEFINE K == [t \in TShape |-> IF t \in DOMAIN J THEN J[t] ELSE kids[t]]
  <1>2. \A t \in TShape : K[t] \subseteq kids[t]
    BY <1>1
  <1>3. K \in [TShape -> SUBSET Alive]
    BY <1>2 DEF Shaped, TypeOK
  <1>4. Settled(dir, held, K, free, type)
    BY <1>1
  <1> HIDE DEF K
  <1>5. Acyclic => AcyclicIn(K)
    BY <1>2, FewerKids DEF Acyclic
  <1>6. (ComponentsFrozen => FrozenIn(K, free)) /\ FitIn(K, type)
    BY <1>2 DEF Shaped, ComponentsFrozen, HierarchyHolds, FrozenIn, FitIn
  <1>7. Typed(dir, held, K, free, type)
    BY <1>3 DEF Shaped, TypeOK, Typed, Alive, Living
  <1> QED
    BY <1>4, <1>5, <1>6, <1>7, SettledSound DEF Kept, Safe

\* setflags frees no component that it does not add to what is thawed.
LEMMA SetFreeStep ==
  ASSUME Shaped, NEW n \in Name, NEW f \in BOOLEAN, SetFree(n, f) PROVE Kept
  <1>1. /\ UNCHANGED <<dir, held, kids, type>>
        /\ free' = [t \in TShape |-> IF t \in Flagged(n) THEN f ELSE free[t]]
        /\ thawed' = thawed \cup {t \in Flagged(n) : f /\ ~free[t]}
    BY DEF SetFree
  <1>2. Flagged(n) \subseteq Alive
    BY AliveFacts, BelowAlive DEF SetFree, Flagged, WithSubShapes
  <1>3. free' \in [TShape -> BOOLEAN] /\ thawed' \subseteq Alive /\ thawed \subseteq thawed'
    BY <1>1, <1>2 DEF Shaped, TypeOK
  <1>4. TypeOK'
    BY <1>1, <1>3 DEF Shaped, TypeOK, Alive
  <1>5. ComponentsFrozen => ComponentsFrozen'
    <2> SUFFICES ASSUME ComponentsFrozen, NEW t \in TShape, NEW c \in kids'[t] \ thawed'
                 PROVE  ~free'[c]
      BY DEF ComponentsFrozen, FrozenIn
    <2>1. c \in kids[t] \ thawed /\ c \in TShape
      BY <1>1, <1>3, AliveFacts
    <2>2. ~free[c]
      BY <2>1 DEF ComponentsFrozen, FrozenIn
    <2>3. c \in Flagged(n) => ~f
      BY <1>1, <2>2
    <2> QED
      BY <1>1, <2>1, <2>2, <2>3
  <1>6. (Acyclic => Acyclic') /\ HierarchyHolds'
    BY <1>1, <1>3 DEF Shaped, Acyclic, AcyclicIn, HierarchyHolds, FitIn
  <1> QED
    BY <1>4, <1>5, <1>6 DEF Kept, Shaped, Safe

LEMMA InterogateStep ==
  ASSUME Shaped, NEW n \in Name, Interogate(n) PROVE Kept
  <1>1. dir[n] \in Alive
    BY AliveFacts DEF Interogate
  <1>2. WithSubShapes(n, {"face", "edge"}) \subseteq Alive
    BY <1>1, BelowAlive DEF WithSubShapes
  <1>3. held' \subseteq Alive /\ UNCHANGED <<dir, kids, free, type, thawed>>
    BY <1>2 DEF Interogate, Shaped, TypeOK
  <1> QED
    BY <1>3 DEF Kept, Shaped, Safe, TypeOK, Alive, Acyclic, AcyclicIn, ComponentsFrozen,
                FrozenIn, HierarchyHolds, FitIn
-----------------------------------------------------------------------------
LEMMA NextKept == ASSUME Shaped, [Next]_vars PROVE Kept
  <1>1. CASE Next
    BY <1>1, MakeStep, CompoundStep, EmptyCopyStep, AddStep, RenamingsStep, InvertStep,
       RemoveInternalsStep, InterogateStep, SetFreeStep DEF Next
  <1>2. CASE UNCHANGED vars
    BY <1>2 DEF vars, Kept, Shaped, Safe, TypeOK, Alive, Acyclic, AcyclicIn,
                ComponentsFrozen, FrozenIn, HierarchyHolds, FitIn
  <1> QED
    BY <1>1, <1>2

LEMMA ShapedAlways == Spec => []Shaped
  <1>1. Init => Shaped
    BY InitInv DEF IInv
  <1>2. Shaped /\ [Next]_vars => Shaped'
    BY NextKept DEF Kept
  <1> QED
    BY <1>1, <1>2, PTL DEF Spec

LEMMA Invariance == Spec => []IInv
  <1>1. IInv /\ [Next]_vars => IInv'
    BY NextKept DEF IInv, Kept
  <1> QED
    BY <1>1, InitInv, PTL DEF Spec

(***************************************************************************)
(* TypeOK: no name, pointer or sub-shape list refers to a destroyed TShape,*)
(* whatever setflags did.                                                  *)
(***************************************************************************)
THEOREM NothingDangles == Spec => []TypeOK
  <1>1. Shaped => TypeOK
    BY DEF Shaped
  <1> QED
    BY <1>1, ShapedAlways, PTL

(***************************************************************************)
(* Acyclic: whatever compounds, additions, inversions and copies are made, *)
(* a shape gets below itself only through one that setflags made free.     *)
(***************************************************************************)
THEOREM GraphStaysAcyclic == Spec => []Acyclic
  <1>1. IInv => Acyclic
    BY DEF IInv, Safe
  <1> QED
    BY <1>1, Invariance, PTL

(***************************************************************************)
(* ComponentsFrozen: no command but setflags leaves a component editable.  *)
(***************************************************************************)
THEOREM ComponentsStayFrozen == Spec => []ComponentsFrozen
  <1>1. IInv => ComponentsFrozen
    BY DEF IInv, Safe
  <1> QED
    BY <1>1, Invariance, PTL

(***************************************************************************)
(* HierarchyHolds: the table of TopoDS_Builder::Add holds of all shapes,   *)
(* of those that setflags made free again as well.                         *)
(***************************************************************************)
THEOREM HierarchyIsKept == Spec => []HierarchyHolds
  <1>1. Shaped => HierarchyHolds
    BY DEF Shaped
  <1> QED
    BY <1>1, ShapedAlways, PTL
-----------------------------------------------------------------------------
\* The sub-shapes of components never grow.
Shrinks(K) == \A t \in Alive : \A c \in kids[t] \ thawed : K[c] \subseteq kids[c]

LEMMA SettledShrinks ==
  ASSUME IInv, NEW D, NEW H, NEW K, NEW F, NEW Y, Settled(D, H, K, F, Y), Shrinks(K)
  PROVE  Shrinks(kids')
  <1> SUFFICES ASSUME NEW t \in Alive, NEW c \in kids[t] \ thawed
               PROVE  kids'[c] \subseteq kids[c]
    BY DEF Shrinks
  <1>1. c \in TShape
    BY AliveFacts DEF IInv
  <1>2. kids'[c] \subseteq K[c]
    BY <1>1 DEF Settled
  <1> QED
    BY <1>2 DEF Shrinks

LEMMA BuildShrinks ==
  ASSUME IInv, NEW n, NEW t \in Unused, NEW y, NEW C, Build(n, t, y, C)
  PROVE  Shrinks(kids')
  <1>1. Settled(Named(n, t), held, [kids EXCEPT ![t] = C],
                Freeze([free EXCEPT ![t] = TRUE], C), [type EXCEPT ![t] = y])
    BY DEF Build
  <1>2. \A u \in Alive : \A c \in kids[u] : c \in TShape /\ c # t
    BY DEF IInv, Shaped, TypeOK, Alive, Unused
  <1>3. Shrinks([kids EXCEPT ![t] = C])
    BY <1>2, AliveFacts DEF Shrinks, IInv
  <1> QED
    BY <1>1, <1>3, SettledShrinks

\* A component is frozen, so add leaves its sub-shapes alone.
LEMMA AddShrinks ==
  ASSUME IInv, NEW a \in Name, NEW b \in Name, Add(a, b)
  PROVE  Shrinks(kids')
  <1> DEFINE c == dir[a]
             s == dir[b]
             K == IF Inserts(c, s) THEN [kids EXCEPT ![s] = @ \cup {c}] ELSE kids
  <1>1. Settled(dir, held, K, Freeze(free, {c}), type)
    BY DEF Add
  <1>2. s \in TShape
    BY AliveFacts DEF Add, IInv
  <1>3. ASSUME NEW t \in Alive, NEW d \in kids[t] \ thawed PROVE K[d] \subseteq kids[d]
    <2>1. d \in TShape /\ ~free[d]
      BY AliveFacts DEF IInv, Safe, ComponentsFrozen, FrozenIn
    <2>2. Freeze(free, {c})[d] = FALSE
      BY <2>1 DEF Freeze, IInv, Shaped, TypeOK
    <2>3. CASE Inserts(c, s)
      <3>1. d # s
        BY <2>2, <2>3 DEF Inserts, Editable
      <3> QED
        BY <1>2, <2>1, <2>3, <3>1, AliveFacts DEF IInv
    <2>4. CASE ~Inserts(c, s)
      BY <2>4
    <2> QED
      BY <2>3, <2>4
  <1> HIDE DEF K
  <1>4. Shrinks(K)
    BY <1>3 DEF Shrinks
  <1> QED
    BY <1>1, <1>4, SettledShrinks

LEMMA NextShrinks == ASSUME IInv, [Next]_vars PROVE Shrinks(kids')
  <1>1. ASSUME UNCHANGED kids PROVE Shrinks(kids')
    BY <1>1 DEF Shrinks
  <1>2. ASSUME NEW D, NEW H, NEW F, NEW Y, Settled(D, H, kids, F, Y) PROVE Shrinks(kids')
    <2>1. Shrinks(kids)
      BY DEF Shrinks
    <2> QED
      BY <1>2, <2>1, SettledShrinks
  <1>3. ASSUME NEW n \in Name, NEW y \in Kind, Make(n, y) PROVE Shrinks(kids')
    BY <1>3, BuildShrinks DEF Make
  <1>4. ASSUME NEW n \in Name, NEW M \in SUBSET Name, Compound(n, M) PROVE Shrinks(kids')
    BY <1>4, BuildShrinks DEF Compound
  <1>5. ASSUME NEW n \in Name, NEW m \in Name, EmptyCopy(n, m) PROVE Shrinks(kids')
    BY <1>5, BuildShrinks DEF EmptyCopy
  <1>6. ASSUME NEW n \in Name, Invert(n) PROVE Shrinks(kids')
    BY <1>6, BuildShrinks DEF Invert
  <1>7. ASSUME NEW n \in Name, NEW m \in Name, Explode(m) \/ Copy(n, m) \/ PushModel(n)
        PROVE  Shrinks(kids')
    BY <1>2, <1>7 DEF Explode, Copy, PushModel
  <1>8. ASSUME NEW n \in Name, RemoveInternals(n) PROVE Shrinks(kids')
    <2>1. PICK J \in [Below({dir[n]}, kids) -> SUBSET Alive] :
            /\ \A t \in DOMAIN J : J[t] \subseteq kids[t]
            /\ Settled(dir, held, [t \in TShape |-> IF t \in DOMAIN J THEN J[t] ELSE kids[t]],
                       free, type)
      BY <1>8 DEF RemoveInternals
    <2>2. Shrinks([t \in TShape |-> IF t \in DOMAIN J THEN J[t] ELSE kids[t]])
      BY <2>1, AliveFacts DEF Shrinks, IInv
    <2> QED
      BY <2>1, <2>2, SettledShrinks
  <1>9. ASSUME NEW n \in Name, NEW f \in BOOLEAN, SetFree(n, f) \/ Interogate(n)
        PROVE  Shrinks(kids')
    BY <1>1, <1>9 DEF SetFree, Interogate
  <1> QED
    BY <1>1, <1>3, <1>4, <1>5, <1>6, <1>7, <1>8, <1>9, AddShrinks DEF Next, vars

(***************************************************************************)
(* ComponentsOnlyShrink: what a shape was built of is only ever changed,   *)
(* behind its back, by removeinternals taking sub-shapes away, until       *)
(* setflags makes it free.                                                 *)
(***************************************************************************)
THEOREM ComponentsNeverGrow == Spec => ComponentsOnlyShrink
  <1>1. IInv /\ [Next]_vars
          => [\A t \in Alive : \A c \in kids[t] \ thawed : kids'[c] \subseteq kids[c]]_vars
    BY NextShrinks DEF Shrinks
  <1> QED
    BY <1>1, Invariance, PTL DEF Spec, ComponentsOnlyShrink
=============================================================================
