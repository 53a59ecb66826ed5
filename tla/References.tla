----------------------------- MODULE References -----------------------------
(***************************************************************************)
(* JavaScript recognises a face or an edge by its "stable reference", the  *)
(* address of its TShape.  It gets references from Interogate, from the    *)
(* production history ("this face became those") and from GetRef, and      *)
(* compares them with one another.  An address says something only while   *)
(* its TShape lives: afterwards a new TShape may be allocated there.       *)
(* Nothing counts the references JavaScript has; what keeps TShapes alive  *)
(* are the names, the session's history, a saved one, and the shapes that  *)
(* Interogate leaks.                                                       *)
(***************************************************************************)
EXTENDS FiniteSets, Naturals

CONSTANTS Name,       \* names of the directory
          Address,    \* where TShapes are allocated
          Shape,      \* identities: no two TShapes, ever, have the same
          Gone,       \* no TShape
          NoHistory,  \* a null Handle(BRepTools_History)
          MaxNew      \* an operation makes at most so many TShapes

ASSUME ReferencesAssumption == Gone \notin Shape

VARIABLES at,       \* at[a]: the TShape at the address a, or Gone
          dir,      \* dir[n]: the TShapes of the shape named n and of its sub-shapes
          history,  \* BRepTest_Session::myHistory: pairs of a source and a target
          saved,    \* Draw::History, under one name
          pinned,   \* the TShapes of the shapes leaked by Interogate
          answered, \* references got from Interogate
          told,     \* those of the production history, until it is replaced
          given     \* those got from GetRef, until the name is set again

vars == <<at, dir, history, saved, pinned, answered, told, given>>
known == <<answered, told, given>>

Reference == [ref : Address, shape : Shape]

Alive == {a \in Address : at[a] # Gone}

\* Is h a history of TShapes in A?
HistoryOf(h, A) == h = NoHistory \/ h \subseteq A \X A

\* Nothing the program reads refers to a TShape that has been destroyed.
TypeOK ==
  /\ at \in [Address -> Shape \cup {Gone}]
  /\ dir \in [Name -> SUBSET Alive]
  /\ HistoryOf(history, Alive) /\ HistoryOf(saved, Alive)
  /\ pinned \subseteq Alive
  /\ answered \subseteq Reference /\ told \subseteq Reference
  /\ given \subseteq [name : Name, ref : Address, shape : Shape]

Init ==
  /\ at = [a \in Address |-> Gone]
  /\ dir = [n \in Name |-> {}]
  /\ history = NoHistory /\ saved = NoHistory
  /\ pinned = {}
  /\ answered = {} /\ told = {} /\ given = {}
-----------------------------------------------------------------------------
\* The TShapes in the keys and lists of a history.
Ends(h) ==
  IF h = NoHistory THEN {}
  ELSE {a \in Address : \E b \in Address : <<a, b>> \in h \/ <<b, a>> \in h}

InUse(D) == UNION {D[n] : n \in Name}

\* A saved history that does not hold on to its shapes.
KeptUnsaved(D, h, s, P) == InUse(D) \cup Ends(h) \cup P

\* A session's history that does not.
KeptByNames(D, h, s, P) == InUse(D) \cup Ends(s) \cup P

\* What handles refer to.
Kept(D, h, s, P) == InUse(D) \cup Ends(h) \cup Ends(s) \cup P

\* The state after a call, B being the TShapes alive before handles are
\* released: a TShape no handle refers to is destroyed.
Settled(B, D, h, s, P) ==
  /\ dir' = D /\ history' = h /\ saved' = s /\ pinned' = P
  /\ at' = [a \in Address |-> IF a \in Kept(D, h, s, P) THEN B[a] ELSE Gone]

\* DBRep::Set under n: what GetRef said of n is no longer claimed.
Renamed(n) == given' = {g \in given : g.name # n}

Seen == {at[a] : a \in Address} \cup {k.shape : k \in answered \cup told \cup given}

\* at, with new TShapes at the addresses F.
Births(F) ==
  {[a \in Address |-> IF a \in F THEN b[a] ELSE at[a]] :
     b \in {c \in [F -> Shape \ Seen] : \A x, y \in F : c[x] = c[y] => x = y}}

Refs(A) == {[ref |-> a, shape |-> at[a]] : a \in A}
-----------------------------------------------------------------------------
(***************************************************************************)
(* Any command that computes a shape: it makes TShapes F, keeps some that  *)
(* are in use, and, when history is filled (fills), sets the session's     *)
(* history to relations between what was in use and what it made.  (A kept *)
(* TShape may be a target as well; as a source it is held all the same.)   *)
(***************************************************************************)
Operate(n, fills) ==
  \E F \in SUBSET (Address \ Alive), K \in SUBSET InUse(dir) :
    /\ Cardinality(F) <= MaxNew
    /\ \E R \in SUBSET (IF fills THEN InUse(dir) \X F ELSE {}), B \in Births(F) :
         Settled(B, [dir EXCEPT ![n] = K \cup F],
                 IF fills THEN R ELSE history, saved, pinned)
    /\ told' = IF fills THEN {} ELSE told
    /\ Renamed(n)
    /\ UNCHANGED answered

\* An operation that fails names nothing; its history is null when it is one
\* of the API and empty when it is not.
OperateFails ==
  /\ \E h \in {NoHistory, {}} : Settled(at, dir, h, saved, pinned)
  /\ told' = {}
  /\ UNCHANGED <<answered, given>>

\* copy.
Copy(n, m) ==
  /\ dir[m] # {}
  /\ Settled(at, [dir EXCEPT ![n] = dir[m]], history, saved, pinned)
  /\ Renamed(n)
  /\ UNCHANGED <<answered, told>>

\* savehistory.
SaveHistory ==
  /\ history # NoHistory
  /\ Settled(at, dir, history, history, pinned)
  /\ UNCHANGED known

Targets(h, s) == {a \in Address : <<s, a>> \in h}

\* modified and generated name the targets of a named source s: the only one
\* itself, several in a new compound.
ReadHistory(n, s) ==
  /\ saved # NoHistory /\ s \in InUse(dir) /\ Targets(saved, s) # {}
  /\ \E F \in SUBSET (Address \ Alive) : \E B \in Births(F) :
       /\ Cardinality(F) = IF Cardinality(Targets(saved, s)) = 1 THEN 0 ELSE 1
       /\ Settled(B, [dir EXCEPT ![n] = Targets(saved, s) \cup F], history, saved, pinned)
  /\ Renamed(n)
  /\ UNCHANGED <<answered, told>>

\* pushModel names a shape at a pointer Interogate published.
PushModel(n) ==
  \E A \in (SUBSET pinned) \ {{}} :
    /\ Settled(at, [dir EXCEPT ![n] = A], history, saved, pinned)
    /\ Renamed(n)
    /\ UNCHANGED <<answered, told>>
-----------------------------------------------------------------------------
\* An Interogate that deletes its copies before it returns.
LeakedNone(A) == pinned

\* A copy of the shape of every face and edge that is written is leaked.
Leaked(A) == pinned \cup A

(***************************************************************************)
(* Interogate writes the references of some TShapes A of n: faces without  *)
(* a triangulation are skipped, and an exception may end it on the way     *)
(* (what JavaScript then misses is counted as answered all the same).      *)
(***************************************************************************)
Interogate(n) ==
  /\ dir[n] # {}
  /\ \E A \in SUBSET dir[n] :
       /\ Settled(at, dir, history, saved, Leaked(A))
       /\ answered' = answered \cup Refs(A)
  /\ UNCHANGED <<told, given>>

\* productionHistoryWrite dereferences the session's history: it is asked only
\* when there is one.
GetProductionHistory ==
  /\ history # NoHistory
  /\ told' = told \cup Refs(Ends(history))
  /\ UNCHANGED <<at, dir, history, saved, pinned, answered, given>>

\* The reference of the shape n itself: one of its TShapes.
GetRef(n) ==
  /\ \A g \in given : g.name # n
  /\ \E a \in dir[n] : given' = given \cup {[name |-> n, ref |-> a, shape |-> at[a]]}
  /\ UNCHANGED <<at, dir, history, saved, pinned, answered, told>>

Next ==
  \/ \E n \in Name, fills \in BOOLEAN : Operate(n, fills)
  \/ OperateFails \/ SaveHistory \/ GetProductionHistory
  \/ \E n, m \in Name : Copy(n, m)
  \/ \E n \in Name, s \in Address : ReadHistory(n, s)
  \/ \E n \in Name : PushModel(n) \/ Interogate(n) \/ GetRef(n)

Spec == Init /\ [][Next]_vars
-----------------------------------------------------------------------------
(***************************************************************************)
(* A reference JavaScript may use is the address of the very TShape it was *)
(* given for: for ever after Interogate, until the history is replaced     *)
(* after GetProductionHistory, until the name is set after GetRef.         *)
(***************************************************************************)
TrueOf(K) == \A k \in K : at[k.ref] = k.shape

RefsTrue == TrueOf(answered) /\ TrueOf(told) /\ TrueOf(given)

(***************************************************************************)
(* What JavaScript concludes when it looks the ends of the production      *)
(* history up among the faces and edges it has interrogated: references    *)
(* are equal exactly when they are of one and the same shape.              *)
(***************************************************************************)
MatchesMeanSameShape ==
  \A j \in answered, k \in answered \cup told :
    j.ref = k.ref <=> j.shape = k.shape
=============================================================================
