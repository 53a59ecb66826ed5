-------------------------- MODULE ReferencesProofs --------------------------
(***************************************************************************)
(* References stay true, for any sets of addresses, shapes and names.  An  *)
(* address is not reused while something is kept there, so the invariant   *)
(* says, for each kind of reference, what keeps it: a leaked shape, the    *)
(* history it was read from, the name it was asked of.                     *)
(***************************************************************************)
EXTENDS References, TLAPS

Living(B) == {a \in Address : B[a] # Gone}

\* No TShape is at two addresses.
OnePlace(B) == \A a, b \in Living(B) : B[a] = B[b] => a = b

\* What the references JavaScript has are kept by.
Anchored ==
  /\ \A k \in answered : k.ref \in pinned
  /\ \A k \in told : k.ref \in Ends(history)
  /\ \A g \in given : g.ref \in dir[g.name]

IInv == TypeOK /\ OnePlace(at) /\ RefsTrue /\ Anchored

\* A memory in which the handles D, h, s, P refer to TShapes that live.
Sound(B, D, h, s, P) ==
  /\ B \in [Address -> Shape \cup {Gone}]
  /\ OnePlace(B)
  /\ D \in [Name -> SUBSET Living(B)]
  /\ HistoryOf(h, Living(B)) /\ HistoryOf(s, Living(B))
  /\ P \subseteq Living(B)

\* The part of TypeOK about the program's own state.
Whole == Sound(at, dir, history, saved, pinned)

LEMMA EndsKept ==
  ASSUME NEW A \in SUBSET Address, NEW h, HistoryOf(h, A), NEW K, Ends(h) \subseteq K
  PROVE  Ends(h) \subseteq A /\ HistoryOf(h, A \cap K)
<1>1. CASE h = NoHistory
  BY <1>1 DEF Ends, HistoryOf
<1>2. CASE h # NoHistory
  <2>1. h \subseteq A \X A
    BY <1>2 DEF HistoryOf
  <2>2. ASSUME NEW a \in Address, NEW b \in Address, <<a, b>> \in h
        PROVE  a \in A /\ b \in A /\ a \in K /\ b \in K
    BY <1>2, <2>1, <2>2 DEF Ends
  <2>3. h \subseteq (A \cap K) \X (A \cap K)
    BY <2>1, <2>2
  <2>4. Ends(h) \subseteq A
    BY <1>2, <2>2 DEF Ends
  <2> QED
    BY <2>3, <2>4 DEF HistoryOf
<1> QED
  BY <1>1, <1>2

\* What is kept lives on unchanged, and nothing else is referred to.
LEMMA SettledSound ==
  ASSUME NEW B, NEW D, NEW h, NEW s, NEW P,
         Sound(B, D, h, s, P), Settled(B, D, h, s, P)
  PROVE  Whole' /\ \A a \in Kept(D, h, s, P) : a \in Address => at'[a] = B[a]
<1> DEFINE K == Kept(D, h, s, P)
<1>1. /\ dir' = D /\ history' = h /\ saved' = s /\ pinned' = P
      /\ at' = [a \in Address |-> IF a \in K THEN B[a] ELSE Gone]
  BY DEF Settled
<1>2. \A a \in Address : at'[a] = IF a \in K THEN B[a] ELSE Gone
  BY <1>1
<1>3. Living(at') = Living(B) \cap K
  BY <1>2 DEF Living
<1>4. at' \in [Address -> Shape \cup {Gone}]
  BY <1>1 DEF Sound
<1>. HIDE DEF K
<1>8. OnePlace(at')
  <2>1. \A a \in Living(at') : a \in Living(B) /\ at'[a] = B[a]
    BY <1>2, <1>3 DEF Living
  <2> QED
    BY <2>1 DEF OnePlace, Sound
<1>. USE DEF K
<1>5. D \in [Name -> SUBSET (Living(B) \cap K)]
  BY DEF Sound, Kept, InUse
<1>6. HistoryOf(h, Living(B) \cap K) /\ HistoryOf(s, Living(B) \cap K)
  BY EndsKept DEF Sound, Kept, Living
<1>7. P \subseteq Living(B) \cap K
  BY DEF Sound, Kept
<1> QED
  BY <1>1, <1>2, <1>3, <1>4, <1>5, <1>6, <1>7, <1>8 DEF Whole, Sound

\* New TShapes at unused addresses leave the others alone.
LEMMA BirthsSound ==
  ASSUME IInv, NEW F \in SUBSET (Address \ Alive), NEW B \in Births(F)
  PROVE  /\ B \in [Address -> Shape \cup {Gone}]
         /\ OnePlace(B)
         /\ Living(B) = Alive \cup F
         /\ \A a \in Alive : B[a] = at[a]
<1>1. PICK c \in [F -> Shape \ Seen] :
        /\ \A x, y \in F : c[x] = c[y] => x = y
        /\ B = [a \in Address |-> IF a \in F THEN c[a] ELSE at[a]]
  BY DEF Births
<1>2. \A a \in Address : B[a] = IF a \in F THEN c[a] ELSE at[a]
  BY <1>1
<1>3. at \in [Address -> Shape \cup {Gone}]
  BY DEF IInv, TypeOK
<1>4. \A a \in F : c[a] \in Shape /\ c[a] # Gone /\ \A b \in Address : at[b] # c[a]
  BY <1>1, ReferencesAssumption DEF Seen
<1>5. Living(B) = Alive \cup F
  BY <1>2, <1>4 DEF Living, Alive
<1>6. OnePlace(B)
  BY <1>1, <1>2, <1>4, <1>5 DEF OnePlace, IInv, Living, Alive
<1>7. B \in [Address -> Shape \cup {Gone}]
  BY <1>1, <1>2, <1>3, <1>4
<1> QED
  BY <1>2, <1>5, <1>6, <1>7 DEF Alive

LEMMA InvWhole == ASSUME IInv PROVE Whole /\ Living(at) = Alive
BY DEF IInv, TypeOK, Whole, Sound, Living, Alive

\* Longer lists of living TShapes are histories still.
LEMMA HistoryGrows ==
  ASSUME NEW A, NEW Z, A \subseteq Z, NEW h, HistoryOf(h, A)
  PROVE  HistoryOf(h, Z)
BY DEF HistoryOf

\* References whose anchors are kept stay true.
LEMMA StillTrue ==
  ASSUME IInv, NEW B, NEW D, NEW h, NEW s, NEW P,
         Settled(B, D, h, s, P), Sound(B, D, h, s, P),
         \A a \in Alive : B[a] = at[a],
         NEW K, \A k \in K : k.ref \in Alive /\ k.ref \in Kept(D, h, s, P),
         TrueOf(K)
  PROVE  \A k \in K : at'[k.ref] = k.shape
<1>1. \A a \in Kept(D, h, s, P) : a \in Address => at'[a] = B[a]
  BY SettledSound
<1> QED
  BY <1>1 DEF TrueOf, Alive

\* A step that keeps the anchors of the references that remain.
LEMMA StepKeeps ==
  ASSUME IInv, NEW B, NEW D, NEW h, NEW s, NEW P,
         Settled(B, D, h, s, P), Sound(B, D, h, s, P),
         \A a \in Alive : B[a] = at[a],
         pinned \subseteq P,
         UNCHANGED answered,
         told' = {} \/ (UNCHANGED told /\ h = history),
         given' \subseteq given, \A g \in given' : D[g.name] = dir[g.name]
  PROVE  IInv'
<1>1. Whole'
  BY SettledSound
<1>2. dir' = D /\ history' = h /\ pinned' = P
  BY DEF Settled
<1>3. answered \subseteq Reference /\ told \subseteq Reference
      /\ given \subseteq [name : Name, ref : Address, shape : Shape]
      /\ RefsTrue /\ Anchored
  BY DEF IInv, TypeOK
<1>4. /\ \A k \in answered : k.ref \in P
      /\ \A k \in told' : k.ref \in Ends(h)
      /\ \A g \in given' : g.name \in Name /\ g.ref \in D[g.name]
  BY <1>3 DEF Anchored
<1>5. /\ \A k \in answered : k.ref \in Alive
      /\ \A k \in told : k.ref \in Alive
      /\ \A g \in given : g.ref \in Alive
  <2>1. \A k \in answered : k.ref \in Address /\ k.shape \in Shape /\ at[k.ref] = k.shape
    BY <1>3 DEF RefsTrue, TrueOf, Reference
  <2>2. \A k \in told : k.ref \in Address /\ k.shape \in Shape /\ at[k.ref] = k.shape
    BY <1>3 DEF RefsTrue, TrueOf, Reference
  <2>3. \A k \in given : k.ref \in Address /\ k.shape \in Shape /\ at[k.ref] = k.shape
    BY <1>3 DEF RefsTrue, TrueOf
  <2> QED
    BY <2>1, <2>2, <2>3, ReferencesAssumption DEF Alive
<1>6. \A k \in answered : at'[k.ref] = k.shape
  BY <1>3, <1>4, <1>5, StillTrue DEF Kept, RefsTrue
<1>7. told' \subseteq told /\ TrueOf(told')
  BY <1>3 DEF TrueOf, RefsTrue
<1>8. \A k \in told' : at'[k.ref] = k.shape
  BY <1>4, <1>5, <1>7, StillTrue DEF Kept
<1>9. TrueOf(given')
  BY <1>3 DEF TrueOf, RefsTrue
<1>10. \A k \in given' : at'[k.ref] = k.shape
  BY <1>4, <1>5, <1>9, StillTrue DEF Kept, InUse
<1>11. RefsTrue'
  BY <1>6, <1>8, <1>10 DEF RefsTrue, TrueOf
<1>12. Anchored'
  BY <1>2, <1>4 DEF Anchored, Ends
<1> QED
  BY <1>1, <1>3, <1>7, <1>11, <1>12
  DEF IInv, TypeOK, Whole, Sound, Living, Alive, Reference
-----------------------------------------------------------------------------
LEMMA InitInv == Init => IInv
<1>. SUFFICES ASSUME Init PROVE IInv
  OBVIOUS
<1>1. Alive = {} /\ Living(at) = {}
  BY DEF Init, Alive, Living
<1>2. dir \in [Name -> SUBSET Alive] /\ at \in [Address -> Shape \cup {Gone}]
  BY <1>1 DEF Init
<1>3. TypeOK
  BY <1>1, <1>2 DEF Init, TypeOK, HistoryOf
<1>4. OnePlace(at)
  BY <1>1 DEF OnePlace
<1>5. RefsTrue /\ Anchored
  BY DEF Init, RefsTrue, TrueOf, Anchored
<1> QED
  BY <1>3, <1>4, <1>5 DEF IInv

\* What a command that names A under n, all of it living, leaves sound.
LEMMA NamingSound ==
  ASSUME IInv, NEW B \in [Address -> Shape \cup {Gone}], OnePlace(B), Alive \subseteq Living(B),
         NEW n \in Name, NEW A \in SUBSET Living(B),
         NEW h, HistoryOf(h, Living(B))
  PROVE  Sound(B, [dir EXCEPT ![n] = A], h, saved, pinned)
<1>1. dir \in [Name -> SUBSET Alive] /\ HistoryOf(saved, Alive) /\ pinned \subseteq Alive
  BY DEF IInv, TypeOK
<1>2. [dir EXCEPT ![n] = A] \in [Name -> SUBSET Living(B)]
  BY <1>1
<1>3. HistoryOf(saved, Living(B))
  BY <1>1, HistoryGrows
<1> QED
  BY <1>1, <1>2, <1>3 DEF Sound

\* Naming a shape keeps the references that are of other names.
LEMMA NamingKeeps ==
  ASSUME IInv, NEW B, NEW n \in Name, NEW A, NEW h,
         Settled(B, [dir EXCEPT ![n] = A], h, saved, pinned),
         Sound(B, [dir EXCEPT ![n] = A], h, saved, pinned),
         \A a \in Alive : B[a] = at[a],
         UNCHANGED answered, told' = {} \/ (UNCHANGED told /\ h = history),
         Renamed(n)
  PROVE  IInv'
<1>1. given' \subseteq given /\ \A g \in given' : g.name # n /\ g.name \in Name
  BY DEF Renamed, IInv, TypeOK
<1>2. \A g \in given' : [dir EXCEPT ![n] = A][g.name] = dir[g.name]
  BY <1>1 DEF IInv, TypeOK
<1> QED
  BY <1>1, <1>2, StepKeeps

LEMMA OperateInv ==
  ASSUME IInv, NEW n \in Name, NEW fills \in BOOLEAN, Operate(n, fills)
  PROVE  IInv'
<1>1. PICK F \in SUBSET (Address \ Alive), K \in SUBSET InUse(dir) :
        /\ \E R \in SUBSET (IF fills THEN InUse(dir) \X F ELSE {}), B \in Births(F) :
             Settled(B, [dir EXCEPT ![n] = K \cup F],
                     IF fills THEN R ELSE history, saved, pinned)
        /\ told' = IF fills THEN {} ELSE told
        /\ Renamed(n)
        /\ UNCHANGED answered
  BY DEF Operate
<1>2. PICK R \in SUBSET (IF fills THEN InUse(dir) \X F ELSE {}), B \in Births(F) :
        Settled(B, [dir EXCEPT ![n] = K \cup F],
                IF fills THEN R ELSE history, saved, pinned)
  BY <1>1
<1> DEFINE h == IF fills THEN R ELSE history
<1>3. /\ B \in [Address -> Shape \cup {Gone}] /\ OnePlace(B)
      /\ Living(B) = Alive \cup F /\ \A a \in Alive : B[a] = at[a]
  BY BirthsSound
<1>4. InUse(dir) \subseteq Alive
  BY DEF IInv, TypeOK, InUse
<1>5. HistoryOf(h, Living(B))
  <2>1. CASE fills
    BY <2>1, <1>3, <1>4 DEF HistoryOf
  <2>2. CASE ~fills
    BY <2>2, <1>3, HistoryGrows DEF IInv, TypeOK
  <2> QED
    BY <2>1, <2>2
<1>6. Sound(B, [dir EXCEPT ![n] = K \cup F], h, saved, pinned)
  BY <1>3, <1>4, <1>5, NamingSound
<1>7. told' = {} \/ (UNCHANGED told /\ h = history)
  BY <1>1
<1> QED
  BY <1>1, <1>2, <1>3, <1>6, <1>7, NamingKeeps

\* A command that makes nothing leaves the memory as it is.
LEMMA NothingBorn ==
  ASSUME IInv
  PROVE  at \in [Address -> Shape \cup {Gone}] /\ OnePlace(at) /\ Living(at) = Alive
BY DEF IInv, TypeOK, Living, Alive

LEMMA OperateFailsInv ==
  ASSUME IInv, OperateFails
  PROVE  IInv'
<1>1. PICK h \in {NoHistory, {}} : Settled(at, dir, h, saved, pinned)
  BY DEF OperateFails
<1>2. Sound(at, dir, h, saved, pinned)
  <2>1. HistoryOf(h, Living(at))
    BY <1>1 DEF HistoryOf
  <2> QED
    BY <2>1, InvWhole DEF Whole, Sound
<1> QED
  BY <1>1, <1>2, StepKeeps DEF OperateFails

LEMMA CopyInv ==
  ASSUME IInv, NEW n \in Name, NEW m \in Name, Copy(n, m)
  PROVE  IInv'
<1>1. dir[m] \in SUBSET Alive /\ HistoryOf(history, Alive)
  BY DEF IInv, TypeOK
<1>2. Sound(at, [dir EXCEPT ![n] = dir[m]], history, saved, pinned)
  BY <1>1, NothingBorn, NamingSound
<1> QED
  BY <1>2, NamingKeeps DEF Copy

LEMMA SaveHistoryInv ==
  ASSUME IInv, SaveHistory
  PROVE  IInv'
<1>1. Sound(at, dir, history, history, pinned)
  BY InvWhole DEF Whole, Sound
<1> QED
  BY <1>1, StepKeeps DEF SaveHistory, known

LEMMA ReadHistoryInv ==
  ASSUME IInv, NEW n \in Name, NEW s \in Address, ReadHistory(n, s)
  PROVE  IInv'
<1> DEFINE A(F) == Targets(saved, s) \cup F
<1>0. PICK F \in SUBSET (Address \ Alive) : \E B \in Births(F) :
        Settled(B, [dir EXCEPT ![n] = A(F)], history, saved, pinned)
  BY DEF ReadHistory
<1>1. PICK B \in Births(F) :
        Settled(B, [dir EXCEPT ![n] = A(F)], history, saved, pinned)
  BY <1>0
<1>2. /\ B \in [Address -> Shape \cup {Gone}] /\ OnePlace(B)
      /\ Living(B) = Alive \cup F /\ \A a \in Alive : B[a] = at[a]
  BY BirthsSound
<1>3. Targets(saved, s) \subseteq Alive
  BY DEF ReadHistory, Targets, IInv, TypeOK, HistoryOf
<1>4. HistoryOf(history, Living(B))
  BY <1>2, HistoryGrows DEF IInv, TypeOK
<1>5. Sound(B, [dir EXCEPT ![n] = A(F)], history, saved, pinned)
  BY <1>2, <1>3, <1>4, NamingSound
<1> QED
  BY <1>1, <1>2, <1>5, NamingKeeps DEF ReadHistory

LEMMA PushModelInv ==
  ASSUME IInv, NEW n \in Name, PushModel(n)
  PROVE  IInv'
<1>1. PICK A \in (SUBSET pinned) \ {{}} :
        /\ Settled(at, [dir EXCEPT ![n] = A], history, saved, pinned)
        /\ Renamed(n) /\ UNCHANGED <<answered, told>>
  BY DEF PushModel
<1>2. A \in SUBSET Alive /\ HistoryOf(history, Alive)
  BY DEF IInv, TypeOK
<1>3. Sound(at, [dir EXCEPT ![n] = A], history, saved, pinned)
  BY <1>2, NothingBorn, NamingSound
<1> QED
  BY <1>1, <1>3, NamingKeeps

\* The references of living TShapes are true.
LEMMA RefsOfLiving ==
  ASSUME IInv, NEW A \in SUBSET Alive
  PROVE  /\ Refs(A) \subseteq Reference
         /\ \A k \in Refs(A) : k.ref \in A /\ at[k.ref] = k.shape
BY DEF IInv, TypeOK, Refs, Reference, Alive

LEMMA InterogateInv ==
  ASSUME IInv, NEW n \in Name, Interogate(n)
  PROVE  IInv'
<1>1. PICK A \in SUBSET dir[n] :
        /\ Settled(at, dir, history, saved, Leaked(A))
        /\ answered' = answered \cup Refs(A)
  BY DEF Interogate
<1>2. A \in SUBSET Alive
  BY DEF IInv, TypeOK
<1>3. Sound(at, dir, history, saved, Leaked(A))
  BY <1>2, InvWhole DEF Whole, Sound, Leaked
<1>4. Whole' /\ \A a \in Kept(dir, history, saved, Leaked(A)) : a \in Address => at'[a] = at[a]
  BY <1>1, <1>3, SettledSound
<1>5. /\ dir' = dir /\ history' = history /\ pinned' = pinned \cup A
      /\ told' = told /\ given' = given
  BY <1>1 DEF Interogate, Settled, Leaked
<1>6. /\ answered \subseteq Reference /\ told \subseteq Reference
      /\ given \subseteq [name : Name, ref : Address, shape : Shape]
      /\ RefsTrue /\ Anchored
  BY DEF IInv, TypeOK
<1>7. Refs(A) \subseteq Reference /\ \A k \in Refs(A) : k.ref \in A /\ at[k.ref] = k.shape
  BY <1>2, RefsOfLiving
<1>8. \A k \in answered' : k.ref \in Address /\ k.ref \in pinned' /\ at[k.ref] = k.shape
  BY <1>1, <1>5, <1>6, <1>7 DEF Anchored, RefsTrue, TrueOf, Reference
<1>9. \A k \in told : k.ref \in Address /\ k.ref \in Ends(history) /\ at[k.ref] = k.shape
  BY <1>6 DEF Anchored, RefsTrue, TrueOf, Reference
<1>10. \A k \in given :
         k.ref \in Address /\ k.name \in Name /\ k.ref \in dir[k.name] /\ at[k.ref] = k.shape
  BY <1>6 DEF Anchored, RefsTrue, TrueOf
<1>11. /\ \A k \in answered' : at'[k.ref] = k.shape
       /\ \A k \in told' : at'[k.ref] = k.shape
       /\ \A k \in given' : at'[k.ref] = k.shape
  BY <1>4, <1>5, <1>8, <1>9, <1>10 DEF Kept, InUse, Leaked
<1>12. Anchored'
  BY <1>5, <1>8, <1>9, <1>10 DEF Anchored, Ends
<1>13. answered' \subseteq Reference
  BY <1>1, <1>6, <1>7
<1> QED
  BY <1>4, <1>5, <1>6, <1>11, <1>12, <1>13
  DEF IInv, TypeOK, Whole, Sound, Living, Alive, Reference, RefsTrue, TrueOf

LEMMA GetProductionHistoryInv ==
  ASSUME IInv, GetProductionHistory
  PROVE  IInv'
<1>1. Ends(history) \subseteq Alive
  BY EndsKept DEF IInv, TypeOK, Alive
<1>2. Refs(Ends(history)) \subseteq Reference
      /\ \A k \in Refs(Ends(history)) : k.ref \in Ends(history) /\ at[k.ref] = k.shape
  BY <1>1, RefsOfLiving
<1> QED
  BY <1>2 DEF GetProductionHistory, IInv, TypeOK, OnePlace, Living, Alive, HistoryOf,
              RefsTrue, TrueOf, Anchored, Ends

LEMMA GetRefInv ==
  ASSUME IInv, NEW n \in Name, GetRef(n)
  PROVE  IInv'
<1>1. PICK a \in dir[n] : given' = given \cup {[name |-> n, ref |-> a, shape |-> at[a]]}
  BY DEF GetRef
<1>2. a \in Address /\ at[a] \in Shape
  BY DEF IInv, TypeOK, Alive
<1>3. /\ given' \subseteq [name : Name, ref : Address, shape : Shape]
      /\ TrueOf(given') /\ \A g \in given' : g.ref \in dir[g.name]
  BY <1>1, <1>2 DEF IInv, TypeOK, RefsTrue, TrueOf, Anchored
<1> QED
  BY <1>3 DEF GetRef, IInv, TypeOK, OnePlace, Living, Alive, HistoryOf,
              RefsTrue, TrueOf, Anchored, Ends

LEMMA StutterInv ==
  ASSUME IInv, UNCHANGED vars
  PROVE  IInv'
<1>. USE DEF vars
<1>1. TypeOK'
  BY DEF IInv, TypeOK, Alive, HistoryOf
<1>2. OnePlace(at)' /\ RefsTrue'
  BY DEF IInv, OnePlace, Living, RefsTrue, TrueOf
<1>3. Anchored'
  BY DEF IInv, Anchored, Ends
<1> QED
  BY <1>1, <1>2, <1>3 DEF IInv

LEMMA NextInv == IInv /\ [Next]_vars => IInv'
<1>. SUFFICES ASSUME IInv, [Next]_vars PROVE IInv'
  OBVIOUS
<1>1. CASE \E n \in Name, fills \in BOOLEAN : Operate(n, fills)
  BY <1>1, OperateInv
<1>2. CASE OperateFails
  BY <1>2, OperateFailsInv
<1>3. CASE SaveHistory
  BY <1>3, SaveHistoryInv
<1>4. CASE GetProductionHistory
  BY <1>4, GetProductionHistoryInv
<1>5. CASE \E n, m \in Name : Copy(n, m)
  BY <1>5, CopyInv
<1>6. CASE \E n \in Name, s \in Address : ReadHistory(n, s)
  BY <1>6, ReadHistoryInv
<1>7. CASE \E n \in Name : PushModel(n) \/ Interogate(n) \/ GetRef(n)
  BY <1>7, PushModelInv, InterogateInv, GetRefInv
<1>8. CASE UNCHANGED vars
  BY <1>8, StutterInv
<1> QED
  BY <1>1, <1>2, <1>3, <1>4, <1>5, <1>6, <1>7, <1>8 DEF Next

LEMMA Invariance == Spec => []IInv
BY InitInv, NextInv, PTL DEF Spec
-----------------------------------------------------------------------------
\* Names, histories and leaked shapes refer to living TShapes (handles count).
THEOREM NothingDangles == Spec => []TypeOK
<1>1. IInv => TypeOK
  BY DEF IInv
<1> QED
  BY <1>1, Invariance, PTL

\* What JavaScript was told of an address stays so for as long as it may use it.
THEOREM RefsStayTrue == Spec => []RefsTrue
<1>1. IInv => RefsTrue
  BY DEF IInv
<1> QED
  BY <1>1, Invariance, PTL

\* Equal references of interrogated shapes and history ends mean equal shapes.
THEOREM MatchesAreTrue == Spec => []MatchesMeanSameShape
<1>1. IInv => MatchesMeanSameShape
  <2>. SUFFICES ASSUME IInv, NEW j \in answered, NEW k \in answered \cup told
                PROVE  j.ref = k.ref <=> j.shape = k.shape
    BY DEF MatchesMeanSameShape
  <2>1. /\ j.ref \in Address /\ j.shape \in Shape /\ at[j.ref] = j.shape
        /\ k.ref \in Address /\ k.shape \in Shape /\ at[k.ref] = k.shape
    BY DEF IInv, TypeOK, RefsTrue, TrueOf, Reference
  <2>2. j.ref \in Living(at) /\ k.ref \in Living(at)
    BY <2>1, ReferencesAssumption DEF Living
  <2> QED
    BY <2>1, <2>2 DEF IInv, OnePlace
<1> QED
  BY <1>1, Invariance, PTL
=============================================================================
