------------------------ MODULE BooleanSessionProofs ------------------------
(***************************************************************************)
(* The session keeps FuseSession's promise as long as its user takes none  *)
(* of the risks BooleanSession names.  What carries the proof is that the  *)
(* DS of a filler without errors was made of the arguments it was given,   *)
(* and that a cells builder without errors, its history flag on, has the   *)
(* traces of exactly the shapes whose parts it holds.                      *)
(***************************************************************************)
EXTENDS BooleanSession, TLAPS

\* A DS without an error is one of the arguments last given.
FillerInv == ~filler.failed => filler.args = filler.of

\* What a cells builder without errors holds comes from one intersection...
CellsInv == cells.ok => cells.taken \subseteq cells.parts /\ cells.parts \subseteq cells.cut

\* ... and its history, if it keeps one, is up to date.
TraceInv == cells.ok /\ cells.fill => cells.traced = cells.taken

IInv == TypeOK /\ FillerInv /\ CellsInv /\ TraceInv /\ ResultIsIntersected

USE DEF lists, session

LEMMA InitInv == Init => IInv
  <1> SUFFICES ASSUME Init PROVE IInv
    OBVIOUS
  <1>1. /\ objs \in SUBSET (Shape \cup {Null})
        /\ tools \in SUBSET (Shape \cup {Null})
        /\ filler \in Filler
        /\ cells \in Cells
    BY DEF Init, EmptyFiller, Filler, Cells
  <1>2. Fuse!TypeOK
    BY DEF Init, Fuse!Init, Fuse!TypeOK, Fuse!Result, Fuse!Kind
  <1>3. FillerInv /\ CellsInv /\ TraceInv
    BY DEF Init, EmptyFiller, FillerInv, CellsInv, TraceInv
  <1>4. ResultIsIntersected
    BY DEF Init, Fuse!Init, ResultIsIntersected
  <1> QED
    BY <1>1, <1>2, <1>3, <1>4 DEF IInv, TypeOK

\* A build that succeeds: its arguments are the DS's own, and none is null.
LEMMA SoundArguments ==
  ASSUME IInv, Risks = {}, Unedited, FillerSound
  PROVE  Args = filler.of /\ Args \subseteq Shape /\ Args \ {Null} = Args
  <1>1. Args = filler.of
    BY DEF Unedited, FillerSound, IInv, FillerInv
  <1>2. filler.of \subseteq Shape
    BY DEF IInv, TypeOK, Filler
  <1> QED
    BY <1>1, <1>2, SessionAssumption

-----------------------------------------------------------------------------
\* What a command must leave behind: the invariant, and a step of the promise.
Good == IInv' /\ [Fuse!Next]_(Fuse!vars)

\* The session's part of the invariant.
SessionInv == Fuse!TypeOK /\ ResultIsIntersected

\* A command that stores a result and, when wanted, the history of all of it.
LEMMA MakeStep ==
  ASSUME IInv, NEW S \in SUBSET Shape, NEW c \in SUBSET Shape, S \subseteq c,
         Store("made", S, c), history' = IF fill THEN S ELSE history, UNCHANGED fill
  PROVE  SessionInv' /\ [Fuse!Next]_(Fuse!vars)
  <1>1. result' = [kind |-> "made", of |-> S, cut |-> c]
    BY DEF Store
  <1>2. result' \in Fuse!Result /\ result'.of \subseteq result'.cut
    BY <1>1 DEF Fuse!Result, Fuse!Kind
  <1>3. history' \in (SUBSET Shape) \cup {NoHistory} /\ fill' \in BOOLEAN
    BY DEF IInv, TypeOK, Fuse!TypeOK
  <1>4. Fuse!Make
    BY <1>1, <1>2 DEF Fuse!Make, Fuse!Stored, Fuse!Filled
  <1> QED
    BY <1>2, <1>3, <1>4 DEF SessionInv, Fuse!TypeOK, ResultIsIntersected, Fuse!Next

\* A command that fails, or one that empties its builder.
LEMMA NothingStep ==
  ASSUME IInv, Keep({}) \/ Keep(NoHistory), UNCHANGED <<result, fill>>
  PROVE  SessionInv' /\ [Fuse!Next]_(Fuse!vars)
  <1>1. Fuse!Nothing
    BY DEF Keep, Fuse!Nothing, Fuse!Filled
  <1>2. history' \in (SUBSET Shape) \cup {NoHistory}
    BY DEF IInv, TypeOK, Fuse!TypeOK, Keep
  <1> QED
    BY <1>1, <1>2 DEF IInv, TypeOK, SessionInv, Fuse!TypeOK, ResultIsIntersected, Fuse!Next

\* A command that leaves the session and the cells builder alone.
LEMMA OutsideStep ==
  ASSUME IInv, UNCHANGED <<cells, session>>,
         objs' \in SUBSET (Shape \cup {Null}), tools' \in SUBSET (Shape \cup {Null}),
         filler' \in Filler, FillerInv'
  PROVE  Good
  <1>1. TypeOK'
    BY DEF IInv, TypeOK, Fuse!TypeOK
  <1>2. CellsInv' /\ TraceInv' /\ ResultIsIntersected'
    BY DEF IInv, CellsInv, TraceInv, ResultIsIntersected
  <1> QED
    BY <1>1, <1>2 DEF Good, IInv, Fuse!vars

\* A command that works on the session alone.
LEMMA SessionStep ==
  ASSUME IInv, SessionInv', [Fuse!Next]_(Fuse!vars), UNCHANGED <<lists, filler, cells>>
  PROVE  Good
  <1>1. TypeOK'
    BY DEF IInv, TypeOK, SessionInv
  <1>2. FillerInv' /\ CellsInv' /\ TraceInv'
    BY DEF IInv, FillerInv, CellsInv, TraceInv
  <1> QED
    BY <1>1, <1>2 DEF Good, IInv, SessionInv
-----------------------------------------------------------------------------
LEMMA ArgumentsStep == ASSUME IInv, Arguments PROVE Good
  <1>1. ASSUME NEW s \in Shape \cup {Null}, AddObject(s) \/ AddTool(s) PROVE Good
    <2>1. objs' \in SUBSET (Shape \cup {Null}) /\ tools' \in SUBSET (Shape \cup {Null})
      BY <1>1 DEF IInv, TypeOK, AddObject, AddTool
    <2>2. UNCHANGED <<filler, cells, session>>
      BY <1>1 DEF AddObject, AddTool
    <2>3. filler' \in Filler /\ FillerInv'
      BY <2>2 DEF IInv, TypeOK, FillerInv
    <2> QED
      BY <2>1, <2>2, <2>3, OutsideStep
  <1>2. ASSUME ClearObjects \/ ClearTools PROVE Good
    <2>1. objs' \in SUBSET (Shape \cup {Null}) /\ tools' \in SUBSET (Shape \cup {Null})
      BY <1>2 DEF IInv, TypeOK, ClearObjects, ClearTools
    <2>2. UNCHANGED <<filler, cells, session>>
      BY <1>2 DEF ClearObjects, ClearTools
    <2>3. filler' \in Filler /\ FillerInv'
      BY <2>2 DEF IInv, TypeOK, FillerInv
    <2> QED
      BY <2>1, <2>2, <2>3, OutsideStep
  <1>3. ASSUME ClearAll PROVE Good
    <2>1. filler' \in Filler /\ FillerInv'
      BY <1>3 DEF ClearAll, EmptyFiller, Filler, FillerInv
    <2>2. objs' \in SUBSET (Shape \cup {Null}) /\ tools' \in SUBSET (Shape \cup {Null})
      BY <1>3 DEF ClearAll
    <2>3. UNCHANGED <<cells, session>>
      BY <1>3 DEF ClearAll
    <2> QED
      BY <2>1, <2>2, <2>3, OutsideStep
  <1> QED
    BY <1>1, <1>2, <1>3 DEF Arguments

LEMMA SetFillStep == ASSUME IInv, NEW b \in BOOLEAN, SetFillHistory(b) PROVE Good
  <1>1. UNCHANGED <<lists, filler, cells, result, history>> /\ fill' = b
    BY DEF SetFillHistory
  <1>2. SessionInv' /\ Fuse!SetFill
    BY <1>1 DEF IInv, TypeOK, SessionInv, Fuse!TypeOK, ResultIsIntersected, Fuse!SetFill
  <1> QED
    BY <1>1, <1>2, SessionStep DEF Fuse!Next

\* A refused bfillds keeps the DS, an accepted one makes a DS of its arguments.
LEMMA FillDSStep == ASSUME IInv, FillDS PROVE Good
  <1>1. UNCHANGED <<lists, cells, session>>
    BY DEF FillDS
  <1>2. Args \in SUBSET (Shape \cup {Null})
    BY DEF IInv, TypeOK, Args
  <1>3. CASE filler' = Refused
    <2>1. filler' \in Filler /\ FillerInv'
      BY <1>2, <1>3 DEF IInv, TypeOK, Filler, Refused, FillerInv
    <2> QED
      BY <1>1, <2>1, OutsideStep DEF IInv, TypeOK
  <1>4. CASE filler' # Refused
    <2>1. Null \notin Args
      BY <1>4 DEF FillDS
    <2>2. PICK d \in FreshDS, f \in BOOLEAN : filler' = Intersected(d, f)
      BY <1>4 DEF FillDS
    <2>3. filler' \in Filler /\ FillerInv'
      BY <1>2, <2>1, <2>2 DEF Filler, FreshDS, Intersected, FillerInv
    <2> QED
      BY <1>1, <2>3, OutsideStep DEF IInv, TypeOK
  <1> QED
    BY <1>3, <1>4
-----------------------------------------------------------------------------
LEMMA BuildWithFillerStep ==
  ASSUME IInv, Risks = {}, NEW enough \in BOOLEAN, BuildWithFiller(enough)
  PROVE  Good
  <1>1. UNCHANGED <<lists, filler, cells, fill>> /\ Unedited
    BY DEF BuildWithFiller
  <1>2. CASE /\ FillerSound
             /\ Keep(Traces)
             /\ Store("made", Args \ {Null}, filler.of)
    <2>1. Args = filler.of /\ Args \subseteq Shape /\ Args \ {Null} = Args
      BY <1>1, <1>2, SoundArguments
    <2>2. Traces = Args
      BY <2>1 DEF Traces
    <2>3. Store("made", Args, Args) /\ history' = IF fill THEN Args ELSE history
      BY <1>2, <2>1, <2>2 DEF Keep
    <2> QED
      BY <1>1, <2>1, <2>3, MakeStep, SessionStep
  <1>3. CASE Keep({}) /\ UNCHANGED result
    BY <1>1, <1>3, NothingStep, SessionStep
  <1> QED
    BY <1>2, <1>3 DEF BuildWithFiller

LEMMA BuildByApiStep ==
  ASSUME IInv, NEW enough \in BOOLEAN, BuildByApi(enough)
  PROVE  Good
  <1>1. UNCHANGED <<lists, filler, cells, fill>>
    BY DEF BuildByApi
  <1>2. CASE /\ Null \notin Args
             /\ Keep(Args)
             /\ Store("made", Args, Args)
    <2>1. Args \in SUBSET Shape
      BY <1>2 DEF IInv, TypeOK, Args
    <2>2. history' = IF fill THEN Args ELSE history
      BY <1>2 DEF Keep
    <2> QED
      BY <1>1, <1>2, <2>1, <2>2, MakeStep, SessionStep
  <1>3. CASE Keep(NoHistory) /\ UNCHANGED result
    BY <1>1, <1>3, NothingStep, SessionStep
  <1> QED
    BY <1>2, <1>3 DEF BuildByApi

LEMMA OperationsStep == ASSUME IInv, Risks = {}, Operations PROVE Good
  <1>1. FuseArgs \in BOOLEAN /\ BopArgs \in BOOLEAN /\ SplitArgs \in BOOLEAN
    BY DEF FuseArgs, BopArgs, SplitArgs, Several
  <1> QED
    BY <1>1, BuildWithFillerStep, BuildByApiStep
    DEF Operations, Build, BuildBop, BuildSplit, ApiBop, ApiBuild, ApiSplit

\* bcbuild: a builder that holds no cell yet, or one that is not in order.
LEMMA BuildCellsStep == ASSUME IInv, Risks = {}, BuildCells PROVE Good
  <1>1. UNCHANGED <<lists, filler, fill>> /\ Unedited /\ Keep({})
    BY DEF BuildCells
  <1>2. FillerInv'
    BY <1>1 DEF IInv, FillerInv
  <1>3. CASE /\ FillerSound
             /\ cells' = CellsBuilt
             /\ Store("parts", Args \ {Null}, filler.of)
    <2>1. Args = filler.of /\ Args \subseteq Shape /\ Args \ {Null} = Args
      BY <1>1, <1>3, SoundArguments
    <2>2. cells' \in Cells /\ CellsInv' /\ TraceInv'
      BY <1>3, <2>1 DEF CellsBuilt, Cells, CellsInv, TraceInv, IInv, TypeOK, Filler, Fuse!TypeOK
    <2>3. result' \in Fuse!Result /\ result'.kind = "parts" /\ result'.of \subseteq result'.cut
      BY <1>3, <2>1 DEF Store, Fuse!Result, Fuse!Kind
    <2>4. history' \in (SUBSET Shape) \cup {NoHistory} /\ fill' \in BOOLEAN
      BY <1>1 DEF IInv, TypeOK, Fuse!TypeOK, Keep
    <2>5. Fuse!Split
      BY <1>1, <2>3 DEF Fuse!Split, Fuse!Stored, Fuse!Filled, Keep
    <2>6. TypeOK' /\ ResultIsIntersected'
      BY <1>1, <2>2, <2>3, <2>4 DEF IInv, TypeOK, Fuse!TypeOK, ResultIsIntersected
    <2> QED
      BY <1>2, <2>2, <2>5, <2>6 DEF Good, IInv, Fuse!Next
  <1>4. CASE cells' = CellsFailed /\ UNCHANGED result
    <2>1. cells' \in Cells /\ CellsInv' /\ TraceInv'
      BY <1>4 DEF CellsFailed, Cells, CellsInv, TraceInv, IInv, TypeOK, Filler
    <2>2. SessionInv' /\ [Fuse!Next]_(Fuse!vars)
      BY <1>1, <1>4, NothingStep
    <2> QED
      BY <1>1, <1>2, <2>1, <2>2 DEF Good, IInv, TypeOK, SessionInv
  <1> QED
    BY <1>3, <1>4 DEF BuildCells
-----------------------------------------------------------------------------
\* How a cells builder looks that was worked on in order.
Followed ==
  /\ cells' \in Cells
  /\ cells'.ok /\ cells'.fill = fill
  /\ cells'.cut = cells.cut
  /\ cells'.taken \subseteq cells'.parts /\ cells'.parts \subseteq cells'.cut
  /\ fill => cells'.traced = cells'.taken

\* A prepared history has the traces of what the builder holds.
LEMMA ChangedFollows ==
  ASSUME IInv, Risks = {}, InOrder, NEW T \in SUBSET cells.parts,
         cells' \in Changed(T, TRUE)
  PROVE  Followed
  <1>1. Live /\ cells.ok /\ cells.fill = fill
    BY DEF InOrder
  <1>2. cells' = [cells EXCEPT !.taken = T, !.traced = IF fill THEN T ELSE cells.traced]
    BY <1>1 DEF Changed, Prepared
  <1>3. T \subseteq Shape /\ cells.traced \subseteq Shape
    BY DEF IInv, TypeOK, Cells
  <1>4. cells' \in Cells
    BY <1>2, <1>3 DEF IInv, TypeOK, Cells
  <1>5. /\ cells'.taken = T /\ cells'.parts = cells.parts /\ cells'.cut = cells.cut
        /\ cells'.ok = cells.ok /\ cells'.fill = cells.fill
        /\ cells'.traced = IF fill THEN T ELSE cells.traced
    BY <1>2 DEF IInv, TypeOK, Cells
  <1> QED
    BY <1>1, <1>4, <1>5 DEF Followed, IInv, CellsInv

\* A builder that is in order and left alone stays so.
LEMMA SameFollows ==
  ASSUME IInv, Risks = {}, InOrder, UNCHANGED cells
  PROVE  Followed
  BY DEF Followed, InOrder, IInv, TypeOK, CellsInv, TraceInv

\* Nothing but the cells builder moves: its part of the invariant is enough.
LEMMA FollowedStep ==
  ASSUME IInv, Followed, UNCHANGED <<lists, filler, fill>>,
         SessionInv', [Fuse!Next]_(Fuse!vars)
  PROVE  Good
  <1>1. TypeOK'
    BY DEF IInv, TypeOK, SessionInv, Followed
  <1>2. FillerInv' /\ CellsInv' /\ TraceInv'
    BY DEF IInv, FillerInv, CellsInv, TraceInv, Followed
  <1> QED
    BY <1>1, <1>2 DEF Good, IInv, SessionInv

\* The commands that name the builder's shape and set its history.
LEMMA NamedCellsStep ==
  ASSUME IInv, Followed, UNCHANGED <<lists, filler, fill>>, KeepCells, NameCells
  PROVE  Good
  <1>1. cells'.taken \in SUBSET Shape /\ cells.cut \in SUBSET Shape
    BY DEF Followed, IInv, TypeOK, Cells
  <1>2. cells'.taken \subseteq cells.cut
    BY DEF Followed
  <1>3. Store("made", cells'.taken, cells.cut)
    BY DEF NameCells
  <1>4. history' = IF fill THEN cells'.taken ELSE history
    BY DEF KeepCells, Keep, Followed
  <1>5. SessionInv' /\ [Fuse!Next]_(Fuse!vars)
    BY <1>1, <1>2, <1>3, <1>4, MakeStep
  <1> QED
    BY <1>5, FollowedStep

LEMMA AddAllCellsStep ==
  ASSUME IInv, Risks = {}, NEW u \in BOOLEAN, NEW r \in BOOLEAN, AddAllCells(u, r)
  PROVE  Good
  <1>1. InOrder /\ PreparesWith(u, r) = TRUE
    BY DEF AddAllCells, MayUpdate, PreparesWith
  <1>2. cells' \in Changed(cells.parts, TRUE)
    BY <1>1 DEF AddAllCells
  <1>3. Followed
    BY <1>1, <1>2, ChangedFollows
  <1> QED
    BY <1>3, NamedCellsStep DEF AddAllCells

LEMMA AddCellsStep ==
  ASSUME IInv, Risks = {}, NEW T \in SUBSET Shape, NEW u \in BOOLEAN, NEW r \in BOOLEAN,
         AddCells(T, u, r)
  PROVE  Good
  <1>1. InOrder /\ PreparesWith(u, r) = TRUE
    BY DEF AddCells, MayUpdate, PreparesWith
  <1>2. Followed
    <2>1. CASE UNCHANGED cells
      BY <1>1, <2>1, SameFollows
    <2>2. CASE cells.ok /\ T \subseteq cells.parts /\ cells' \in Changed(cells.taken \cup T, TRUE)
      <3>1. cells.taken \cup T \in SUBSET cells.parts
        BY <2>2 DEF IInv, CellsInv
      <3> QED
        BY <1>1, <2>2, <3>1, ChangedFollows
    <2> QED
      BY <1>1, <2>1, <2>2 DEF AddCells
  <1> QED
    BY <1>2, NamedCellsStep DEF AddCells

LEMMA RemoveCellsStep ==
  ASSUME IInv, Risks = {}, NEW U \in SUBSET Shape, RemoveCells(U)
  PROVE  Good
  <1>1. InOrder
    BY DEF RemoveCells
  <1>2. Followed
    <2>1. CASE UNCHANGED cells
      BY <1>1, <2>1, SameFollows
    <2>2. CASE cells.ok /\ cells' \in Changed(cells.taken \ U, TRUE)
      <3>1. cells.taken \ U \in SUBSET cells.parts
        BY <2>2 DEF IInv, CellsInv
      <3> QED
        BY <1>1, <2>2, <3>1, ChangedFollows
    <2> QED
      BY <1>1, <2>1, <2>2 DEF RemoveCells
  <1> QED
    BY <1>2, NamedCellsStep DEF RemoveCells

LEMMA RemoveInternalsStep ==
  ASSUME IInv, Risks = {}, RemoveInternals
  PROVE  Good
  <1>1. InOrder /\ cells.ok
    BY DEF RemoveInternals, InOrder
  <1>2. Followed
    <2>1. CASE UNCHANGED cells
      BY <1>1, <2>1, SameFollows
    <2>2. CASE cells' \in Changed(cells.taken, TRUE)
      <3>1. cells.taken \in SUBSET cells.parts
        BY <1>1 DEF IInv, CellsInv
      <3> QED
        BY <1>1, <2>2, <3>1, ChangedFollows
    <2> QED
      BY <1>1, <2>1, <2>2 DEF RemoveInternals
  <1> QED
    BY <1>2, NamedCellsStep DEF RemoveInternals

\* An emptied builder has an empty history.
LEMMA RemoveAllCellsStep ==
  ASSUME IInv, Risks = {}, RemoveAllCells
  PROVE  Good
  <1>1. InOrder /\ cells' \in Changed({}, TRUE)
    BY DEF RemoveAllCells
  <1>2. Followed
    BY <1>1, ChangedFollows
  <1>3. cells'.taken = {}
    BY <1>1 DEF Changed, IInv, TypeOK, Cells
  <1>4. Keep({})
    BY <1>2, <1>3 DEF RemoveAllCells, KeepCells, Keep, Followed
  <1>5. SessionInv' /\ [Fuse!Next]_(Fuse!vars)
    BY <1>4, NothingStep DEF RemoveAllCells
  <1> QED
    BY <1>2, <1>5, FollowedStep DEF RemoveAllCells

LEMMA MakeContainersStep ==
  ASSUME IInv, Risks = {}, MakeContainers
  PROVE  Good
  <1>1. UNCHANGED <<lists, filler, cells, history, fill>>
    BY DEF MakeContainers
  <1>2. cells.taken \subseteq Shape /\ cells.cut \subseteq Shape /\ cells.taken \subseteq cells.cut
    BY DEF MakeContainers, InOrder, IInv, TypeOK, Cells, CellsInv
  <1>3. result' \in Fuse!Result /\ result'.kind = "wrapped" /\ result'.of \subseteq result'.cut
    BY <1>2 DEF MakeContainers, Store, Fuse!Result, Fuse!Kind
  <1>4. SessionInv'
    BY <1>1, <1>3 DEF IInv, TypeOK, SessionInv, Fuse!TypeOK, ResultIsIntersected
  <1>5. Fuse!Wrap
    BY <1>1, <1>3 DEF Fuse!Wrap, Fuse!Stored
  <1> QED
    BY <1>1, <1>4, <1>5, SessionStep DEF Fuse!Next
-----------------------------------------------------------------------------
\* Every command keeps the invariant and takes a step the promise allows.
LEMMA NextStep == ASSUME IInv, Risks = {}, [Next]_vars PROVE Good
  <1>1. CASE Arguments
    BY <1>1, ArgumentsStep
  <1>2. CASE \E b \in BOOLEAN : SetFillHistory(b)
    BY <1>2, SetFillStep
  <1>3. CASE FillDS
    BY <1>3, FillDSStep
  <1>4. CASE Operations
    BY <1>4, OperationsStep
  <1>5. CASE BuildCells
    BY <1>5, BuildCellsStep
  <1>6. CASE OnCells
    BY <1>6, AddAllCellsStep, AddCellsStep, RemoveCellsStep, RemoveAllCellsStep,
       RemoveInternalsStep, MakeContainersStep DEF OnCells
  <1>7. CASE UNCHANGED vars
    <2>1. objs' \in SUBSET (Shape \cup {Null}) /\ tools' \in SUBSET (Shape \cup {Null})
      BY <1>7 DEF vars, IInv, TypeOK
    <2>2. filler' \in Filler /\ FillerInv'
      BY <1>7 DEF vars, IInv, TypeOK, FillerInv
    <2> QED
      BY <1>7, <2>1, <2>2, OutsideStep DEF vars
  <1> QED
    BY <1>1, <1>2, <1>3, <1>4, <1>5, <1>6, <1>7 DEF Next

LEMMA Invariance == ASSUME Risks = {} PROVE Spec => []IInv
  <1>1. IInv /\ [Next]_vars => IInv'
    BY NextStep DEF Good
  <1> QED
    BY <1>1, InitInv, PTL DEF Spec

-----------------------------------------------------------------------------
(***************************************************************************)
(* What holds of the session's user taking risks: the form of the state,   *)
(* always; and that results are intersected, unless the lists are edited   *)
(* between bfillds and the command that builds.                            *)
(***************************************************************************)
LEMMA StoreTyped ==
  ASSUME NEW k \in Fuse!Kind, NEW S \in SUBSET Shape, NEW c \in SUBSET Shape, Store(k, S, c)
  PROVE  result' \in Fuse!Result /\ result'.of = S /\ result'.cut = c
  BY DEF Store, Fuse!Result

LEMMA KeepTyped ==
  ASSUME TypeOK, NEW h \in (SUBSET Shape) \cup {NoHistory}, Keep(h)
  PROVE  history' \in (SUBSET Shape) \cup {NoHistory}
  BY DEF Keep, TypeOK, Fuse!TypeOK

\* Whatever a deleted DS yields, the builder's history has traces of shapes.
LEMMA ChangedTyped ==
  ASSUME TypeOK, NEW T \in SUBSET Shape, NEW p \in BOOLEAN, cells' \in Changed(T, p)
  PROVE  /\ cells' \in Cells /\ cells'.taken = T
         /\ cells'.parts = cells.parts /\ cells'.cut = cells.cut
  <1>1. cells.traced \in SUBSET Shape /\ cells \in Cells
    BY DEF TypeOK, Cells
  <1>2. Prepared(T) \subseteq SUBSET Shape
    BY <1>1 DEF Prepared
  <1>3. PICK h \in SUBSET Shape : cells' = [cells EXCEPT !.taken = T, !.traced = h]
    BY <1>1, <1>2 DEF Changed
  <1> QED
    BY <1>1, <1>3 DEF Cells

\* What a command on the cells builder may do to it, its risks taken or not.
LEMMA CellsMove ==
  ASSUME TypeOK, OnCells
  PROVE  /\ cells' \in Cells
         /\ cells'.parts = cells.parts /\ cells'.cut = cells.cut
         /\ cells'.taken \subseteq cells.taken \cup cells.parts
  <1>1. cells \in Cells /\ cells.taken \in SUBSET Shape /\ cells.parts \in SUBSET Shape
    BY DEF TypeOK, Cells
  <1>2. ASSUME NEW T \in SUBSET Shape, T \subseteq cells.taken \cup cells.parts,
               NEW p \in BOOLEAN, cells' \in Changed(T, p)
        PROVE  /\ cells' \in Cells
               /\ cells'.parts = cells.parts /\ cells'.cut = cells.cut
               /\ cells'.taken \subseteq cells.taken \cup cells.parts
    BY <1>2, ChangedTyped
  <1>3. \A u, r \in BOOLEAN : PreparesWith(u, r) \in BOOLEAN
    BY DEF PreparesWith
  <1>4. CASE \E u, r \in BOOLEAN : AddAllCells(u, r)
    <2>1. PICK u \in BOOLEAN, r \in BOOLEAN : cells' \in Changed(cells.parts, PreparesWith(u, r))
      BY <1>4 DEF AddAllCells
    <2> QED
      BY <1>1, <1>2, <1>3, <2>1
  <1>5. CASE \E T \in (SUBSET Shape) \ {{}}, u, r \in BOOLEAN : AddCells(T, u, r)
    <2>1. PICK T \in SUBSET Shape, u \in BOOLEAN, r \in BOOLEAN : AddCells(T, u, r)
      BY <1>5
    <2>2. CASE UNCHANGED cells
      BY <1>1, <2>2
    <2>3. CASE T \subseteq cells.parts
               /\ cells' \in Changed(cells.taken \cup T, PreparesWith(u, r))
      <3>1. cells.taken \cup T \in SUBSET Shape
            /\ cells.taken \cup T \subseteq cells.taken \cup cells.parts
        BY <1>1, <2>3
      <3> QED
        BY <1>2, <1>3, <2>3, <3>1
    <2> QED
      BY <2>1, <2>2, <2>3 DEF AddCells
  <1>6. CASE \E U \in SUBSET Shape : RemoveCells(U)
    <2>1. PICK U \in SUBSET Shape : RemoveCells(U)
      BY <1>6
    <2>2. cells' = cells \/ cells' \in Changed(cells.taken \ U, TRUE)
      BY <2>1 DEF RemoveCells
    <2>3. cells.taken \ U \in SUBSET Shape /\ cells.taken \ U \subseteq cells.taken \cup cells.parts
      BY <1>1
    <2> QED
      BY <1>1, <1>2, <2>2, <2>3
  <1>7. CASE RemoveAllCells
    <2>1. cells' \in Changed({}, TRUE) /\ {} \in SUBSET Shape
      BY <1>7 DEF RemoveAllCells
    <2> QED
      BY <1>2, <2>1
  <1>8. CASE RemoveInternals
    <2>1. cells' = cells \/ cells' \in Changed(cells.taken, TRUE)
      BY <1>8 DEF RemoveInternals
    <2> QED
      BY <1>1, <1>2, <2>1
  <1>9. CASE MakeContainers
    BY <1>1, <1>9 DEF MakeContainers
  <1> QED
    BY <1>4, <1>5, <1>6, <1>7, <1>8, <1>9 DEF OnCells

\* ... and to the session: the shape it names is the builder's.
LEMMA CellsNamed ==
  ASSUME TypeOK, OnCells
  PROVE  /\ UNCHANGED <<lists, filler, fill>>
         /\ history' \in (SUBSET Shape) \cup {NoHistory}
         /\ \/ UNCHANGED result
            \/ /\ result' \in Fuse!Result
               /\ result'.of = cells'.taken /\ result'.cut = cells.cut
  <1>1. cells' \in Cells /\ cells \in Cells
    BY CellsMove DEF TypeOK
  <1>2. cells'.taken \in SUBSET Shape /\ cells'.traced \in SUBSET Shape
        /\ cells.taken \in SUBSET Shape /\ cells.cut \in SUBSET Shape
    BY <1>1 DEF Cells
  <1>3. UNCHANGED <<lists, filler, fill>>
    BY DEF OnCells, AddAllCells, AddCells, RemoveCells, RemoveAllCells, RemoveInternals,
           MakeContainers
  <1>4. (KeepCells /\ NameCells) \/ (KeepCells /\ UNCHANGED result) \/ MakeContainers
    BY DEF OnCells, AddAllCells, AddCells, RemoveCells, RemoveAllCells, RemoveInternals
  <1>5. ASSUME KeepCells PROVE history' \in (SUBSET Shape) \cup {NoHistory}
    <2>1. CASE cells'.fill
      BY <1>2, <1>5, <2>1, KeepTyped DEF KeepCells
    <2>2. CASE ~ cells'.fill
      BY <1>5, <2>2, KeepTyped DEF KeepCells
    <2> QED
      BY <2>1, <2>2
  <1>6. ASSUME NameCells
        PROVE  result' \in Fuse!Result /\ result'.of = cells'.taken /\ result'.cut = cells.cut
    BY <1>2, <1>6, StoreTyped DEF NameCells, Fuse!Kind
  <1>7. ASSUME MakeContainers
        PROVE  /\ history' \in (SUBSET Shape) \cup {NoHistory}
               /\ result' \in Fuse!Result
               /\ result'.of = cells'.taken /\ result'.cut = cells.cut
    <2>1. UNCHANGED <<history, cells>> /\ Store("wrapped", cells.taken, cells.cut)
      BY <1>7 DEF MakeContainers
    <2>2. result' \in Fuse!Result /\ result'.of = cells.taken /\ result'.cut = cells.cut
      BY <1>2, <2>1, StoreTyped DEF Fuse!Kind
    <2> QED
      BY <2>1, <2>2 DEF TypeOK, Fuse!TypeOK
  <1> QED
    BY <1>3, <1>4, <1>5, <1>6, <1>7

\* The static builders, with the session's filler or with their own.
LEMMA Operated ==
  ASSUME TypeOK, Operations
  PROVE  /\ UNCHANGED <<lists, filler, cells, fill>>
         /\ history' \in (SUBSET Shape) \cup {NoHistory}
         /\ \/ UNCHANGED result
            \/ /\ result' \in Fuse!Result
               /\ \/ Unedited /\ FillerSound
                     /\ result'.of = Args \ {Null} /\ result'.cut = filler.of
                  \/ result'.of = Args /\ result'.cut = Args
  <1>1. /\ Args \ {Null} \in SUBSET Shape /\ filler.of \in SUBSET Shape
        /\ Traces \in SUBSET Shape
    BY DEF TypeOK, Args, Filler, Traces
  <1> DEFINE Typed == history' \in (SUBSET Shape) \cup {NoHistory}
  <1>2. ASSUME NEW e, BuildWithFiller(e)
        PROVE  /\ UNCHANGED <<lists, filler, cells, fill>> /\ Typed
               /\ \/ UNCHANGED result
                  \/ /\ result' \in Fuse!Result /\ Unedited /\ FillerSound
                     /\ result'.of = Args \ {Null} /\ result'.cut = filler.of
    <2>1. Unedited /\ UNCHANGED <<lists, filler, cells, fill>>
      BY <1>2 DEF BuildWithFiller
    <2>2. CASE FillerSound /\ Keep(Traces) /\ Store("made", Args \ {Null}, filler.of)
      BY <1>1, <2>1, <2>2, KeepTyped, StoreTyped DEF Fuse!Kind
    <2>3. CASE Keep({}) /\ UNCHANGED result
      BY <2>1, <2>3, KeepTyped
    <2> QED
      BY <1>2, <2>2, <2>3 DEF BuildWithFiller
  <1>3. ASSUME NEW e, BuildByApi(e)
        PROVE  /\ UNCHANGED <<lists, filler, cells, fill>> /\ Typed
               /\ \/ UNCHANGED result
                  \/ result' \in Fuse!Result /\ result'.of = Args /\ result'.cut = Args
    <2>1. UNCHANGED <<lists, filler, cells, fill>>
      BY <1>3 DEF BuildByApi
    <2>2. CASE Null \notin Args /\ Keep(Args) /\ Store("made", Args, Args)
      <3>1. Args \in SUBSET Shape
        BY <2>2 DEF TypeOK, Args
      <3> QED
        BY <2>1, <2>2, <3>1, KeepTyped, StoreTyped DEF Fuse!Kind
    <2>3. CASE Keep(NoHistory) /\ UNCHANGED result
      BY <2>1, <2>3, KeepTyped
    <2> QED
      BY <1>3, <2>2, <2>3 DEF BuildByApi
  <1>4. (\E e : BuildWithFiller(e)) \/ (\E e : BuildByApi(e))
    BY DEF Operations, Build, BuildBop, BuildSplit, ApiBop, ApiBuild, ApiSplit
  <1> HIDE DEF Typed
  <1>5. CASE \E e : BuildWithFiller(e)
    BY <1>2, <1>5 DEF Typed
  <1>6. CASE \E e : BuildByApi(e)
    BY <1>3, <1>6 DEF Typed
  <1> QED
    BY <1>4, <1>5, <1>6

LEMMA CellsBuiltTyped ==
  ASSUME TypeOK, BuildCells
  PROVE  /\ UNCHANGED <<lists, filler, fill>>
         /\ history' \in (SUBSET Shape) \cup {NoHistory}
         /\ cells' \in Cells
         /\ \/ /\ result' \in Fuse!Result /\ Unedited /\ FillerSound
               /\ cells'.taken = {} /\ cells'.parts = result'.of /\ cells'.cut = result'.cut
               /\ result'.of = Args \ {Null} /\ result'.cut = filler.of
            \/ /\ UNCHANGED result
               /\ cells'.taken = cells.taken /\ cells'.parts = cells.parts
               /\ cells'.cut = cells.cut
  <1>1. UNCHANGED <<lists, filler, fill>> /\ Keep({}) /\ Unedited
    BY DEF BuildCells
  <1>2. history' \in (SUBSET Shape) \cup {NoHistory}
    BY <1>1, KeepTyped
  <1>3. /\ Args \ {Null} \in SUBSET Shape /\ filler.of \in SUBSET Shape
        /\ filler.ds \in DS \cup {NoDS} /\ fill \in BOOLEAN /\ cells \in Cells
    BY DEF TypeOK, Fuse!TypeOK, Args, Filler
  <1>4. CASE FillerSound /\ cells' = CellsBuilt /\ Store("parts", Args \ {Null}, filler.of)
    <2>1. /\ result' \in Fuse!Result
          /\ result'.of = Args \ {Null} /\ result'.cut = filler.of
      BY <1>3, <1>4, StoreTyped DEF Fuse!Kind
    <2>2. /\ cells' \in Cells /\ cells'.taken = {}
          /\ cells'.parts = Args \ {Null} /\ cells'.cut = filler.of
      BY <1>3, <1>4 DEF CellsBuilt, Cells
    <2> QED
      BY <1>1, <1>2, <1>4, <2>1, <2>2
  <1>5. CASE cells' = CellsFailed /\ UNCHANGED result
    <2>1. /\ cells' \in Cells /\ cells'.taken = cells.taken
          /\ cells'.parts = cells.parts /\ cells'.cut = cells.cut
      BY <1>3, <1>5 DEF CellsFailed, Cells
    <2> QED
      BY <1>1, <1>2, <1>5, <2>1
  <1> QED
    BY <1>4, <1>5 DEF BuildCells

\* The commands that fill the lists and the filler.
LEMMA ArgumentsTyped ==
  ASSUME TypeOK, \/ Arguments \/ FillDS \/ \E b \in BOOLEAN : SetFillHistory(b)
  PROVE  TypeOK' /\ UNCHANGED <<cells, result>>
         /\ (FillerInv => FillerInv')
  <1>1. Args \in SUBSET (Shape \cup {Null}) /\ filler \in Filler
    BY DEF TypeOK, Args
  <1>2. CASE Arguments
    <2>1. UNCHANGED <<cells, session>>
      BY <1>2 DEF Arguments, AddObject, AddTool, ClearObjects, ClearTools, ClearAll
    <2>2. objs' \in SUBSET (Shape \cup {Null}) /\ tools' \in SUBSET (Shape \cup {Null})
      BY <1>2 DEF Arguments, AddObject, AddTool, ClearObjects, ClearTools, ClearAll, TypeOK
    <2>3. filler' = filler \/ filler' = EmptyFiller
      BY <1>2 DEF Arguments, AddObject, AddTool, ClearObjects, ClearTools, ClearAll
    <2>4. EmptyFiller \in Filler /\ EmptyFiller.args = EmptyFiller.of
      BY DEF EmptyFiller, Filler
    <2> QED
      BY <1>1, <2>1, <2>2, <2>3, <2>4 DEF TypeOK, Fuse!TypeOK, FillerInv
  <1>3. CASE FillDS
    <2>1. UNCHANGED <<lists, cells, session>>
      BY <1>3 DEF FillDS
    <2>2. CASE filler' = Refused
      <3>1. filler' \in Filler /\ filler'.failed
        BY <1>1, <2>2 DEF Filler, Refused
      <3> QED
        BY <2>1, <3>1 DEF TypeOK, Fuse!TypeOK, FillerInv
    <2>3. CASE Null \notin Args /\ \E d \in FreshDS, f \in BOOLEAN : filler' = Intersected(d, f)
      <3>1. filler' \in Filler /\ filler'.args = filler'.of
        BY <1>1, <2>3 DEF Filler, FreshDS, Intersected
      <3> QED
        BY <2>1, <3>1 DEF TypeOK, Fuse!TypeOK, FillerInv
    <2> QED
      BY <1>3, <2>2, <2>3 DEF FillDS
  <1>4. CASE \E b \in BOOLEAN : SetFillHistory(b)
    BY <1>4 DEF SetFillHistory, TypeOK, Fuse!TypeOK, FillerInv
  <1> QED
    BY <1>2, <1>3, <1>4

LEMMA TypeStep == TypeOK /\ [Next]_vars => TypeOK'
  <1> SUFFICES ASSUME TypeOK, [Next]_vars PROVE TypeOK'
    OBVIOUS
  <1>1. CASE Arguments \/ FillDS \/ \E b \in BOOLEAN : SetFillHistory(b)
    BY <1>1, ArgumentsTyped
  <1>2. CASE Operations
    BY <1>2, Operated DEF TypeOK, Fuse!TypeOK
  <1>3. CASE BuildCells
    BY <1>3, CellsBuiltTyped DEF TypeOK, Fuse!TypeOK
  <1>4. CASE OnCells
    BY <1>4, CellsMove, CellsNamed DEF TypeOK, Fuse!TypeOK
  <1>5. CASE UNCHANGED vars
    BY <1>5 DEF vars, TypeOK, Fuse!TypeOK
  <1> QED
    BY <1>1, <1>2, <1>3, <1>4, <1>5 DEF Next

(***************************************************************************)
(* The invariant that is left when the lists are not edited: a filler      *)
(* without errors was made of its arguments, and the parts of the cells    *)
(* builder come from one intersection, a failed build or not.              *)
(***************************************************************************)
PartsInv == cells.taken \subseteq cells.parts /\ cells.parts \subseteq cells.cut

CutInv == TypeOK /\ FillerInv /\ PartsInv /\ ResultIsIntersected

LEMMA InitCut == Init => CutInv
  <1> SUFFICES ASSUME Init PROVE CutInv
    OBVIOUS
  <1>1. PartsInv
    BY DEF Init, PartsInv
  <1> QED
    BY <1>1, InitInv DEF IInv, CutInv

LEMMA CutStep == ASSUME "edit" \notin Risks PROVE CutInv /\ [Next]_vars => CutInv'
  <1> SUFFICES ASSUME CutInv, [Next]_vars PROVE CutInv'
    OBVIOUS
  <1>1. TypeOK /\ TypeOK' /\ FillerInv /\ PartsInv /\ ResultIsIntersected
    BY TypeStep DEF CutInv
  <1>2. Unedited /\ FillerSound => Args = filler.of
    BY <1>1 DEF Unedited, FillerSound, FillerInv
  <1>3. CASE Arguments \/ FillDS \/ \E b \in BOOLEAN : SetFillHistory(b)
    BY <1>1, <1>3, ArgumentsTyped DEF CutInv, PartsInv, ResultIsIntersected
  <1>4. CASE Operations
    <2>1. UNCHANGED <<filler, cells>>
      BY <1>1, <1>4, Operated
    <2>2. ResultIsIntersected'
      BY <1>1, <1>2, <1>4, Operated DEF ResultIsIntersected
    <2> QED
      BY <1>1, <2>1, <2>2 DEF CutInv, FillerInv, PartsInv
  <1>5. CASE BuildCells
    <2>1. UNCHANGED filler
      BY <1>1, <1>5, CellsBuiltTyped
    <2>2. PartsInv' /\ ResultIsIntersected'
      BY <1>1, <1>2, <1>5, CellsBuiltTyped DEF PartsInv, ResultIsIntersected
    <2> QED
      BY <1>1, <2>1, <2>2 DEF CutInv, FillerInv
  <1>6. CASE OnCells
    <2>1. UNCHANGED filler
      BY <1>1, <1>6, CellsNamed
    <2>2. PartsInv'
      BY <1>1, <1>6, CellsMove DEF PartsInv
    <2>3. ResultIsIntersected'
      <3>1. cells'.taken \subseteq cells.cut
        BY <1>1, <1>6, CellsMove DEF PartsInv
      <3> QED
        BY <1>1, <1>6, <3>1, CellsNamed DEF ResultIsIntersected
    <2> QED
      BY <1>1, <2>1, <2>2, <2>3 DEF CutInv, FillerInv
  <1>7. CASE UNCHANGED vars
    BY <1>1, <1>7 DEF vars, CutInv, FillerInv, PartsInv, ResultIsIntersected
  <1> QED
    BY <1>3, <1>4, <1>5, <1>6, <1>7 DEF Next

-----------------------------------------------------------------------------
(***************************************************************************)
(* TypeOK for any shapes, any number of DSs and any risks taken: the lists,*)
(* the filler, the cells builder and the session keep the form the         *)
(* commands rely on, even where a deleted DS is read.                      *)
(***************************************************************************)
THEOREM SessionTyped == Spec => []TypeOK
  <1>1. Init => TypeOK
    BY InitInv DEF IInv
  <1> QED
    BY <1>1, TypeStep, PTL DEF Spec

(***************************************************************************)
(* ResultIsIntersected: a command never stores a result over shapes that   *)
(* were not intersected together, though the DS, the lists and the cells   *)
(* builder live on from one command to the next.  Only a change of the     *)
(* lists between bfillds and the command that builds can break it.         *)
(***************************************************************************)
THEOREM ResultsAreIntersected ==
  ASSUME "edit" \notin Risks
  PROVE  Spec => []ResultIsIntersected
  <1>1. CutInv => ResultIsIntersected
    BY DEF CutInv
  <1> QED
    BY <1>1, InitCut, CutStep, PTL DEF Spec

(***************************************************************************)
(* HistoryFollowsResult: when none of the risks is taken, the history that *)
(* a command leaves is that of the very result it stores, and of all of    *)
(* it, whichever builder made it and however often it was worked on.       *)
(***************************************************************************)
THEOREM HistoryIsOfResult == ASSUME Risks = {} PROVE Spec => HistoryFollowsResult
  <1>1. IInv /\ [Next]_vars =>
          [fill /\ result' # result /\ result'.kind = "made" => history' = result'.of]_vars
    <2> SUFFICES ASSUME IInv, [Next]_vars, fill, result' # result, result'.kind = "made"
                 PROVE  history' = result'.of
      OBVIOUS
    <2>1. Fuse!Next
      BY NextStep DEF Good, Fuse!vars
    <2>2. Fuse!Make
      BY <2>1 DEF Fuse!Next, Fuse!Split, Fuse!Wrap, Fuse!Nothing, Fuse!SetFill, Fuse!Stored
    <2> QED
      BY <2>2 DEF Fuse!Make, Fuse!Filled
  <1> QED
    BY <1>1, Invariance, PTL DEF Spec, HistoryFollowsResult

(***************************************************************************)
(* ImplementsFuseSession: the commands keep the session's history in step  *)
(* with the result, whatever the number of builders and DSs that come and  *)
(* go, as long as none of the risks is taken.                              *)
(***************************************************************************)
THEOREM SessionKeepsPromise == ASSUME Risks = {} PROVE Spec => ImplementsFuseSession
  <1>1. Init => Fuse!Init
    BY DEF Init
  <1>2. IInv /\ [Next]_vars => [Fuse!Next]_(Fuse!vars)
    BY NextStep DEF Good
  <1> QED
    BY <1>1, <1>2, Invariance, PTL DEF Spec, ImplementsFuseSession, Fuse!Spec
=============================================================================
