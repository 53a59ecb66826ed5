--------------------------- MODULE BooleanSession ---------------------------
(***************************************************************************)
(* The Boolean commands keep, between calls, two lists of arguments, one   *)
(* pave filler with the data structure (DS) of the last intersection, and  *)
(* a static cells builder that holds a bare pointer to the DS it was built *)
(* on.  Any later bfillds or bclear deletes that DS.  Every command checks *)
(* that some DS exists; none of the commands on the cells builder checks   *)
(* that it is the builder's own.  This module follows who built on what,   *)
(* and what the session's history is worth afterwards.                     *)
(*                                                                         *)
(* Lists are sets: the builders drop repeated arguments.  What the         *)
(* geometric algorithms find is left open (\E over outcomes); the options  *)
(* of BOPTest_OptionCommands only steer them and are abstracted.           *)
(***************************************************************************)
CONSTANTS Shape,       \* the shapes the session's names hold
          Null,        \* what DBRep::Get returns for a name that holds none
          DS,          \* identities of BOPDS_DS objects
          NoDS,        \* a null BOPDS_PDS
          NoHistory,   \* a null Handle(BRepTools_History)
          Risks        \* what the user of the commands does not steer clear of

\* edit:    change the lists between bfillds and the command that builds
\* refill:  work on the cells builder after a bfillds or bclear of its own
\* failure: work on the cells builder although its bcbuild failed
\* toggle:  work on the cells builder after changing setfillhistory
\* unify:   use -u where there is no boundary to remove
Situations == {"edit", "refill", "failure", "toggle", "unify"}

ASSUME SessionAssumption ==
  /\ Null \notin Shape
  /\ NoDS \notin DS
  /\ NoHistory \notin SUBSET Shape
  /\ Risks \subseteq Situations

VARIABLES objs, tools,  \* BOPTest_Session::myShapes, myTools
          filler,       \* its pave filler
          cells,        \* BOPTest_Objects::CellsBuilder()
          result, history, fill

lists == <<objs, tools>>
session == <<result, history, fill>>
vars == <<objs, tools, filler, cells, result, history, fill>>

Fuse == INSTANCE FuseSession

\* args: the arguments last given; of: those the DS was made of;
\* failed: the report holds an error
Filler == [ds : DS \cup {NoDS}, of : SUBSET Shape,
           args : SUBSET (Shape \cup {Null}), failed : BOOLEAN]

\* parts and cut: myAllParts, and the intersection it comes from; taken: the
\* shapes with parts in myShape; traced: those myHistory has traces of; fill:
\* myFillHistory; ok: the last build left no error
Cells == [ds : DS \cup {NoDS}, parts : SUBSET Shape, cut : SUBSET Shape,
          taken : SUBSET Shape, traced : SUBSET Shape,
          fill : BOOLEAN, ok : BOOLEAN]

TypeOK ==
  /\ objs \in SUBSET (Shape \cup {Null})
  /\ tools \in SUBSET (Shape \cup {Null})
  /\ filler \in Filler
  /\ cells \in Cells
  /\ Fuse!TypeOK

EmptyFiller == [ds |-> NoDS, of |-> {}, args |-> {}, failed |-> FALSE]

Init ==
  /\ objs = {} /\ tools = {}
  /\ filler = EmptyFiller
  /\ cells = [ds |-> NoDS, parts |-> {}, cut |-> {}, taken |-> {},
              traced |-> {}, fill |-> TRUE, ok |-> FALSE]
  /\ Fuse!Init
-----------------------------------------------------------------------------
Args == objs \cup tools

(***************************************************************************)
(* baddobjects, baddtools append what Get returned for each name, a null   *)
(* shape too; baddcompound, baddctools each sub-shape of one shape.  A     *)
(* call with several names does what several calls would.                  *)
(***************************************************************************)
AddObject(s) ==
  /\ objs' = objs \cup {s}
  /\ UNCHANGED <<tools, filler, cells, session>>

AddTool(s) ==
  /\ tools' = tools \cup {s}
  /\ UNCHANGED <<objs, filler, cells, session>>

ClearObjects ==
  /\ objs' = {}
  /\ UNCHANGED <<tools, filler, cells, session>>

ClearTools ==
  /\ tools' = {}
  /\ UNCHANGED <<objs, filler, cells, session>>

\* bclear deletes the pave filler; the lists' accessors make a new one.
ClearAll ==
  /\ objs' = {} /\ tools' = {}
  /\ filler' = EmptyFiller
  /\ UNCHANGED <<cells, session>>

SetFillHistory(b) ==
  /\ fill' = b
  /\ UNCHANGED <<lists, filler, cells, result, history>>
-----------------------------------------------------------------------------
(***************************************************************************)
(* bfillds.  BOPAlgo_PaveFiller::Init refuses a null argument before it    *)
(* clears anything: the previous DS survives, next to the new error.  An   *)
(* intersection that fails later leaves a new, unusable DS.                *)
(***************************************************************************)
RefusedLate == [filler EXCEPT !.args = Args, !.of = Args, !.failed = TRUE]

Refused == [filler EXCEPT !.args = Args, !.failed = TRUE]

Intersected(d, f) == [ds |-> d, of |-> Args, args |-> Args, failed |-> f]

\* A DS no builder points at any more is as good as a new one.
FreshDS == DS \ {filler.ds, cells.ds}

FillDS ==
  /\ objs # {}
  /\ IF Null \in Args
       THEN filler' = Refused
       ELSE \E d \in FreshDS, f \in BOOLEAN : filler' = Intersected(d, f)
  /\ UNCHANGED <<lists, cells, session>>
-----------------------------------------------------------------------------
\* Have the lists stayed what bfillds was given?
Unedited == "edit" \in Risks \/ Args = filler.args

\* What CheckData asks of the arguments of a builder.
Several(S) == \E x, y \in S : x # y

FuseArgs == Several(Args)                              \* one list
BopArgs == objs # {} /\ tools # {}                     \* objects and tools
SplitArgs == objs # {} /\ (tools # {} \/ Several(objs))

FillerUnread == TRUE

\* The builder merges the filler's report into its own: an error there is an
\* error of the build.
FillerSound == ~filler.failed

KeepAlways(h) == history' = h

\* SetHistory: the session's history, h when it is wanted.
Keep(h) == history' = IF fill THEN h ELSE history

Store(k, S, c) == result' = [kind |-> k, of |-> S, cut |-> c]

\* The traces a builder working on the session's DS has of its arguments.
Traces == Args \cap filler.of

(***************************************************************************)
(* A static builder works on the session's DS with the lists as they are   *)
(* now.  Its history goes into the session before its errors are looked    *)
(* at, and is empty when there are any.                                    *)
(***************************************************************************)
BuildWithFiller(enough) ==
  /\ filler.ds # NoDS
  /\ Unedited
  /\ \/ /\ enough /\ FillerSound
        /\ Keep(Traces)
        /\ Store("made", Args \ {Null}, filler.of)
     \/ /\ Keep({})
        /\ UNCHANGED result
  /\ UNCHANGED <<lists, filler, cells, fill>>

Build == BuildWithFiller(FuseArgs)       \* bbuild, and bbop's SECTION
BuildBop == BuildWithFiller(BopArgs)     \* bbop
BuildSplit == BuildWithFiller(SplitArgs) \* bsplit

(***************************************************************************)
(* bapibop, bapibuild, bapisplit intersect and build at once, with an      *)
(* algorithm of their own; its history is a null handle after an error.    *)
(***************************************************************************)
BuildByApi(enough) ==
  /\ \/ /\ enough /\ Null \notin Args
        /\ Keep(Args)
        /\ Store("made", Args, Args)
     \/ /\ Keep(NoHistory)
        /\ UNCHANGED result
  /\ UNCHANGED <<lists, filler, cells, fill>>

ApiBop == BuildByApi(BopArgs)
ApiBuild == BuildByApi(FuseArgs)
ApiSplit == BuildByApi(SplitArgs)
-----------------------------------------------------------------------------
(***************************************************************************)
(* bcbuild.  The builder's history flag is off while it builds and is put  *)
(* back at the end, which an error never reaches.  Clear forgets materials *)
(* and history, but neither myAllParts nor myShape.                        *)
(***************************************************************************)
CellsBuilt ==
  [ds |-> filler.ds, parts |-> Args \ {Null}, cut |-> filler.of, taken |-> {},
   traced |-> {}, fill |-> fill, ok |-> TRUE]

CellsFailed ==
  [cells EXCEPT !.ds = filler.ds, !.traced = {}, !.fill = FALSE, !.ok = FALSE]

BuildCells ==
  /\ filler.ds # NoDS
  /\ Unedited
  /\ \/ /\ FuseArgs /\ FillerSound
        /\ cells' = CellsBuilt
        /\ Store("parts", Args \ {Null}, filler.of)
     \/ /\ cells' = CellsFailed
        /\ UNCHANGED result
  /\ Keep({})
  /\ UNCHANGED <<lists, filler, fill>>

\* Does the cells builder's DS pointer point at a DS that still exists?
Live == cells.ds # NoDS /\ cells.ds = filler.ds

\* What the commands on the cells builder expect of their user.
InOrder ==
  /\ "refill" \in Risks \/ Live
  /\ "failure" \in Risks \/ cells.ok
  /\ "toggle" \in Risks \/ cells.fill = fill \/ ~cells.ok

(***************************************************************************)
(* PrepareHistory for a myShape with parts of T reads the DS: a deleted    *)
(* one may yield anything.                                                 *)
(***************************************************************************)
Prepared(T) == IF ~cells.fill THEN {cells.traced}
               ELSE IF Live THEN {T} ELSE SUBSET Shape

\* The cells builder with parts of T, its history prepared anew or not.
Changed(T, prepare) ==
  {[cells EXCEPT !.taken = T, !.traced = h] :
     h \in IF prepare THEN Prepared(T) ELSE {cells.traced}}

\* -u leaves the history to RemoveInternalBoundaries, which prepares it only
\* when it did remove something (removed).
PreparesWith(update, removed) == ~update \/ removed

MayUpdate(update, removed) ==
  "unify" \in Risks \/ PreparesWith(update, removed)

\* Shape() is named, and its history set into the session.
NameCells == Store("made", cells'.taken, cells.cut)

KeepCells == Keep(IF cells'.fill THEN cells'.traced ELSE {})

\* bcaddall: myShape becomes myAllParts.
AddAllCells(update, removed) ==
  /\ InOrder /\ MayUpdate(update, removed)
  /\ cells' \in Changed(cells.parts, PreparesWith(update, removed))
  /\ KeepCells /\ NameCells
  /\ UNCHANGED <<lists, filler, fill>>

\* bcadd of parts that come from the arguments T. None is found when the index
\* of parts is gone, after a failed build, and all may be there already.
AddCells(T, update, removed) ==
  /\ InOrder /\ MayUpdate(update, removed)
  /\ \/ /\ cells.ok /\ T \subseteq cells.parts
        /\ cells' \in Changed(cells.taken \cup T, PreparesWith(update, removed))
     \/ /\ ~(cells.ok /\ T \subseteq cells.parts) \/ T \subseteq cells.taken
        /\ UNCHANGED cells
  /\ KeepCells /\ NameCells
  /\ UNCHANGED <<lists, filler, fill>>

\* bcremove: the parts removed leave nothing of the shapes U in myShape.
RemoveCells(U) ==
  /\ InOrder
  /\ cells' \in IF cells.ok THEN {cells} \cup Changed(cells.taken \ U, TRUE)
                ELSE {cells}
  /\ KeepCells /\ NameCells
  /\ UNCHANGED <<lists, filler, fill>>

RemoveAllCells ==
  /\ InOrder
  /\ cells' \in Changed({}, TRUE)
  /\ KeepCells
  /\ UNCHANGED <<lists, filler, result, fill>>

\* bcremoveint: a boundary was removed, or none was.
RemoveInternals ==
  /\ InOrder
  /\ cells' \in {cells} \cup Changed(cells.taken, TRUE)
  /\ KeepCells /\ NameCells
  /\ UNCHANGED <<lists, filler, fill>>

\* bcmakecontainers never touches the history.
MakeContainers ==
  /\ InOrder
  /\ Store("wrapped", cells.taken, cells.cut)
  /\ UNCHANGED <<lists, filler, cells, history, fill>>
-----------------------------------------------------------------------------
Arguments ==
  \/ \E s \in Shape \cup {Null} : AddObject(s) \/ AddTool(s)
  \/ ClearObjects \/ ClearTools \/ ClearAll

Operations == Build \/ BuildBop \/ BuildSplit \/ ApiBop \/ ApiBuild \/ ApiSplit

OnCells ==
  \/ \E u, r \in BOOLEAN : AddAllCells(u, r)
  \/ \E T \in (SUBSET Shape) \ {{}}, u, r \in BOOLEAN : AddCells(T, u, r)
  \/ \E U \in SUBSET Shape : RemoveCells(U)
  \/ RemoveAllCells \/ RemoveInternals \/ MakeContainers

Next ==
  \/ Arguments
  \/ \E b \in BOOLEAN : SetFillHistory(b)
  \/ FillDS
  \/ Operations
  \/ BuildCells
  \/ OnCells

Spec == Init /\ [][Next]_vars
-----------------------------------------------------------------------------
(***************************************************************************)
(* While history is wanted, a command that stores a result leaves in the   *)
(* session the history of that very result, and of all of it.              *)
(***************************************************************************)
HistoryFollowsResult ==
  [][fill /\ result' # result /\ result'.kind = "made" => history' = result'.of]_vars

(***************************************************************************)
(* No result stands that was asked of shapes that were not intersected     *)
(* with one another, whatever failed bfillds came between.                 *)
(***************************************************************************)
ResultIsIntersected == result.of \subseteq result.cut

\* The session keeps FuseSession's promise.
ImplementsFuseSession == Fuse!Spec
=============================================================================
