--------------------------- MODULE PeriodicMaker ---------------------------
(***************************************************************************)
(* makeperiodic, repeatshape and clearrepetitions drive one static         *)
(* BOPAlgo_MakePeriodic.  It keeps the periodic shape, the shape repeated  *)
(* so far and the distance the next repetition goes, and one history that  *)
(* it edits in place.  The session and every name given by savehistory     *)
(* hold the same handle, not a copy.  This module follows which tiles the  *)
(* repeated shape is made of, and what each holder of a history reads.     *)
(*                                                                         *)
(* A tile is a copy of the periodic shape, named by its offset in periods. *)
(* What the splitting and gluing find is left open (\E over outcomes).     *)
(***************************************************************************)
EXTENDS Integers

CONSTANTS Shape,     \* the shapes that are made periodic
          None,      \* the null shape
          Dir,       \* the directions a shape may be periodic in
          Times,     \* the numbers of repetitions that are asked for
          MaxReach,  \* bound: no repetition makes a side longer than this
          Name,      \* the names histories are saved under
          Handle,    \* identities of BRepTools_History objects
          NoHandle   \* a null Handle(BRepTools_History)

ASSUME MakerAssumption ==
  /\ None \notin Shape
  /\ NoHandle \notin Handle
  /\ Times \subseteq Int \ {0}
  /\ MaxReach \in Nat \ {0}

VARIABLES maker,    \* BOPAlgo_MakePeriodic, its history apart
          own,      \* its myHistory
          session,  \* BRepTest_Session::myHistory
          saved,    \* Draw::History
          hist,     \* what each history holds
          result    \* the shape the last command named, Nothing if none

vars == <<maker, own, session, saved, hist, result>>

Tile == [Dir -> Int]
Origin == [d \in Dir |-> 0]

\* base, tiles: myShape, myRepeatedShape ({} when null); reach: myRepeatPeriod
\* in periods; split: the shape mySplitHistory follows; failed, warned: the
\* report holds an error, or the warning that a repetition was not possible
Maker == [base : Shape \cup {None}, periodic : SUBSET Dir, tiles : SUBSET Tile,
          reach : [Dir -> Nat], split : Shape \cup {None},
          failed : BOOLEAN, warned : BOOLEAN]

\* of: the shape whose faces and edges it follows; tiles: to which tiles
History == [of : Shape \cup {None}, tiles : SUBSET Tile]

TypeOK ==
  /\ maker \in Maker
  /\ own \in Handle \cup {NoHandle}
  /\ session \in Handle \cup {NoHandle}
  /\ saved \in [Name -> Handle \cup {NoHandle}]
  /\ hist \in [Handle -> History]
  /\ result \in History

Empty == [of |-> None, tiles |-> {Origin}]

Nothing == [of |-> None, tiles |-> {}]

Unset == [d \in Dir |-> 0]

NewMaker == [base |-> None, periodic |-> {}, tiles |-> {}, reach |-> Unset,
             split |-> None, failed |-> FALSE, warned |-> FALSE]

Init ==
  /\ maker = NewMaker
  /\ own = NoHandle /\ session = NoHandle
  /\ saved = [n \in Name |-> NoHandle]
  /\ hist = [h \in Handle |-> Empty]
  /\ result = Nothing
-----------------------------------------------------------------------------
InUse == {own, session} \cup {saved[n] : n \in Name}
Fresh == Handle \ InUse

\* The history h of H now holds c; a null handle holds nothing.
Write(H, h, c) == [g \in Handle |-> IF g = h THEN c ELSE H[g]]

\* A history that nobody holds any more is gone.
Settle(new) == hist' = [h \in Handle |-> IF h \in InUse' THEN new[h] ELSE Empty]

Announce(shape) == result' = shape

Quiet == Announce(Nothing)
-----------------------------------------------------------------------------
(***************************************************************************)
(* makeperiodic.  Once the shape is known the maker is cleared, its        *)
(* history in place; a bad argument found after that ends the command.     *)
(* Every other end hands the maker's history to the session, also after an *)
(* error.  MakeIdentical takes a new history, and leaves the emptied one   *)
(* behind, unless the negative side could not be split.                    *)
(***************************************************************************)
Cleared(P) == [NewMaker EXCEPT !.periodic = P]

Misused ==
  \E P \in SUBSET Dir :
    /\ maker' = Cleared(P)
    /\ UNCHANGED <<own, session, saved>>
    /\ Settle(Write(hist, own, Empty))
    /\ Quiet

\* No valid period; or the shape could not be trimmed: no shape at all.
Refused ==
  \E P \in SUBSET Dir \ {{}} :
    /\ maker' = [Cleared(P) EXCEPT !.failed = TRUE]
    /\ session' = own
    /\ UNCHANGED <<own, saved>>
    /\ Settle(Write(hist, own, Empty))
    /\ Quiet

Split(s, P, f) ==
  [Cleared(P) EXCEPT !.base = s, !.split = s, !.failed = f]

\* The negative side could not be split: the base is left half done.
HalfSplit(s) ==
  \E P \in SUBSET Dir \ {{}} :
    /\ maker' = Split(s, P, TRUE)
    /\ session' = own
    /\ UNCHANGED <<own, saved>>
    /\ Settle(Write(hist, own, Empty))
    /\ Quiet

\* f: the positive side could not be split
MakeIdentical(s, f) ==
  \E P \in SUBSET Dir \ {{}}, h \in Fresh :
    /\ maker' = Split(s, P, f)
    /\ own' = h /\ session' = h
    /\ UNCHANGED saved
    /\ Settle(Write(Write(hist, own, Empty), h, [of |-> s, tiles |-> {Origin}]))
    /\ IF f THEN Quiet ELSE Announce([of |-> s, tiles |-> {Origin}])

MakePeriodic(s) ==
  \/ Misused
  \/ Refused
  \/ HalfSplit(s)
  \/ \E f \in BOOLEAN : MakeIdentical(s, f)
-----------------------------------------------------------------------------
(***************************************************************************)
(* RepeatShape.  A transit is the maker with its history on the way        *)
(* through a command: repeatshape takes several pairs of direction and     *)
(* number, and each repetition is based on the shape the one before left.  *)
(***************************************************************************)
Now == [maker |-> maker, trace |-> IF own = NoHandle THEN Empty ELSE hist[own]]

Abs(n) == IF n < 0 THEN -n ELSE n

Width(m, d) == IF m.reach[d] = 0 THEN 1 ELSE m.reach[d]

Moved(x, d, k) == [x EXCEPT ![d] = @ + k]

\* The tiles of T and of its copies, step periods apart, n of them upwards
\* or -n downwards.
Spread(T, d, n, step) ==
  {Moved(x, d, (IF n < 0 THEN -k ELSE k) * step) : x \in T, k \in 0 .. Abs(n)}

Begun(m) ==
  [m EXCEPT !.tiles = IF @ = {} /\ m.base # None THEN {Origin} ELSE @]

SpreadOf(m, d, n) == Spread(Begun(m).tiles, d, n, Width(m, d))

GluedSigned(m, d, n) ==
  [m EXCEPT !.tiles = SpreadOf(m, d, n),
            !.reach[d] = Width(m, d) + n * Width(m, d)]

Glued(m, d, n) ==
  [m EXCEPT !.tiles = SpreadOf(m, d, n),
            !.reach[d] = Width(m, d) + Abs(n) * Width(m, d)]

Unglued(m, d, n) ==
  [Begun(m) EXCEPT !.reach[d] = Width(m, d), !.warned = TRUE]

\* myHistory is merged with the translations before the gluing is tried.
Traced(t, d, n) == [t.trace EXCEPT !.tiles = @ \cup SpreadOf(t.maker, d, n)]

\* A periodic direction of a maker without shape or history is not asked for:
\* the code dereferences them.
Repeatable(m, d, n) ==
  /\ m.base # None /\ own # NoHandle
  /\ Width(m, d) * (1 + Abs(n)) <= MaxReach

Repeats(t, d, n) ==
  IF d \notin t.maker.periodic
    THEN {[t EXCEPT !.maker = Begun(@)]}
    ELSE {[maker |-> m, trace |-> Traced(t, d, n)] :
            m \in {r \in {Glued(t.maker, d, n), Unglued(t.maker, d, n)} :
                     Repeatable(t.maker, d, n)}}

\* One pair, or two.
RepeatsFrom(t) ==
  LET once == UNION {Repeats(t, d, n) : d \in Dir, n \in Times}
  IN  once \cup UNION {Repeats(u, d, n) : u \in once, d \in Dir, n \in Times}

Named(m) == [of |-> m.base, tiles |-> m.tiles]

RepeatShape ==
  \E t \in RepeatsFrom(Now) :
    /\ maker' = t.maker
    /\ session' = own
    /\ UNCHANGED <<own, saved>>
    /\ Settle(Write(hist, own, t.trace))
    /\ IF t.maker.failed THEN Quiet ELSE Announce(Named(t.maker))

\* A later argument is bad: the repetitions before it stay done.
RepeatMisused ==
  \E t \in RepeatsFrom(Now) :
    /\ maker' = t.maker
    /\ UNCHANGED <<own, session, saved>>
    /\ Settle(Write(hist, own, t.trace))
    /\ Quiet
-----------------------------------------------------------------------------
(***************************************************************************)
(* clearrepetitions [result] names the periodic shape without looking for  *)
(* errors.                                                                 *)
(***************************************************************************)
WithoutKeepingReach(m) == [m EXCEPT !.tiles = {}]

Without(m) == [m EXCEPT !.tiles = {}, !.reach = Unset]

EmptiedHistory == Empty

ClearedHistory == [of |-> maker.split, tiles |-> {Origin}]

ClearRepetitions ==
  /\ maker' = Without(maker)
  /\ session' = own
  /\ UNCHANGED <<own, saved>>
  /\ Settle(Write(hist, own, ClearedHistory))
  /\ \/ Announce([of |-> maker.base, tiles |-> {Origin}])
     \/ Quiet
-----------------------------------------------------------------------------
SaveHistory(n) ==
  /\ session # NoHandle
  /\ saved' = [saved EXCEPT ![n] = session]
  /\ UNCHANGED <<maker, own, session, result>>
  /\ Settle(hist)

\* AddHistory in the place of SetHistory
OperatedInPlace(s) ==
  \E h \in (IF session = NoHandle THEN Fresh ELSE {session}) :
    /\ session' = h
    /\ Settle(Write(hist, h, [of |-> s, tiles |-> {Origin}]))

\* Any other command that names a shape hands a history of its own over.
Operated(s) ==
  \E h \in Fresh :
    /\ session' = h
    /\ Settle(Write(hist, h, [of |-> s, tiles |-> {Origin}]))

OtherCommand(s) ==
  /\ UNCHANGED <<maker, own, saved>>
  /\ Operated(s)
  /\ Announce([of |-> s, tiles |-> {Origin}])

Next ==
  \/ \E s \in Shape : MakePeriodic(s)
  \/ RepeatShape
  \/ RepeatMisused
  \/ ClearRepetitions
  \/ \E n \in Name : SaveHistory(n)
  \/ \E s \in Shape : OtherCommand(s)

Spec == Init /\ [][Next]_vars
-----------------------------------------------------------------------------
(***************************************************************************)
(* The repeated shape is a block: the tiles fill a box that holds the      *)
(* periodic shape itself, without gap or overlap, and as long in each      *)
(* direction as the distance the next repetition there will go.  Upward    *)
(* and downward repetitions may follow one another in any order, also      *)
(* after one that could not be glued (BOPAlgo_MakePeriodic::RepeatShape,   *)
(* myRepeatPeriod).                                                        *)
(***************************************************************************)
Box(lo, m) == {x \in [Dir -> -MaxReach .. MaxReach] :
                 \A d \in Dir : lo[d] <= x[d] /\ x[d] < lo[d] + Width(m, d)}

TilesFormBlock ==
  maker.tiles # {} =>
    \E lo \in [Dir -> -MaxReach .. 0] :
      Origin \in Box(lo, maker) /\ maker.tiles = Box(lo, maker)

(***************************************************************************)
(* When the last command named a shape, the session's history is about     *)
(* that shape and follows it to each of its tiles, and to no others unless *)
(* a repetition was warned about - whatever commands, errors and cleared   *)
(* repetitions came before ("what new shapes have been created during      *)
(* repetitions", BOPAlgo_MakePeriodic.hxx).                                *)
(***************************************************************************)
SessionTellsOfResult ==
  result.of # None /\ session # NoHandle =>
    /\ hist[session].of = result.of
    /\ result.tiles \subseteq hist[session].tiles
    /\ session = own /\ ~maker.warned => hist[session].tiles = result.tiles

(***************************************************************************)
(* A saved history is changed by nothing but the commands on the maker     *)
(* whose own history it still is: what was saved before makeperiodic took  *)
(* a new one, or after another command, stays                              *)
(* (BOPAlgo_MakePeriodic::MakeIdentical, BRepTest_Objects::SetHistory).    *)
(***************************************************************************)
SavedChange(n) ==
  saved'[n] = saved[n] /\ saved[n] # NoHandle
    /\ hist'[saved[n]] # hist[saved[n]]

OnlyOwnChanges ==
  [][\A n \in Name : SavedChange(n) => saved[n] = own]_vars

(***************************************************************************)
(* A name given by savehistory holds the history of that time until it is  *)
(* given again ("Saves the history from the session into a drawable object *)
(* with the name <name>", BRepTest_HistoryCommands.cxx).                   *)
(***************************************************************************)
SavedHistoriesFixed == [][\A n \in Name : ~SavedChange(n)]_vars
=============================================================================
