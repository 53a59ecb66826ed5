---------------------------- MODULE FuseSession ----------------------------
(***************************************************************************)
(* What a user of the Boolean commands is told: a command that succeeds    *)
(* stores a result made of the shapes that were intersected with one       *)
(* another, and while the filling of history is on ("flag != 0 - history   *)
(* will be collected and saved into the session (default)", setfillhistory *)
(* in BRepTest_HistoryCommands.cxx) the session's history is the history   *)
(* of that result.  A command that fails leaves the result alone.          *)
(* Intersections, builders and their lifetimes are unknown here.           *)
(***************************************************************************)
CONSTANTS Shape,      \* the shapes operations are given
          NoHistory   \* the null handle: nothing has been prepared yet

VARIABLES result,     \* what the last successful command stored under its name
          history,    \* the shapes whose traces the session's history holds
          fill        \* BRepTest_Session::myFillHistory

vars == <<result, history, fill>>

\* made: by an operation; parts: the cells bcbuild names; wrapped: the
\* containers bcmakecontainers gathers them in
Kind == {"made", "parts", "wrapped"}

\* A result: the shapes it was asked of, and those cut against each other.
Result == [kind : Kind, of : SUBSET Shape, cut : SUBSET Shape]

TypeOK ==
  /\ result \in Result
  /\ history \in (SUBSET Shape) \cup {NoHistory}
  /\ fill \in BOOLEAN

Init ==
  /\ result = [kind |-> "made", of |-> {}, cut |-> {}]
  /\ history = NoHistory
  /\ fill = TRUE

\* A result is stored, all of whose shapes have been cut against each other.
Stored(k) ==
  /\ result' \in Result
  /\ result'.kind = k
  /\ result'.of \subseteq result'.cut

Filled(h) == history' = IF fill THEN h ELSE history

Make ==
  /\ Stored("made")
  /\ Filled(result'.of)
  /\ UNCHANGED fill

\* The cells are named while the builder's own result is still empty.
Split ==
  /\ Stored("parts")
  /\ Filled({})
  /\ UNCHANGED fill

\* Containers have no history of their own.
Wrap ==
  /\ Stored("wrapped")
  /\ UNCHANGED <<history, fill>>

\* An operation that fails, or one that empties its builder.
Nothing ==
  /\ Filled({}) \/ Filled(NoHistory)
  /\ UNCHANGED <<result, fill>>

SetFill ==
  /\ fill' \in BOOLEAN
  /\ UNCHANGED <<result, history>>

Next == Make \/ Split \/ Wrap \/ Nothing \/ SetFill

Spec == Init /\ [][Next]_vars
=============================================================================
