--------------------------- MODULE ShapeDirectory ---------------------------
(***************************************************************************)
(* DBRep::shapes, the directory every command of the interpreter works on, *)
(* is a std::map whose keys are the char pointers it was given, compared   *)
(* with strcmp.  Set stores under a strdup of the name; Get goes through   *)
(* operator[] and, for a name that has no entry, INSERTS a null shape      *)
(* keyed by the caller's own pointer.  The strings of a CallCommand are    *)
(* never released by the caller; the string of an Interogate is released   *)
(* as soon as the call returns.  This module keeps the two halves of that  *)
(* contract together: the C strings of the heap and the nodes of the map.  *)
(*                                                                         *)
(* A cell is an address that can hold one C string.  A cell that is        *)
(* allocated for good and that no node refers to can never be read again:  *)
(* its address is gone, and another address takes its place in Cell (see   *)
(* Settle).  So Cell bounds only what is live at one time.                 *)
(***************************************************************************)
CONSTANTS Name,          \* texts
          Shape,         \* the non-null shapes
          Null,          \* the null TopoDS_Shape
          Cell,          \* addresses
          Free,          \* content of a cell malloc may hand out
          ProbeUnknown   \* may a name that has no entry be looked up through
                         \* a string its caller releases?

ASSUME DirectoryAssumption ==
  /\ Null \notin Shape
  /\ Free \notin Name
  /\ ProbeUnknown \in BOOLEAN

VARIABLES heap,     \* heap[c]: the text at c, or Free
          shapes,   \* the nodes of DBRep::shapes
          last      \* the shape the last call set or was given, and its name

vars == <<heap, shapes, last>>

(***************************************************************************)
(* A node has the pointer that is its key and the place it has in the      *)
(* tree: the text its key had when it was linked in.                       *)
(***************************************************************************)
Node == [key : Cell, at : Name, shape : Shape \cup {Null}]

FreeCells == {c \in Cell : heap[c] = Free}

TypeOK ==
  /\ heap \in [Cell -> Name \cup {Free}]
  /\ shapes \subseteq Node
  /\ last \in [name : Name, shape : Shape \cup {Null}]

Init ==
  /\ heap = [c \in Cell |-> Free]
  /\ shapes = {}
  /\ last \in [name : Name, shape : {Null}]
-----------------------------------------------------------------------------
\* The comparator of an ordinary std::map<char*, ...>.
MatchesByAddress(h, e, n) == FALSE

(***************************************************************************)
(* The comparator reads the memory the keys point to.  The content of a    *)
(* released cell is undefined: it may read as any text.                    *)
(***************************************************************************)
Matches(h, e, n) == h[e.key] \in {n, Free}

Hits(h, ns, n) == {e \in ns : Matches(h, e, n)}

\* The tree is searched by order, so a search for a text that is there can
\* only be relied on to find it while every node is where its key's text says.
InPlace(h, ns) == \A e \in ns : h[e.key] = e.at

MayMiss(h, ns, n) == InPlace(h, ns) => Hits(h, ns, n) = {}

\* A default value that is not a null shape.
InsertedUnset(h, ns, p) ==
  IF MayMiss(h, ns, h[p]) THEN {[key |-> p, at |-> h[p], shape |-> Free]} ELSE {}

\* The node a search for the text at p inserts when it misses: its key is the
\* pointer p itself.
Inserted(h, ns, p) ==
  IF MayMiss(h, ns, h[p]) THEN {[key |-> p, at |-> h[p], shape |-> Null]} ELSE {}

\* shapes[p] of std::map: every outcome, a directory and the node landed on.
Lookups(h, ns, p) ==
  {[nodes |-> ns, at |-> e] : e \in Hits(h, ns, h[p])} \cup
  {[nodes |-> ns \cup {e}, at |-> e] : e \in Inserted(h, ns, p)}

\* DBRep::Get through the string at p: a directory and the shape returned.
GetResults(h, ns, p) ==
  {[nodes |-> l.nodes, shape |-> l.at.shape] : l \in Lookups(h, ns, p)}

\* insert leaves the shape of a node it finds.
SetByInsert(h, ns, q, s) ==
  {(l.nodes \ {l.at}) \cup
     {IF l.at \in ns THEN l.at ELSE [l.at EXCEPT !.shape = s]} : l \in Lookups(h, ns, q)}

\* erase, then insert: the key is replaced.
SetByErase(h, ns, q, s) ==
  {(l.nodes \ {l.at}) \cup {[l.at EXCEPT !.key = q, !.shape = s]} : l \in Lookups(h, ns, q)}

\* DBRep::Set of s, q being the strdup of the name: the directory after it.
SetResults(h, ns, q, s) ==
  {(l.nodes \ {l.at}) \cup {[l.at EXCEPT !.shape = s]} : l \in Lookups(h, ns, q)}

\* The heap with the text n at the freshly allocated cells of C.
Alloc(h, C, n) == [c \in Cell |-> IF c \in C THEN n ELSE h[c]]

Release(h, c) == [h EXCEPT ![c] = Free]

\* Cells no node refers to are out of the program's reach: forget them.
Settle(h, ns) ==
  [c \in Cell |-> IF \E e \in ns : e.key = c THEN h[c] ELSE Free]

\* The release of each string that CallCommand has commented out.
AfterCallReleasing(h, p) == Release(h, p)

\* The strings a CallCommand was given: never released.
AfterCall(h, p) == h
-----------------------------------------------------------------------------
(***************************************************************************)
(* A command that builds a shape and names it (box, compound, readbrep,    *)
(* ...): its argument at p, the strdup at q.                               *)
(***************************************************************************)
MakeShape(n, s) ==
  \E p, q \in FreeCells :
    /\ p # q
    /\ LET h == Alloc(heap, {p, q}, n)
       IN  /\ shapes' \in SetResults(h, shapes, q, s)
           /\ heap' = Settle(AfterCall(h, p), shapes')
    /\ last' = [name |-> n, shape |-> s]

(***************************************************************************)
(* A command that reads a shape (nbshapes, check, dump, baddobjects, ...): *)
(* its argument is the pointer Get is given.                               *)
(***************************************************************************)
ReadShape(n) ==
  \E p \in FreeCells :
    LET h == Alloc(heap, {p}, n)
    IN  \E g \in GetResults(h, shapes, p) :
          /\ shapes' = g.nodes
          /\ last' = [name |-> n, shape |-> g.shape]
          /\ heap' = Settle(AfterCall(h, p), shapes')

(***************************************************************************)
(* copy: Get the first argument, Set the second unless it was null.        *)
(***************************************************************************)
CopyShape(a, b) ==
  \E p, pb, q \in FreeCells :
    /\ p # pb /\ p # q /\ pb # q
    /\ LET h == Alloc(Alloc(heap, {p}, a), {pb, q}, b)
       IN  \E g \in GetResults(h, shapes, p) :
             /\ shapes' \in IF g.shape = Null THEN {g.nodes}
                            ELSE SetResults(h, g.nodes, q, g.shape)
             /\ heap' = Settle(AfterCall(h, p), shapes')
             /\ last' = IF g.shape = Null THEN [name |-> a, shape |-> Null]
                        ELSE [name |-> b, shape |-> g.shape]

\* Some node answers to the name n.
Known(n) == \E e \in shapes : heap[e.key] = n

\* Get through a string at p that is released when the caller returns.
ReadTemporary(n, p) ==
  LET h == Alloc(heap, {p}, n)
  IN  \E g \in GetResults(h, shapes, p) :
        /\ shapes' = g.nodes
        /\ last' = [name |-> n, shape |-> g.shape]
        /\ heap' = Settle(Release(h, p), shapes')

(***************************************************************************)
(* Interogate of call.js: str2C, the call, _free of the string.            *)
(***************************************************************************)
Interogate(n) ==
  /\ ProbeUnknown \/ Known(n)
  /\ \E p \in FreeCells : ReadTemporary(n, p)

(***************************************************************************)
(* writebrep looks its argument up through a local TCollection_AsciiString *)
(* that dies with the call.                                                *)
(***************************************************************************)
WriteBrep(n) ==
  /\ ProbeUnknown \/ Known(n)
  /\ \E p \in FreeCells : ReadTemporary(n, p)

(***************************************************************************)
(* pushModel and ImportStepFile name a shape with a local std::string or a *)
(* stack buffer at p; the directory keeps the strdup at q.                 *)
(***************************************************************************)
SetFromBuffer(n, s) ==
  \E p, q \in FreeCells :
    /\ p # q
    /\ LET h == Alloc(heap, {p, q}, n)
       IN  /\ shapes' \in SetResults(h, shapes, q, s)
           /\ heap' = Settle(Release(h, p), shapes')
    /\ last' = [name |-> n, shape |-> s]

Next ==
  \/ \E n \in Name, s \in Shape : MakeShape(n, s) \/ SetFromBuffer(n, s)
  \/ \E n \in Name : ReadShape(n) \/ Interogate(n) \/ WriteBrep(n)
  \/ \E a, b \in Name : CopyShape(a, b)

Spec == Init /\ [][Next]_vars
-----------------------------------------------------------------------------
(***************************************************************************)
(* Every key of the directory points at an allocated string that still     *)
(* reads as it did when the node was linked into the tree: no later call   *)
(* released or reused the memory a key depends on.                         *)
(***************************************************************************)
KeysIntact == \A e \in shapes : heap[e.key] = e.at

(***************************************************************************)
(* No two nodes of the directory answer to the same name, whichever of Set *)
(* and Get linked them in.                                                 *)
(***************************************************************************)
OneNodePerName == \A e, f \in shapes : heap[e.key] = heap[f.key] => e = f

(***************************************************************************)
(* A node keeps its key pointer and its place for ever, which is why the   *)
(* string of a lookup has to outlive the session: operator[] never         *)
(* replaces the key of a node it finds, and nothing erases one.            *)
(***************************************************************************)
KeysArePermanent ==
  [][\A e \in shapes : \E f \in shapes' : f.key = e.key /\ f.at = e.at]_vars

(***************************************************************************)
(* The directory as a map from names: DBRep.hxx's words.                   *)
(***************************************************************************)
Held(ns, n) == {e \in ns : e.at = n}

ShapeOf(H) == IF H = {} THEN Null ELSE (CHOOSE e \in H : TRUE).shape

ViewOf(ns) == [n \in Name |-> ShapeOf(Held(ns, n))]

Promise == INSTANCE NamedShapes WITH dir <- ViewOf(shapes)

\* Reads return, and copies copy, the shape last set under the name, as the
\* comments of DBRep.hxx promise (NamedShapes!Spec).
ImplementsNamedShapes == Promise!Spec
=============================================================================
