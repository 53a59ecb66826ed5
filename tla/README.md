# occt-interpreter: models, checks and proofs

occt-interpreter compiles the OCCT kernel to WebAssembly and lets a JavaScript
program drive it with named commands (`CallCommand("box", [...])`), read shapes
back as JSON (`Interogate`), and push shapes in again (`EngineCommand
io.pushModel`).  The kernel itself is third-party geometry.  The program's own
logic is what lies between the calls: a directory of named shapes, sessions of
Boolean operations, shapes that share their sub-shapes, and pointers that cross
the JavaScript boundary.  That is what these modules model.

Everything runs in one thread and every call returns before the next begins.
There is no scheduler.  What is hard here is the *order* of legal calls, state
that outlives the object it refers to, and commands that fail halfway; nothing
obliges a JavaScript program to make another call, so no fairness is assumed
between commands.  The one place where something must eventually happen is
within a call: the JSON parser, whose functions call one another in loops without
a bound, has to return.  There weak fairness of the step is what running means.

## 1. Inventory

| component | state it keeps | operations | hard behaviour | what makes it correct |
|---|---|---|---|---|
| directory of named shapes (`CommandInterpreter/DBRep.cxx`, `Map.hxx`) | `DBRep::shapes`, a `std::map` ordered by `strcmp` over the *pointers* it was given | `Set` (strdup), `Get` (`operator[]`, inserts) ; called by every command, `Interogate`, `SetLocation`, STEP import, `pushModel` | a Get inserts the caller's pointer as key; the memory may be released later | Get returns the shape last Set under the name; keys stay readable; one node per name |
| JavaScript bridge (`scripts/call.js`, `shape-io/main.cpp`) | heap blocks of the strings, the exchange variable, leaked `TopoDS_Shape*` | `CallCommand`, `Interogate`, `GetRef`, `GetProductionHistory`, `SetLocation`, classify calls | who releases what; an answer that is not published; addresses that outlive their object | blocks are released once and only when nothing refers to them; answers belong to the question; published addresses stay valid |
| Boolean session (`BOPTest_*Commands`, `BOPTest_Objects`, `BRepTest_Objects`) | argument lists, one pave filler with its DS, a static cells builder, `History()`, `myFillHistory` | `baddobjects` ... `bclear`, `bfillds`, `bbuild`, `bbop`, `bsplit`, `bapi*`, `bc*`, `setfillhistory` | lists, DS and builder age separately; errors leave part of the old state | results are made of shapes intersected with one another; the session's history is that of the last result |
| shape graph (`DBRep.cxx`, `TopoDS_Builder`) | TShapes with sub-shapes and a Free flag, shared by names, compounds and pointers | `compound`, `emptycopy`, `add`, `explode`, `invert`, `copy`, `removeinternals`, `setflags` | in-place edits of shared TShapes; freezing before testing | the graph is acyclic, typed, and nothing dangles; components do not grow |
| interrogation (`shape-io/interrogate.hpp`, `commonIO.hpp`, ...) | none; leaks one pointer per face and edge | `interrogate` | shapes without triangulation, exceptions | a pointer stays valid as long as JavaScript has it |
| production history (`historyIO.hpp`) | reads the session's history | `productionHistoryWrite` | null history; addresses of TShapes that nothing else keeps | the addresses it publishes are those of living TShapes |
| engine commands (`EngineInterface`) | table of methods | `EngineCommand`, `pushModel`, `echo` | unknown methods | a known method is called, an unknown one is refused |
| JSON values (`shape-io/data.hpp`) | the text and one offset into it, shared by all `parse_` functions | `Load`, `parse_next`, `parse_array`, `parse_object`, `parse_string`, `parse_number`; dump, accessors | an error ends one function and its callers go on; no loop tests the length of the text | a document is read as what was written; every text ends, and nothing is read past it |
| periodicity (`BOPTest_PeriodicityCommands.cxx`, `BOPAlgo_MakePeriodic`) | one static maker: base shape, repeated shape, distances, a history edited in place | `makeperiodic`, `repeatshape`, `clearrepetitions`, `savehistory` | errors after the maker has been cleared; a history whose handle the session and saved names share | the repeated shape is a block; the session's history is about the shape that was named |
| locations and placement (`TopLoc_Location`, `TopoDS_Builder`, `TopoDS_Iterator`, `TopAbs`) | chains of datums that share tails; a location and an orientation in each handle | `Multiplied`, `Inverted`, `Located`, `Move`, `Compose`; `SetLocation`, `AddLocation`, `transform`, `orientation`, `invert`, `add` | shared tails; cached transformations; the order of factors | products and inverses are right and reduced; what is added or inverted stays where it was; other names do not move |
| command table (`Draw_Interpretor`) | callbacks by name | `Add`, `Remove`, `CallCommand` | unknown and replaced commands | the callback last registered is the one called |
| curves and surfaces (`DrawTrSurf`, `Draw::History`) | directories keyed by pointers | `Set`, `Get` | no strdup even in Set | as the directory of shapes |
| progress indicator | address of the indicator to stop | `Show`, `UserBreak` | none: the address is only given to an `Eval` that does nothing, so no caller can ask for a stop | - |
| classification (`classify.hpp`) | none | face, edge and point against face | tolerance cases | verdicts agree with each other |
| pairwise Boolean commands, options | `pPF`, fuzzy value and flags | `bop`, `bopcommon`, ... | refused `bop` keeps the pair before it | an operation uses the pair last given |
| OCCT algorithms, STEP/IGES, build scripts | - | - | third party, pure I/O | not modelled |

Interactions: every command reads and writes the directory; the Boolean session
takes its arguments from it and puts its results into it; results share TShapes
with their arguments, so the shape graph couples all names; the bridge reads
the directory and hands out pointers into the graph, which come back through
`pushModel`.

The hazards that follow from this are listed, each at its line and with the
properties that cover it, under "hazards" in `PROJECT.json`.

## 2. Modules

| module | models | abstract specification |
|---|---|---|
| `NamedShapes` | what `DBRep.hxx` promises of Set and Get | - |
| `ShapeDirectory` | `DBRep::shapes`, its key pointers and the C heap | implements `NamedShapes` |
| `FuseSession` | what the Boolean commands tell their user about results and history | - |
| `BooleanSession` | lists, pave filler, cells builder, history | implements `FuseSession` |
| `ShapeGraph` | TShapes, sub-shapes, Free flags, lifetimes | - |
| `References` | the addresses by which JavaScript recognises faces and edges, and what keeps them true | - |
| `PeriodicMaker` | the static periodicity maker, the histories and who holds them | - |
| `DataParser` | the JSON parser of `DATA::Load`, call by call | the documents the text was written from |
| `JsonTexts` | which texts write a document, and which let every token end: the hypotheses of two theorems | - |
| `Locations` | `TopLoc_Location` as chains of datums | - |
| `ShapePlacement` | what is seen where, when handles carry locations and orientations | implements `ShapeGraph` (compounds only) |
| `*Proofs` | theorems about the module of that name | |
| `MC*` | symmetry for TLC; the `.cfg` files hold the instances | |
| `MCShapeDirectoryProbe` | `ShapeDirectory` with a history variable, what was last set under each name | - |

### ShapeDirectory

`heap[c]` is the C string at address `c`, `Free` when malloc may hand it out.
`shapes` is the set of nodes of the `std::map`: a node has its key (an address),
the text its key had when the node was linked into the tree (`at`, its place),
and its shape.  A search compares texts *through the keys* (`Matches`,
`CstrCmp` of `Map.hxx`); a cell that was released may read as anything, and a
tree with a node out of place may miss what it holds (`InPlace`, `MayMiss`).
`Lookups` is `shapes[p]`: the nodes it may land on, or the node it inserts with
the caller's pointer as key.  `SetResults` and `GetResults` are `DBRep::Set`
(strdup first) and `DBRep::getShape`.

The actions are the classes of callers: `MakeShape`, `ReadShape`, `CopyShape`
are commands, whose argument strings `CallCommand` of `call.js` never releases
(`AfterCall`); `Interogate` and `WriteBrep` look a name up through a string that
is released when the call returns; `SetFromBuffer` is `pushModel` and STEP
import, which only Set.  Cells nothing refers to are put back (`Settle`):
an address the program has lost cannot be read again, so `Cell` bounds only
what is live at once (one key per name, and up to three strings in a call).

`last` records what the last set stored and the last read returned, so that a Set
that is lost does not look like a call that did nothing.  The refinement mapping `ViewOf`
takes the node *placed* at a name: what a search that works correctly finds.

That is no way to look at a directory with keys in released memory, where two
nodes may be placed at one name.  For it, `MCShapeDirectoryProbe` adds a history
variable to every action, `stored`: the shape last set under each name, whatever
became of the nodes.  `GetsReturnLastSet` then compares the answer of each Get with it.

### BooleanSession

Lists are sets of shapes (the builders drop repeated arguments), possibly with
the null shape, which is what `Get` returns for an unknown name.  `filler` is
the session's pave filler: its DS, the arguments the DS was made of (`of`), the
arguments last given (`args`) and whether its report holds an error.  `cells` is
the static cells builder with the DS it points to.  `result` is the shape the
last successful command named: what it was asked of, and the shapes cut against
one another in the DS it was built on.  `history` is the set of shapes whose
traces the session's history holds, or `NoHistory`, a null handle.

What the geometry finds is a choice: an operation may fail, `bcremoveint` may
or may not remove a boundary, a DS that was deleted may read as anything
(`Prepared`).  `Risks` names the situations in which the commands do *not* keep
their promise; a run chooses which of them its user may enter:

* `edit` - the lists are edited between bfillds and the build;
* `refill` - the cells builder is used after another bfillds or bclear;
* `failure` - it is used although its bcbuild failed;
* `toggle` - it is used after setfillhistory was changed;
* `unify` - `-u` is given where no boundary is removed.

`buildbop` is not modelled.

### ShapeGraph

`dir` maps names to TShapes, `kids`, `free` and `type` are a TShape's fields,
`held` the TShapes of the shapes whose pointers JavaScript has.  Reference
counting is `Settled`: after each command a TShape that cannot be reached from a
name or a pointer is destroyed.  `Fits` is the table of
`TopoDS_Builder::Add`, `Freeze` what Add does to its component before it looks
at the container.  `Make` stands for every command that computes a new shape:
it may use any living sub-shapes that fit.  `setflags n free` (`SetFree`) undoes
the freezing of a shape and of its faces, edges and vertices, and a later `add`
can then close a cycle.  `thawed` is a history variable: the TShapes that were
frozen and that setflags has freed.  The properties say how far the damage goes:
every cycle passes through a thawed TShape, and every other component is frozen
and only shrinks.

Orientation and location do not change the graph: they are the subject of
`ShapePlacement`, which in turn has compounds only, and which is proved to
implement this module.  Geometry is left out, and `myShapes` is a set, because a
component that was added twice shows in none of the properties.  TShapes can
form a cycle that no name reaches; reference counting would leak it, `Settled`
destroys it.  No command can tell the difference.  A command that walks the
sub-shapes of a shape on a cycle does not return in the code; in the model it does,
with what it would do to any shape.

### References

JavaScript recognises a face or an edge by its "stable reference", the address of
its TShape.  It collects references from `Interogate` (`answered`), from the
production history (`told`) and from `GetRef` (`given`), and nothing in the
program knows that it has them.  `at[a]` is the identity of the TShape at the
address `a`; identities are never used twice, addresses are (`Births` takes any
that is not alive).  `Kept` is what handles refer to: the names, the session's
history, a saved one, and the copies `Interogate` leaks; `Settled` destroys
everything else.  Reading an address that is dead, or that has a new tenant, is
what `RefsTrue` excludes.

Each kind of reference has a time for which it is claimed: for ever when it comes
from `Interogate`, until the session's history is replaced when it comes from the
production history, until its name is set again when it comes from `GetRef`.
That is the weakest promise JavaScript can work with, and the strongest the code
keeps: the reference of a name that is set again may be that of another shape.

The sub-shapes of a history's ends, and what static builders hold, live longer in
the program than in the model, which therefore reuses more addresses than the
program does.  `GetProductionHistory` is modelled with a history only, `GetRef`
with a shape only (a null handle is dereferenced, and the reference is 0).

### PeriodicMaker

`maker` is the static `BOPAlgo_MakePeriodic`, `own` the handle of its history.
`session` and `saved[n]` hold handles too, so what `hist[h]` says changes for all
of them at once.  A tile is a copy of the periodic shape, named by its offset in
periods; `tiles` is what `myRepeatedShape` was glued of, `reach` is
`myRepeatPeriod`.  `makeperiodic` has four ends (`Misused`: a bad argument was
found after `Clear`; `Refused`; `HalfSplit`; `MakeIdentical`), each with the state
the code leaves behind.  `repeatshape` takes a list of directions and numbers: a
*transit* is the maker with its history on the way through one call, and a call
that ends with a bad argument keeps the repetitions it has made
(`RepeatMisused`).  A repetition that cannot be glued (`Unglued`) has already
put its translations into the history (`Traced`): hence `warned` in
`SessionTellsOfResult`.  `OtherCommand` is any command that hands a new history
to the session.  A periodic direction of a maker without a shape or a history
is not repeated: the code dereferences a null handle there.

### DataParser

The calls that are open are `stack`, the containers being filled; `mode` says
what the innermost function is doing.  One action is one character read, or one
decision of a caller on the value it got back.  The values that an erroneous
text gives are the code's: a null, an empty array, or the object as far as it
was read, after which the caller goes on from wherever the offset was left.
A number's characters are collected first and converted afterwards by `std::stol`
or, with a point among them, `std::stod`: `Converted` is the longest numeral they
begin with, so that `7-7` is read as `7`.  `thrown` is a conversion that finds
none (`-`, `--7`).

What the parser does with numbers is in the model as it is in the code: after an
`e` one character is taken for a plus sign whatever it is, and after a minus one
more is skipped.  So `1e5` and `1e-5` throw, `1e-10` is read as `1`, and only
`1e+5` is right.  Also in the model, and left out of the run's texts because the
properties do not hold for them: strings without their closing quote (`ReadsText`: the
loop runs past the end), numbers that end the text (an error), negative
exponents, `\u` in a document (kept as six characters) and keys with escapes
(escaped twice).  Digits come in runs, a word is a character of its own;
`Chars` is the set of characters.

### JsonTexts

The theorems about the parser are about all texts that are *written*, or whose
tokens *end*, and `JsonTexts` says which these are, without the parser and
without recursion.  A text writes a value (`Writes`) when there is a set of nodes,
each a value with the places where it begins and ends, that holds the parts of
each of its nodes, one after another with the separators and blanks between them
(`Derivation`): a parse tree, as a set.  The tokens of a text end (`TokensEnd`)
when there is a set of positions, each with what one is in the middle of, that
contains the first character and whatever scanning goes on to from its elements
(`Scans`), and lies within the text.  `Scans` knows nothing of what is open, so
the structure of the text may be as wrong as it likes.

The grammar is JSON's with blanks anywhere between tokens, less what is known to be
read as something else (see `DataParser` above): a number is followed by a
closer or a blank, its exponent has a plus sign, keys need no escape.  Digits come
in runs, so that a number may begin with a zero.

### Locations

`at[s]` is the location of the shape `s`, a sequence with the head of the LISP
list first; every item has its datum, its power, and the transformation of the
chain that begins with it, computed by `Construct` as the code does.
`Multiplied` recurses into its operand and combines on its way back, `Inverted`
walks along it: each item is a step (`Combine`, `InvertItem`), between which the
properties look at the chain that is being built.  `fresh` says that the head of
the result is a node nobody else refers to, which is what `ToTail` must never
release.  Datums are compared by address and addresses are used again (`Used`).
Motions are any group with powers (`GroupAssumption`, `PowerAssumption`); the
instance is the six motions of a triangle, in which factors do not commute.
`reset` gives a shape a datum with the identity motion, so `IsIdentity` is false
of a shape whose location was "removed".

### ShapePlacement

A shape is a handle `[t, loc, ori]`; `kids[t]` are the handles a TShape stores.
`Stored` is what `TopoDS_Builder::Add` makes of a component, `Seen` what
`TopoDS_Iterator` shows of it; that the second undoes the first is the point of
`AddKeepsPlace` and `InvertKeepsPlaces`.  The commands are those of `DBRep.cxx`
(`compound`, `emptycopy`, `add`, `explode`, `orientation` and its kin,
`invert`), `copy`, `transform`, and the bridge's `SetLocation` and
`AddLocation`.  `add` keeps the freezing of its component when it throws
(`Add`).  A TShape that no name reaches is destroyed (`Settled`); the
commands that only place or turn a handle (`Turned`) destroy nothing.
Locations are a group here, which `Locations` justifies: a location is modelled
by its transformation.

## 3. Runs

| run | question | instance | states |
|---|---|---|---|
| `shape_directory` | is the pointer-keyed map the map from names, for a program that only interrogates names that exist? | 3 names, 2 shapes, 6 cells | about 150 with symmetry |
| `shape_directory_probe` | does a Get return what was last set, for one that interrogates an unknown name? (violation) | 2 names, 1 shape, 3 cells | - |
| `boolean_session` | do results and history keep the promise when no risk is taken? | 2 shapes and the null shape, 3 DS | about 812 000 |
| `boolean_session_refill`, `boolean_session_unify` | which promise breaks in these situations? (violations) | the same | - |
| `shape_graph` | do the invariants of the graph survive every command? | 2 names, 3 TShapes, types compound, shell, face | about 65 100 with symmetry |
| `references` | are references true, and comparable, for as long as JavaScript may use them? | 2 names, 3 addresses, 4 TShapes in all, at most 2 made at once | about 39 000 with symmetry |
| `periodic` | is the repeated shape a block, and the session's history about it? | 2 shapes, 2 directions, -2 and +1 repetitions, sides of at most 4, 1 saved name, 4 histories | about 42 700 with symmetry |
| `periodic_saved` | does a saved history stay as it was? (violation) | the same | - |
| `data_parser` | are documents read as written, and does every text end? | documents two levels deep, written with and without blanks, the nested ones and the arrays and objects of numbers also with one character mistyped, and some broken numbers and escapes | about 18 100 |
| `locations` | are products and inverses right, reduced and safe while they are built? | 2 shapes, 2 addresses, powers -2 to 2, two factors of at most 4 items together | about 845 000 with symmetry |
| `placement` | does everything stay where it was seen? | 2 names, 3 TShapes, 6 locations, FORWARD and REVERSED, two components given out | about 216 000 with symmetry |

Why the bounds are enough.  *Directory*: with three names one can be absent
while one is wrongly found and a third is being set; a call needs at most three
strings besides the keys, hence six cells.  *Session*: two shapes tell "one of
the arguments" from "all of them", which is all that results and histories are
compared by; at most two DS are referred to at once (filler's and builder's),
the third is the one being made.  *Graph*: a cycle, a freeze that is undone and
a component shared by two containers all need at most three TShapes, and as no
command has more than two arguments but `compound`, two names reach them, the
others being what is below; cycles through what setflags has freed do occur
(without the exemption of `thawed`, TLC finds `Acyclic` violated).  Compound
admits itself, so that cycles are possible at all; shell and face give the type
table something to refuse.  *References*: an address is reused as soon as one of
the four TShapes has died; two addresses tell a shape that was modified from what
it became, the third is that of a compound the history commands make.
*Periodic*: with +1 and -2 the block grows on both sides and is off centre;
four periods hold two repetitions in one direction; a third and fourth history
are needed when maker, session and saved name hold different ones.
*Parser*: errors differ by the container they happen in, the one around it,
and what follows; two levels and one wrong character have all of these.
*Locations*: a datum that cancels and comes back needs two addresses and three
items; four let two products meet.  *Placement*: two
components and three TShapes give a container of a container, or two components
of one, which is as deep as `Pieces` looks.  INTERNAL and EXTERNAL are left out of
that instance, which would not end in time with them; with `MaxKids = 1` and
`Oriented = {"INTERNAL"}` the same properties hold in 65 000 states.
In each case the theorems below remove the bound, except for what is only
model-checked.

`MCDataParser` also states, as assumptions that TLC evaluates before the run, that
the run's texts satisfy the hypotheses of the parser's theorems: every document
of the instance has a derivation for each of its texts (`DocumentsAreWritten`),
and the tokens of every text end, mistyped ones included (`TokensOfTextsEnd`).

Deadlock is checked in every run but `data_parser`, where `Load` returns: a
command can always be called.

Fairness is assumed in `DataParser` only, `WF_vars(Next)`: one thread runs the
parser and nothing interrupts it, so a step that can be taken is taken.
`ParseEnds` follows from `Progresses` and `ReadsText` together, both proved: each
step lowers a measure or moves on, and the text ends.

The violation runs show four disagreements of code and documentation, listed
with their lines under "findings": a lookup that keeps a released key, a cells
builder that outlives its DS, and `-u` without anything to unify, which leaves
the session with the history of an earlier result; and `savehistory`, which saves
the maker's handle and so a history that the next `makeperiodic` empties.

Every property has a mutant in `PROJECT.json`: a variant of one mapped
definition (the operators named there stand next to the definition they change)
under which TLC finds that property violated.

## 4. Proofs

All theorems hold for any sets of names, shapes, addresses, data structures and
TShapes, finite or not, and, of the parser, for texts and documents of any length
and depth.  Every invariant and every action property that a passing run checks is
also a theorem.  What each of them assumes:

| theorems | beyond the assumptions on the constants |
|---|---|
| `ShapeDirectoryProofs`, but for `TypeCorrect` and `KeysStayForEver` | `ProbeUnknown = FALSE` |
| `BooleanSessionProofs`: `ResultsAreIntersected` | `"edit" \notin Risks` |
| `BooleanSessionProofs`: `HistoryIsOfResult`, `SessionKeepsPromise` | `Risks = {}` |
| `DataParserProofs`: `TextIsNotOverrun` | the tokens of all texts end |
| `DataParserProofs`: `DocumentIsReadBack` | all documents' texts are written by the grammar |
| all others | nothing |

None of these can be weakened much: with any other value of the constant TLC finds
the property violated (with `ProbeUnknown`, with each risk alone), and
texts with an open string are read past their end.

`ShapeDirectoryProofs`.  `OneNodePerName` is not inductive: two nodes may be kept
apart only because their keys still read as the places they have.  The
invariant is the conjunction of types, `KeysIntact`, and "a place is held by at
most one node"; under it a lookup has exactly one outcome (it lands on the node at
the place, or inserts one where there was none), so Set and Get are those of
`NamedShapes`, which gives `DirectoryIsFaithful`.  `TypeCorrect` and
`KeysArePermanent` need no assumption: whatever a key has come to read as, its
node stays, and a lookup that lands on the wrong node still returns a shape of the
session (`LookupKeeps`, `GetKeeps`, `SetKeeps`).

`BooleanSessionProofs`.  Three invariants, each for the assumptions it needs.
`TypeOK` is inductive for any risks.  That results were intersected (`CutInv`)
survives every risk but one: `bbuild` combines the lists as they are now with a
data structure of the lists as they were, so lists that are edited in between
are enough to break it, while a dead data structure or a missed history is
not.  The full invariant says of the filler that a DS without errors was made of
the very arguments last given, of the cells builder that its parts were cut
and its traces are those of its parts, and of the result that what it was
asked of was cut.  `SessionKeepsPromise` maps each command to an action of
`FuseSession` or to a stutter; `HistoryIsOfResult` follows, since there only
`Make` stores a result that was asked for with history.  So the two runs that
refute `HistoryFollowsResult` show defects of the situations they enter, and of
nothing else.

`ShapeGraphProofs`.  Acyclicity alone is not inductive: an Add closes a cycle
unless its container is on top, and what says so is `ComponentsFrozen` - a
container that is free is a component of nothing, or has been thawed.  So nothing
has to be assumed of setflags: what it frees leaves the set that both properties
speak of, and a TShape that leaves it can only make them easier to keep.
The lemma on new tops (`TopChanges`) serves every action that builds
or extends a shape.  Nothing dangles because `Below` is closed under `kids`.

`ShapePlacementProofs`.  Every command settles on a directory, lists of
components and flags that are well formed, keep what could be reached, and have
frozen components (`EveryStep`); `OthersStay` and `TypeOK` follow from that.  `StoredIsSeen` is the algebra: with the laws of a group, what
is stored relative to a container is seen where it was.
`ImplementsShapeGraph` forgets places, orientations and the order and number of
components (`Tops`, `Edges`, `Types`) and finds in each command one of
`ShapeGraph`, or a stutter where a handle is only moved or turned; `SameReach`
says that both models destroy the same TShapes.  The mapping of `explode` needs
the graph to be acyclic (what is named is below the shape and not the shape), so
the induction takes ShapeGraph's invariant along: `StepMaps` gives a step of
`ShapeGraph`, and `NextKept` of `ShapeGraphProofs`, which is instantiated here
with its theorems, gives the invariant after it.  There is no setflags here, so
nothing is ever thawed (`thawed <- {}`), and what `ShapeGraph` says of cycles and
freezing holds without exemption; it is not stated a second time.  No run has the refinement as a
property, which would take it past its time; TLC checks it on the instance of
`placement` with `MaxKids = 1` in less than a minute.

`ReferencesProofs` (no assumption but `Gone \notin Shape`).  `RefsTrue` is not
inductive: it does not say why a TShape is still there.  `Anchored` does, for each
kind of reference: an interrogated one is pinned, one of the history is an end of
the history, one of a name is of that name.  With `OnePlace` (no TShape at two
addresses) and the types this is inductive; `StepKeeps` is the argument for every
command that keeps the anchors, `NamingSound` and `NamingKeeps` its form for the
commands that name a shape.

`PeriodicMakerProofs`.  A command may repeat twice, so the invariant is stated of
a transit: `Blocked` (the tiles are a box that holds the origin, each side as
long as `Width`; no tiles, no reach) and `Followed` (the trace covers the
tiles, and exactly them unless warned).  `SpreadBox` is the arithmetic: the
copies of a box, one width apart, are a box again.  `NowKept` carries both
over the commands that leave the maker's own history alone.

`DataParserProofs`.  `Progresses` needs little of the state: that the offset is a
natural number and the stack a sequence.  `SkipForward`, `Closes`, `Continues`
and `Opens` are the ways in which a step can go on.  For `TextIsNotOverrun`,
the set of positions from which scanning can go on is the invariant: wherever
the offset is left, by an error too, it is one of them.

For `DocumentIsReadBack` the invariant `DocumentIsRead` follows a chain of nodes
from the root to the one being read (`Nested`): each frame of the stack is
the beginning of the value of its node (`Filling`), and the mode and the offset
say how far the innermost one has got (`Reads`).  When the chain is empty, the
value is the document.  A value is finished only where its node ends; hence no
uniqueness of derivations has to be shown.  What `Dump`, a recursive function,
computes and where `Skip` ends is proved by induction on the length, with
`AllNaturals` in place of the library's induction theorem: a set of natural
numbers that holds 0 and all successors is Nat.  It is derived from facts about finite sets, takes a set and not an
operator, and so can be used by the provers.

`LocationsProofs`.  The properties speak of a finished product, so the invariant
says how far an unfinished one is (`Underway`): the transformation of the result
is the product of the left operand with what has been used of the right one
(`Builds`), or the inverse of what has been used (`Undoes`), and all chains are
typed, reduced and consistent in what they keep (`AllGood`).  The recursion of
the code is a sequence of steps here, which is why no induction over lists is
needed.  Only the laws of groups and powers are assumed.

Only model-checked: `ParseEnds`, since liveness is out of the prover's reach.
`HistoryFollowsResult` outside the situations of `FuseSession`'s promise and
`SavedHistoriesFixed` are refuted, not proved; so is `GetsReturnLastSet` for a
program that looks up unknown names.

## 5. Not modelled

Geometry and the kernel's algorithms (their outcomes are choices); import and
export formats; options that only steer geometry; build and packaging.  Most of
the repository is OCCT, third-party code that the program calls and does not own:
only the parts that keep state between commands, or that every command relies on
(`TopLoc`, `TopoDS`, the Boolean builders, `BOPAlgo_MakePeriodic`), are modelled.

Within the modelled parts:

* *directory*: the type filter of `Get`, which the code ignores;
* *graph and placement*: `TopoDS_Builder::Remove`, the flags besides Free,
  `explode` by type, `nexplode` with locations, transformations that scale or
  mirror or copy geometry, a null shape that is given a location;
* *locations*: `HashCode`, and `Powered` of a chain of several items;
* *periodicity*: the map of twins and `periodictwins`; `makeconnected` shares its
  history in the same way and is not modelled;
* *JSON*: the typed accessors, the pretty printer, integer overflow in `stol`;
* *bridge*: the block of argument pointers, the exchange variable, `GetRef` of a
  null shape;
* *session*: `buildbop`.

The command table, the directories of curves and surfaces, the progress
indicator, classification, and the pairwise Boolean commands are not modelled; the
list of components in `PROJECT.json` says why for each.

## 6. Plan

Models:

1. *Call memory*: the blocks of a call (`c_arr` is released once per argument).
2. *Pairwise operations and buildbop*: `pPF` and the static builder, as an
   extension of `BooleanSession`.
3. *Directories without strdup*: `DrawTrSurf`, `Draw::History`, as a variant of
   `ShapeDirectory`.
4. *makeconnected*, as a second user of histories in `PeriodicMaker`.

Proofs:

1. that the chains of `Locations` are a group up to `QuotientVanishes`, which
   `ShapePlacement` assumes of its locations;
2. `ParseEnds` for all texts, as far as it goes without liveness: a bound on
   the number of steps in terms of the text's length;
3. `References` over the graph of `ShapeGraph`, so that what a shape keeps
   alive is its sub-shapes and not only itself.
