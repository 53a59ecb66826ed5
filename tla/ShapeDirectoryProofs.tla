------------------------ MODULE ShapeDirectoryProofs ------------------------
(***************************************************************************)
(* For every set of names, shapes and addresses: as long as a string its   *)
(* caller releases is only used to look up a name that has an entry        *)
(* (ProbeUnknown = FALSE), the keys of DBRep::shapes stay intact and       *)
(* distinct, and the directory behaves as NamedShapes says.                *)
(*                                                                         *)
(* Sound, about a heap and a set of nodes, is the inductive invariant.     *)
(* The lemmas say how the helpers every action is made of (Alloc, Get,     *)
(* Set, Settle) keep it and what they do to the view of the directory.     *)
(* That types are kept and no key is ever dropped needs no such invariant, *)
(* nor the assumption: see the second part.                                *)
(***************************************************************************)
EXTENDS ShapeDirectory, TLAPS

Sound(h, ns) ==
  /\ h \in [Cell -> Name \cup {Free}]
  /\ ns \subseteq Node
  /\ InPlace(h, ns)
  /\ \A e, f \in ns : e.at = f.at => e = f

\* In a sound directory a search can only land on the node of that name.
LEMMA SoundHits ==
  ASSUME NEW h, NEW ns, Sound(h, ns), NEW n \in Name
  PROVE  Hits(h, ns, n) = Held(ns, n)
BY DirectoryAssumption DEF Sound, Hits, Held, Matches, InPlace, Node

\* The view of a name is the shape of its node.
LEMMA ViewAt ==
  ASSUME NEW h, NEW ns, Sound(h, ns), NEW e \in ns
  PROVE  ViewOf(ns)[e.at] = e.shape
<1>1. e \in Held(ns, e.at) /\ e.at \in Name
  BY DEF Held, Sound, Node
<1>2. (CHOOSE f \in Held(ns, e.at) : TRUE) \in Held(ns, e.at)
  BY <1>1
<1>3. \A f \in Held(ns, e.at) : f = e
  BY DEF Held, Sound
<1> QED
  BY <1>1, <1>2, <1>3 DEF ViewOf, ShapeOf

\* Two views are equal when they agree on every name.
LEMMA ViewsEqual ==
  ASSUME NEW F, NEW ns, F = [n \in Name |-> F[n]],
         \A n \in Name : F[n] = ViewOf(ns)[n]
  PROVE  F = ViewOf(ns)
BY DEF ViewOf

\* Writing fresh cells leaves every key as it was.
LEMMA AllocSound ==
  ASSUME NEW h, NEW ns, Sound(h, ns), NEW n \in Name, NEW C \in SUBSET Cell,
         \A c \in C : h[c] = Free
  PROVE  /\ Sound(Alloc(h, C, n), ns)
         /\ \A c \in C : Alloc(h, C, n)[c] = n
         /\ \A e \in ns : e.key \notin C
BY DirectoryAssumption DEF Sound, Alloc, InPlace, Node

\* Releasing a cell that is no key leaves every key as it was.
LEMMA ReleaseSound ==
  ASSUME NEW h, NEW ns, Sound(h, ns), NEW p \in Cell, \A e \in ns : e.key # p
  PROVE  Sound(Release(h, p), ns)
BY DEF Sound, Release, InPlace, Node

\* What a lookup through a string at p lands on, and what it leaves.
LEMMA LookupSound ==
  ASSUME NEW h, NEW ns, Sound(h, ns), NEW p \in Cell, h[p] \in Name,
         NEW l \in Lookups(h, ns, p)
  PROVE  /\ Sound(h, l.nodes)
         /\ l.at \in l.nodes
         /\ l.at.at = h[p]
         /\ l.nodes \in {ns, ns \cup {l.at}}
         /\ l.at \notin ns => l.at.key = p /\ l.at.shape = Null /\ Held(ns, h[p]) = {}
         /\ l.at \in ns => l.nodes = ns
<1>1. CASE \E e \in Hits(h, ns, h[p]) : l = [nodes |-> ns, at |-> e]
  <2>1. PICK e \in Hits(h, ns, h[p]) : l = [nodes |-> ns, at |-> e]
    BY <1>1
  <2>2. l.nodes = ns /\ l.at = e
    BY <2>1
  <2>3. e \in ns /\ e.at = h[p]
    BY SoundHits DEF Held
  <2> QED
    BY <2>2, <2>3
<1>2. CASE \E e \in Inserted(h, ns, p) : l = [nodes |-> ns \cup {e}, at |-> e]
  <2>1. PICK e \in Inserted(h, ns, p) : l = [nodes |-> ns \cup {e}, at |-> e]
    BY <1>2
  <2>2. l.nodes = ns \cup {e} /\ l.at = e
    BY <2>1
  <2>3. e = [key |-> p, at |-> h[p], shape |-> Null] /\ MayMiss(h, ns, h[p])
    BY <2>1 DEF Inserted
  <2>4. Held(ns, h[p]) = {}
    BY <2>3, SoundHits DEF MayMiss, Sound
  <2>5. e \in Node /\ e.at = h[p] /\ e.key = p /\ e.shape = Null
    BY <2>3 DEF Node
  <2>6. \A f \in ns : f.at # e.at
    BY <2>4, <2>5 DEF Held
  <2>7. Sound(h, ns \cup {e})
    BY <2>5, <2>6 DEF Sound, InPlace
  <2>8. e \notin ns
    BY <2>6
  <2> QED
    BY <2>2, <2>4, <2>5, <2>7, <2>8
<1> QED
  BY <1>1, <1>2 DEF Lookups

\* A Get that finds its name changes nothing; one that misses adds a null node
\* under that name; both return what the view holds and leave the view alone.
LEMMA GetSound ==
  ASSUME NEW h, NEW ns, Sound(h, ns), NEW p \in Cell, h[p] \in Name,
         NEW g \in GetResults(h, ns, p)
  PROVE  /\ Sound(h, g.nodes)
         /\ g.shape = ViewOf(ns)[h[p]]
         /\ g.shape \in Shape \cup {Null}
         /\ ViewOf(g.nodes) = ViewOf(ns)
         /\ Held(ns, h[p]) # {} => g.nodes = ns
<1>1. PICK l \in Lookups(h, ns, p) : g = [nodes |-> l.nodes, shape |-> l.at.shape]
  BY DEF GetResults
<1>2. g.nodes = l.nodes /\ g.shape = l.at.shape
  BY <1>1
<1>3. Sound(h, l.nodes) /\ l.at \in l.nodes /\ l.at.at = h[p]
  BY LookupSound
<1>4. CASE l.at \in ns
  <2>1. l.nodes = ns
    BY <1>4, LookupSound
  <2>2. ViewOf(ns)[h[p]] = l.at.shape
    BY <1>3, <1>4, ViewAt
  <2>3. l.at.shape \in Shape \cup {Null}
    BY <1>4 DEF Sound, Node
  <2> QED
    BY <1>2, <1>3, <2>1, <2>2, <2>3
<1>5. CASE l.at \notin ns
  <2>1. l.at.shape = Null /\ Held(ns, h[p]) = {} /\ l.nodes = ns \cup {l.at}
    BY <1>3, <1>5, LookupSound
  <2>2. ViewOf(ns)[h[p]] = Null
    BY <2>1 DEF ViewOf, ShapeOf
  <2>3. ViewOf(l.nodes)[h[p]] = Null
    BY <1>3, <2>1, ViewAt
  <2>4. ASSUME NEW n \in Name, n # h[p]
        PROVE  ViewOf(l.nodes)[n] = ViewOf(ns)[n]
    <3>1. Held(l.nodes, n) = Held(ns, n)
      BY <1>3, <2>1, <2>4 DEF Held
    <3> QED
      BY <3>1 DEF ViewOf
  <2>5. ViewOf(l.nodes) = ViewOf(ns)
    BY <2>2, <2>3, <2>4, ViewsEqual DEF ViewOf
  <2> QED
    BY <1>2, <1>3, <2>1, <2>2, <2>5
<1> QED
  BY <1>4, <1>5

\* A Set through a strdup of the name changes the view of that name only.
LEMMA SetSound ==
  ASSUME NEW h, NEW ns, Sound(h, ns), NEW q \in Cell, h[q] \in Name,
         NEW s \in Shape, NEW r \in SetResults(h, ns, q, s)
  PROVE  /\ Sound(h, r)
         /\ ViewOf(r) = [ViewOf(ns) EXCEPT ![h[q]] = s]
         /\ \A e \in r : e.key = q \/ \E f \in ns : f.key = e.key
<1>1. PICK l \in Lookups(h, ns, q) :
           r = (l.nodes \ {l.at}) \cup {[l.at EXCEPT !.shape = s]}
  BY DEF SetResults
<1>2. /\ Sound(h, l.nodes) /\ l.at \in l.nodes /\ l.at.at = h[q]
      /\ l.nodes \in {ns, ns \cup {l.at}}
  BY LookupSound
<1> DEFINE e == [l.at EXCEPT !.shape = s]
<1>3. e \in Node /\ e.at = h[q] /\ e.key = l.at.key /\ e.shape = s
  BY <1>2 DEF Sound, Node
<1>4. \A f \in l.nodes \ {l.at} : f.at # h[q]
  BY <1>2 DEF Sound
<1>5. Sound(h, r)
  <2>1. r \subseteq Node
    BY <1>1, <1>2, <1>3 DEF Sound
  <2>2. InPlace(h, r)
    <3>1. h[e.key] = e.at
      BY <1>2, <1>3 DEF Sound, InPlace
    <3>2. \A f \in l.nodes : h[f.key] = f.at
      BY <1>2 DEF Sound, InPlace
    <3>3. \A f \in r : f = e \/ f \in l.nodes
      BY <1>1
    <3> HIDE DEF e
    <3> QED
      BY <3>1, <3>2, <3>3 DEF InPlace
  <2>3. ASSUME NEW f \in r, NEW g \in r, f.at = g.at
        PROVE  f = g
    BY <1>1, <1>2, <1>3, <1>4, <2>3 DEF Sound
  <2> QED
    BY <2>1, <2>2, <2>3 DEF Sound
<1>6. ViewOf(r)[h[q]] = s
  <2>1. e \in r
    BY <1>1
  <2> QED
    BY <1>3, <1>5, <2>1, ViewAt
<1>7. ASSUME NEW n \in Name, n # h[q]
      PROVE  ViewOf(r)[n] = ViewOf(ns)[n]
  <2>1. Held(r, n) = Held(ns, n)
    BY <1>1, <1>2, <1>3, <1>7 DEF Held
  <2> QED
    BY <2>1 DEF ViewOf
<1>8. ViewOf(r) = [ViewOf(ns) EXCEPT ![h[q]] = s]
  BY <1>6, <1>7, ViewsEqual DEF ViewOf
<1>9. \A f \in r : f.key = q \/ \E g \in ns : g.key = f.key
  <2>1. \A f \in l.nodes : f.key = q \/ f \in ns
    BY <1>2, LookupSound
  <2>2. \A f \in r : f.key = e.key \/ f \in l.nodes
    BY <1>1
  <2>3. l.at.key = q \/ l.at \in ns
    BY <1>2, <2>1
  <2> HIDE DEF e
  <2> QED
    BY <1>3, <2>1, <2>2, <2>3
<1> QED
  BY <1>5, <1>8, <1>9

\* Forgetting what no node refers to keeps a directory sound.
LEMMA SettleSound ==
  ASSUME NEW h, NEW ns, Sound(h, ns)
  PROVE  Sound(Settle(h, ns), ns)
BY DEF Sound, Settle, InPlace, Node
-----------------------------------------------------------------------------
IInv ==
  /\ Sound(heap, shapes)
  /\ last \in [name : Name, shape : Shape \cup {Null}]

LEMMA InitInv == Init => IInv
<1> SUFFICES ASSUME Init PROVE IInv
  OBVIOUS
<1>1. Sound(heap, shapes)
  BY DEF Init, Sound, InPlace
<1> QED
  BY <1>1 DEF Init, IInv

\* What each operation makes of a sound directory, in terms of its view.
LEMMA MakeShapeStep ==
  ASSUME IInv, NEW n \in Name, NEW s \in Shape, MakeShape(n, s)
  PROVE  IInv' /\ Promise!Set(n, s)
<1>1. PICK p \in FreeCells, q \in FreeCells :
        /\ p # q
        /\ LET h == Alloc(heap, {p, q}, n)
           IN  /\ shapes' \in SetResults(h, shapes, q, s)
               /\ heap' = Settle(AfterCall(h, p), shapes')
        /\ last' = [name |-> n, shape |-> s]
  BY DEF MakeShape
<1> DEFINE h == Alloc(heap, {p, q}, n)
<1>2. Sound(h, shapes) /\ q \in Cell /\ h[q] = n
  <2>1. {p, q} \in SUBSET Cell /\ \A c \in {p, q} : heap[c] = Free
    BY DEF FreeCells
  <2> QED
    BY <2>1, AllocSound DEF IInv
<1>3. shapes' \in SetResults(h, shapes, q, s) /\ heap' = Settle(h, shapes')
  BY <1>1 DEF AfterCall
<1> HIDE DEF h
<1>4. Sound(h, shapes') /\ ViewOf(shapes') = [ViewOf(shapes) EXCEPT ![n] = s]
  BY <1>2, <1>3, SetSound
<1>5. Sound(heap', shapes')
  BY <1>3, <1>4, SettleSound
<1> QED
  BY <1>1, <1>4, <1>5 DEF IInv, Promise!Set

LEMMA SetFromBufferStep ==
  ASSUME IInv, NEW n \in Name, NEW s \in Shape, SetFromBuffer(n, s)
  PROVE  IInv' /\ Promise!Set(n, s)
<1>1. PICK p \in FreeCells, q \in FreeCells :
        /\ p # q
        /\ LET h == Alloc(heap, {p, q}, n)
           IN  /\ shapes' \in SetResults(h, shapes, q, s)
               /\ heap' = Settle(Release(h, p), shapes')
        /\ last' = [name |-> n, shape |-> s]
  BY DEF SetFromBuffer
<1> DEFINE h == Alloc(heap, {p, q}, n)
<1>2. Sound(h, shapes) /\ q \in Cell /\ h[q] = n /\ \A e \in shapes : e.key # p
  <2>1. {p, q} \in SUBSET Cell /\ \A c \in {p, q} : heap[c] = Free
    BY DEF FreeCells
  <2> QED
    BY <2>1, AllocSound DEF IInv
<1>3. shapes' \in SetResults(h, shapes, q, s) /\ heap' = Settle(Release(h, p), shapes')
  BY <1>1
<1> HIDE DEF h
<1>4. /\ Sound(h, shapes') /\ ViewOf(shapes') = [ViewOf(shapes) EXCEPT ![n] = s]
      /\ \A e \in shapes' : e.key = q \/ \E f \in shapes : f.key = e.key
  BY <1>2, <1>3, SetSound
<1>5. Sound(Release(h, p), shapes')
  BY <1>1, <1>2, <1>4, ReleaseSound DEF FreeCells
<1>6. Sound(heap', shapes')
  BY <1>3, <1>5, SettleSound
<1> QED
  BY <1>1, <1>4, <1>6 DEF IInv, Promise!Set

LEMMA ReadShapeStep ==
  ASSUME IInv, NEW n \in Name, ReadShape(n)
  PROVE  IInv' /\ Promise!Get(n)
<1>1. PICK p \in FreeCells :
        LET h == Alloc(heap, {p}, n)
        IN  \E g \in GetResults(h, shapes, p) :
              /\ shapes' = g.nodes
              /\ last' = [name |-> n, shape |-> g.shape]
              /\ heap' = Settle(AfterCall(h, p), shapes')
  BY DEF ReadShape
<1> DEFINE h == Alloc(heap, {p}, n)
<1>2. PICK g \in GetResults(h, shapes, p) :
        /\ shapes' = g.nodes
        /\ last' = [name |-> n, shape |-> g.shape]
        /\ heap' = Settle(h, shapes')
  BY <1>1 DEF AfterCall
<1>3. Sound(h, shapes) /\ p \in Cell /\ h[p] = n
  <2>1. {p} \in SUBSET Cell /\ \A c \in {p} : heap[c] = Free
    BY DEF FreeCells
  <2> QED
    BY <2>1, AllocSound DEF IInv
<1> HIDE DEF h
<1>4. /\ Sound(h, shapes') /\ ViewOf(shapes') = ViewOf(shapes)
      /\ g.shape = ViewOf(shapes)[n] /\ g.shape \in Shape \cup {Null}
  BY <1>2, <1>3, GetSound
<1>5. Sound(heap', shapes')
  BY <1>2, <1>4, SettleSound
<1> QED
  BY <1>2, <1>4, <1>5 DEF IInv, Promise!Get

\* The one place the protocol is needed: a name that has an entry is found,
\* so the pointer that is about to dangle has not become a key.
LEMMA ReadTemporaryStep ==
  ASSUME IInv, NEW n \in Name, Known(n), NEW p \in FreeCells, ReadTemporary(n, p)
  PROVE  IInv' /\ Promise!Get(n)
<1> DEFINE h == Alloc(heap, {p}, n)
<1>1. PICK g \in GetResults(h, shapes, p) :
        /\ shapes' = g.nodes
        /\ last' = [name |-> n, shape |-> g.shape]
        /\ heap' = Settle(Release(h, p), shapes')
  BY DEF ReadTemporary
<1>2. Sound(h, shapes) /\ p \in Cell /\ h[p] = n
  <2>1. {p} \in SUBSET Cell /\ \A c \in {p} : heap[c] = Free
    BY DEF FreeCells
  <2> QED
    BY <2>1, AllocSound DEF IInv
<1>3. Held(shapes, n) # {}
  BY DEF Known, Held, IInv, Sound, InPlace
<1>4. Release(h, p) = heap
  BY DEF FreeCells, IInv, Sound, Release, Alloc
<1> HIDE DEF h
<1>5. /\ shapes' = shapes
      /\ g.shape = ViewOf(shapes)[n] /\ g.shape \in Shape \cup {Null}
  BY <1>1, <1>2, <1>3, GetSound
<1>6. Sound(heap', shapes')
  BY <1>1, <1>4, <1>5, SettleSound DEF IInv
<1> QED
  BY <1>1, <1>5, <1>6 DEF IInv, Promise!Get

LEMMA CopyShapeStep ==
  ASSUME IInv, NEW a \in Name, NEW b \in Name, CopyShape(a, b)
  PROVE  IInv' /\ Promise!Copy(a, b)
<1>1. PICK p \in FreeCells, pb \in FreeCells, q \in FreeCells :
        /\ p # pb /\ p # q /\ pb # q
        /\ LET h == Alloc(Alloc(heap, {p}, a), {pb, q}, b)
           IN  \E g \in GetResults(h, shapes, p) :
                 /\ shapes' \in IF g.shape = Null THEN {g.nodes}
                                ELSE SetResults(h, g.nodes, q, g.shape)
                 /\ heap' = Settle(AfterCall(h, p), shapes')
                 /\ last' = IF g.shape = Null THEN [name |-> a, shape |-> Null]
                            ELSE [name |-> b, shape |-> g.shape]
  BY DEF CopyShape
<1> DEFINE h == Alloc(Alloc(heap, {p}, a), {pb, q}, b)
<1>2. PICK g \in GetResults(h, shapes, p) :
        /\ shapes' \in IF g.shape = Null THEN {g.nodes}
                       ELSE SetResults(h, g.nodes, q, g.shape)
        /\ heap' = Settle(h, shapes')
        /\ last' = IF g.shape = Null THEN [name |-> a, shape |-> Null]
                   ELSE [name |-> b, shape |-> g.shape]
  BY <1>1 DEF AfterCall
<1>3. Sound(Alloc(heap, {p}, a), shapes) /\ Alloc(heap, {p}, a)[p] = a
  <2>1. {p} \in SUBSET Cell /\ \A c \in {p} : heap[c] = Free
    BY DEF FreeCells
  <2> QED
    BY <2>1, AllocSound DEF IInv
<1>4. Sound(h, shapes) /\ p \in Cell /\ q \in Cell /\ h[p] = a /\ h[q] = b
  <2>1. {pb, q} \in SUBSET Cell /\ \A c \in {pb, q} : Alloc(heap, {p}, a)[c] = Free
    BY <1>1 DEF FreeCells, Alloc
  <2>2. Sound(h, shapes) /\ h[q] = b
    BY <1>3, <2>1, AllocSound
  <2>3. h[p] = Alloc(heap, {p}, a)[p]
    BY <1>1 DEF FreeCells, Alloc
  <2> QED
    BY <1>3, <2>2, <2>3 DEF FreeCells
<1> HIDE DEF h
<1>5. /\ Sound(h, g.nodes) /\ ViewOf(g.nodes) = ViewOf(shapes)
      /\ g.shape = ViewOf(shapes)[a] /\ g.shape \in Shape \cup {Null}
  BY <1>4, GetSound
<1>6. CASE g.shape = Null
  BY <1>1, <1>2, <1>5, <1>6, SettleSound DEF IInv, Promise!Copy
<1>7. CASE g.shape # Null
  <2>1. g.shape \in Shape /\ shapes' \in SetResults(h, g.nodes, q, g.shape)
    BY <1>2, <1>5, <1>7
  <2>2. Sound(h, shapes') /\ ViewOf(shapes') = [ViewOf(shapes) EXCEPT ![b] = g.shape]
    BY <1>4, <1>5, <2>1, SetSound
  <2> QED
    BY <1>1, <1>2, <1>5, <1>7, <2>2, SettleSound DEF IInv, Promise!Copy
<1> QED
  BY <1>6, <1>7
-----------------------------------------------------------------------------
\* Every step keeps the invariant and is a step of NamedShapes, or stutters.
LEMMA NextStep ==
  ASSUME ProbeUnknown = FALSE, IInv, [Next]_vars
  PROVE  IInv' /\ [Promise!Next]_(Promise!vars)
<1>1. ASSUME NEW n \in Name, NEW s \in Shape, MakeShape(n, s) \/ SetFromBuffer(n, s)
      PROVE  IInv' /\ Promise!Next
  BY <1>1, MakeShapeStep, SetFromBufferStep DEF Promise!Next
<1>2. ASSUME NEW n \in Name, ReadShape(n) \/ Interogate(n) \/ WriteBrep(n)
      PROVE  IInv' /\ Promise!Next
  BY <1>2, ReadShapeStep, ReadTemporaryStep
  DEF Interogate, WriteBrep, Promise!Next
<1>3. ASSUME NEW a \in Name, NEW b \in Name, CopyShape(a, b)
      PROVE  IInv' /\ Promise!Next
  BY <1>3, CopyShapeStep DEF Promise!Next
<1>4. CASE UNCHANGED vars
  BY <1>4 DEF vars, IInv, Promise!vars
<1> QED
  BY <1>1, <1>2, <1>3, <1>4 DEF Next

LEMMA Invariance ==
  ASSUME ProbeUnknown = FALSE
  PROVE  Spec => []IInv
<1>1. IInv /\ [Next]_vars => IInv'
  BY NextStep
<1> QED
  BY InitInv, <1>1, PTL DEF Spec

(***************************************************************************)
(* No call releases or reuses a string that a key of DBRep::shapes points  *)
(* at.                                                                     *)
(***************************************************************************)
THEOREM KeysStayIntact ==
  ASSUME ProbeUnknown = FALSE
  PROVE  Spec => []KeysIntact
<1>1. IInv => KeysIntact
  BY DEF IInv, Sound, InPlace, KeysIntact
<1> QED
  BY Invariance, <1>1, PTL

(***************************************************************************)
(* Set and Get never link two nodes for one name.                          *)
(***************************************************************************)
THEOREM NodesStayUnique ==
  ASSUME ProbeUnknown = FALSE
  PROVE  Spec => []OneNodePerName
<1>1. IInv => OneNodePerName
  BY DEF IInv, Sound, InPlace, OneNodePerName
<1> QED
  BY Invariance, <1>1, PTL

(***************************************************************************)
(* The map of C strings implements the directory DBRep.hxx promises.       *)
(***************************************************************************)
THEOREM DirectoryIsFaithful ==
  ASSUME ProbeUnknown = FALSE
  PROVE  Spec => ImplementsNamedShapes
<1>1. Init => Promise!Init
  BY DEF Init, Promise!Init, ViewOf, ShapeOf, Held
<1>2. IInv /\ [Next]_vars => [Promise!Next]_(Promise!vars)
  BY NextStep
<1> QED
  BY Invariance, <1>1, <1>2, PTL DEF Spec, Promise!Spec, ImplementsNamedShapes
-----------------------------------------------------------------------------
\* What every outcome of a lookup, a Get and a Set keeps of the nodes it was
\* given, sound or not.
KeysKept(ns, ms) == \A e \in ns : \E f \in ms : f.key = e.key /\ f.at = e.at

LEMMA LookupKeeps ==
  ASSUME NEW h, NEW ns, ns \subseteq Node, NEW p \in Cell, h[p] \in Name,
         NEW l \in Lookups(h, ns, p)
  PROVE  ns \subseteq l.nodes /\ l.at \in l.nodes /\ l.nodes \subseteq Node
<1>1. CASE \E e \in Hits(h, ns, h[p]) : l = [nodes |-> ns, at |-> e]
  BY <1>1 DEF Hits
<1>2. CASE \E e \in Inserted(h, ns, p) : l = [nodes |-> ns \cup {e}, at |-> e]
  <2>1. PICK e \in Inserted(h, ns, p) : l = [nodes |-> ns \cup {e}, at |-> e]
    BY <1>2
  <2>2. e \in Node
    BY <2>1 DEF Inserted, Node
  <2> QED
    BY <2>1, <2>2
<1> QED
  BY <1>1, <1>2 DEF Lookups

LEMMA GetKeeps ==
  ASSUME NEW h, NEW ns, ns \subseteq Node, NEW p \in Cell, h[p] \in Name,
         NEW g \in GetResults(h, ns, p)
  PROVE  ns \subseteq g.nodes /\ g.nodes \subseteq Node /\ g.shape \in Shape \cup {Null}
<1>1. PICK l \in Lookups(h, ns, p) : g = [nodes |-> l.nodes, shape |-> l.at.shape]
  BY DEF GetResults
<1>2. ns \subseteq l.nodes /\ l.at \in l.nodes /\ l.nodes \subseteq Node
  BY LookupKeeps
<1>3. l.at.shape \in Shape \cup {Null}
  BY <1>2 DEF Node
<1> QED
  BY <1>1, <1>2, <1>3

LEMMA SetKeeps ==
  ASSUME NEW h, NEW ns, ns \subseteq Node, NEW q \in Cell, h[q] \in Name,
         NEW s \in Shape, NEW ms \in SetResults(h, ns, q, s)
  PROVE  KeysKept(ns, ms) /\ ms \subseteq Node
<1>1. PICK l \in Lookups(h, ns, q) :
        ms = (l.nodes \ {l.at}) \cup {[l.at EXCEPT !.shape = s]}
  BY DEF SetResults
<1>2. ns \subseteq l.nodes /\ l.at \in l.nodes /\ l.nodes \subseteq Node
  BY LookupKeeps
<1> DEFINE f == [l.at EXCEPT !.shape = s]
<1>3. f \in Node /\ f.key = l.at.key /\ f.at = l.at.at
  BY <1>2 DEF Node
<1> HIDE DEF f
<1>4. ms = (l.nodes \ {l.at}) \cup {f}
  BY <1>1 DEF f
<1>5. ms \subseteq Node
  BY <1>2, <1>3, <1>4
<1>6. KeysKept(ns, ms)
  <2>1. ASSUME NEW e \in ns
        PROVE  \E g \in ms : g.key = e.key /\ g.at = e.at
    BY <1>2, <1>3, <1>4
  <2> QED
    BY <2>1 DEF KeysKept
<1> QED
  BY <1>5, <1>6

LEMMA StepKeeps ==
  ASSUME shapes \subseteq Node, Next
  PROVE  KeysKept(shapes, shapes') /\ shapes' \subseteq Node
<1>1. \A c \in FreeCells : c \in Cell
  BY DEF FreeCells
<1>2. ASSUME NEW n \in Name, NEW s \in Shape, MakeShape(n, s) \/ SetFromBuffer(n, s)
      PROVE  KeysKept(shapes, shapes') /\ shapes' \subseteq Node
  <2>1. PICK p \in FreeCells, q \in FreeCells :
          shapes' \in SetResults(Alloc(heap, {p, q}, n), shapes, q, s)
    BY <1>2 DEF MakeShape, SetFromBuffer
  <2>2. q \in Cell /\ Alloc(heap, {p, q}, n)[q] \in Name
    BY <1>1 DEF Alloc
  <2> QED
    BY <2>1, <2>2, SetKeeps
<1>3. ASSUME NEW n \in Name, ReadShape(n) \/ Interogate(n) \/ WriteBrep(n)
      PROVE  KeysKept(shapes, shapes') /\ shapes' \subseteq Node
  <2>1. PICK p \in FreeCells :
          \E g \in GetResults(Alloc(heap, {p}, n), shapes, p) : shapes' = g.nodes
    BY <1>3 DEF ReadShape, Interogate, WriteBrep, ReadTemporary
  <2>2. p \in Cell /\ Alloc(heap, {p}, n)[p] \in Name
    BY <1>1 DEF Alloc
  <2>3. shapes \subseteq shapes' /\ shapes' \subseteq Node
    BY <2>1, <2>2, GetKeeps
  <2> QED
    BY <2>3 DEF KeysKept
<1>4. ASSUME NEW a \in Name, NEW b \in Name, CopyShape(a, b)
      PROVE  KeysKept(shapes, shapes') /\ shapes' \subseteq Node
  <2>1. PICK p \in FreeCells, pb \in FreeCells, q \in FreeCells :
          /\ p # q /\ p # pb
          /\ LET h == Alloc(Alloc(heap, {p}, a), {pb, q}, b)
             IN  \E g \in GetResults(h, shapes, p) :
                   shapes' \in IF g.shape = Null THEN {g.nodes}
                               ELSE SetResults(h, g.nodes, q, g.shape)
    BY <1>4 DEF CopyShape
  <2> DEFINE h == Alloc(Alloc(heap, {p}, a), {pb, q}, b)
  <2>2. p \in Cell /\ q \in Cell /\ h[p] = a /\ h[q] = b
    BY <1>1, <2>1 DEF Alloc
  <2> HIDE DEF h
  <2>3. PICK g \in GetResults(h, shapes, p) :
          shapes' \in IF g.shape = Null THEN {g.nodes} ELSE SetResults(h, g.nodes, q, g.shape)
    BY <2>1 DEF h
  <2>4. shapes \subseteq g.nodes /\ g.nodes \subseteq Node /\ g.shape \in Shape \cup {Null}
    BY <2>2, GetKeeps
  <2>5. CASE g.shape = Null
    BY <2>3, <2>4, <2>5 DEF KeysKept
  <2>6. CASE g.shape # Null
    <3>1. KeysKept(g.nodes, shapes') /\ shapes' \subseteq Node
      BY <2>2, <2>3, <2>4, <2>6, SetKeeps
    <3> QED
      BY <2>4, <3>1 DEF KeysKept
  <2> QED
    BY <2>5, <2>6
<1> QED
  BY <1>2, <1>3, <1>4 DEF Next

(***************************************************************************)
(* Every key that was ever linked into the tree stays, the dangling ones   *)
(* too: this holds whatever names temporaries look up.                     *)
(***************************************************************************)
THEOREM KeysStayForEver == Spec => KeysArePermanent
<1> DEFINE A == \A e \in shapes : \E f \in shapes' : f.key = e.key /\ f.at = e.at
<1>1. Init => shapes \subseteq Node
  BY DEF Init
<1>2. shapes \subseteq Node /\ [Next]_vars => (shapes \subseteq Node)'
  BY StepKeeps DEF vars
<1>3. shapes \subseteq Node /\ [Next]_vars => [A]_vars
  BY StepKeeps DEF KeysKept
<1> QED
  BY <1>1, <1>2, <1>3, PTL DEF Spec, KeysArePermanent
-----------------------------------------------------------------------------
\* What a C string's life is made of keeps the type of the heap.
Heaps == [Cell -> Name \cup {Free}]

LEMMA AllocTyped ==
  ASSUME NEW h \in Heaps, NEW C, NEW n \in Name
  PROVE  Alloc(h, C, n) \in Heaps
BY DEF Alloc, Heaps

LEMMA ReleaseTyped ==
  ASSUME NEW h \in Heaps, NEW p
  PROVE  Release(h, p) \in Heaps
BY DEF Release, Heaps

LEMMA SettleTyped ==
  ASSUME NEW h \in Heaps, NEW ns
  PROVE  Settle(h, ns) \in Heaps
BY DEF Settle, Heaps

\* The heap and the shape a call returns keep their types in every step.
LEMMA StepTyped ==
  ASSUME TypeOK, Next
  PROVE  heap' \in Heaps /\ last' \in [name : Name, shape : Shape \cup {Null}]
<1>1. heap \in Heaps /\ shapes \subseteq Node /\ \A c \in FreeCells : c \in Cell
  BY DEF TypeOK, Heaps, FreeCells
<1> USE DEF AfterCall
<1>2. ASSUME NEW n \in Name, NEW s \in Shape, MakeShape(n, s) \/ SetFromBuffer(n, s)
      PROVE  heap' \in Heaps /\ last' \in [name : Name, shape : Shape \cup {Null}]
  <2>1. PICK p \in FreeCells, q \in FreeCells :
          LET h == Alloc(heap, {p, q}, n)
          IN  heap' = Settle(h, shapes') \/ heap' = Settle(Release(h, p), shapes')
    BY <1>2 DEF MakeShape, SetFromBuffer
  <2>2. Alloc(heap, {p, q}, n) \in Heaps
    BY <1>1, AllocTyped
  <2>3. heap' \in Heaps
    BY <2>1, <2>2, ReleaseTyped, SettleTyped
  <2>4. last' = [name |-> n, shape |-> s]
    BY <1>2 DEF MakeShape, SetFromBuffer
  <2> QED
    BY <2>3, <2>4
<1>3. ASSUME NEW n \in Name, ReadShape(n) \/ Interogate(n) \/ WriteBrep(n)
      PROVE  heap' \in Heaps /\ last' \in [name : Name, shape : Shape \cup {Null}]
  <2>1. PICK p \in FreeCells :
          \E g \in GetResults(Alloc(heap, {p}, n), shapes, p) :
            /\ last' = [name |-> n, shape |-> g.shape]
            /\ \/ heap' = Settle(Alloc(heap, {p}, n), shapes')
               \/ heap' = Settle(Release(Alloc(heap, {p}, n), p), shapes')
    BY <1>3 DEF ReadShape, Interogate, WriteBrep, ReadTemporary
  <2>2. Alloc(heap, {p}, n) \in Heaps
    BY <1>1, AllocTyped
  <2>3. heap' \in Heaps
    BY <2>1, <2>2, ReleaseTyped, SettleTyped
  <2>4. p \in Cell /\ Alloc(heap, {p}, n)[p] \in Name
    BY <1>1 DEF Alloc
  <2>5. last' \in [name : Name, shape : Shape \cup {Null}]
    BY <1>1, <2>1, <2>4, GetKeeps
  <2> QED
    BY <2>3, <2>5
<1>4. ASSUME NEW a \in Name, NEW b \in Name, CopyShape(a, b)
      PROVE  heap' \in Heaps /\ last' \in [name : Name, shape : Shape \cup {Null}]
  <2>1. PICK p \in FreeCells, pb \in FreeCells, q \in FreeCells :
          /\ p # q /\ p # pb
          /\ LET h == Alloc(Alloc(heap, {p}, a), {pb, q}, b)
             IN  \E g \in GetResults(h, shapes, p) :
                   /\ heap' = Settle(h, shapes')
                   /\ last' = IF g.shape = Null THEN [name |-> a, shape |-> Null]
                              ELSE [name |-> b, shape |-> g.shape]
    BY <1>4 DEF CopyShape
  <2> DEFINE h == Alloc(Alloc(heap, {p}, a), {pb, q}, b)
  <2>2. h \in Heaps
    BY <1>1, AllocTyped
  <2>3. p \in Cell /\ h[p] = a
    BY <1>1, <2>1 DEF Alloc
  <2> HIDE DEF h
  <2>4. PICK g \in GetResults(h, shapes, p) :
          /\ heap' = Settle(h, shapes')
          /\ last' = IF g.shape = Null THEN [name |-> a, shape |-> Null]
                     ELSE [name |-> b, shape |-> g.shape]
    BY <2>1 DEF h
  <2>5. heap' \in Heaps
    BY <2>2, <2>4, SettleTyped
  <2>6. g.shape \in Shape \cup {Null}
    BY <1>1, <2>3, GetKeeps
  <2>7. last' \in [name : Name, shape : Shape \cup {Null}]
    BY <2>4, <2>6
  <2> QED
    BY <2>5, <2>7
<1> QED
  BY <1>2, <1>3, <1>4 DEF Next

(***************************************************************************)
(* The variables keep their types, whatever names temporaries look up: a   *)
(* node whose key dangles still has the shape Set last wrote into it, and  *)
(* Get still returns a shape of the session.                               *)
(***************************************************************************)
THEOREM TypeCorrect == Spec => []TypeOK
<1>1. Init => TypeOK
  BY DEF Init, TypeOK
<1>2. ASSUME TypeOK, [Next]_vars
      PROVE  TypeOK'
  <2>1. CASE Next
    <3>1. shapes' \subseteq Node
      BY <1>2, <2>1, StepKeeps DEF TypeOK
    <3>2. heap' \in Heaps /\ last' \in [name : Name, shape : Shape \cup {Null}]
      BY <1>2, <2>1, StepTyped
    <3> QED
      BY <3>1, <3>2 DEF TypeOK, Heaps, Node
  <2>2. CASE UNCHANGED vars
    BY <1>2, <2>2 DEF TypeOK, vars, Node
  <2> QED
    BY <1>2, <2>1, <2>2
<1> QED
  BY <1>1, <1>2, PTL DEF Spec
=============================================================================
