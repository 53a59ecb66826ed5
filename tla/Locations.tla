----------------------------- MODULE Locations -----------------------------
(***************************************************************************)
(* TopLoc_Location: where a shape is.  A location is a chain of items,     *)
(* each a datum raised to a power; its head is the factor to the right.    *)
(* Chains are LISP lists: they share their tails, and every item keeps the *)
(* transformation of the whole chain that begins with it.  Multiplied and  *)
(* Inverted build such chains one item after another, and cancel.          *)
(*                                                                         *)
(* Two locations are equal when they are made of the same datums, which    *)
(* are compared by address; every gp_Trsf a command comes with makes a new *)
(* datum.  Motions form a group; nothing else is known of them.            *)
(***************************************************************************)
EXTENDS Integers, Sequences

CONSTANTS Shape,      \* what has a location: named shapes and temporaries
          Address,    \* where datums may be allocated
          Motion,     \* the transformations, rigid ones
          Id,         \* TheIdentity
          Mul(_, _),  \* gp_Trsf::Multiplied
          Inv(_),     \* gp_Trsf::Inverted
          Pow(_, _),  \* gp_Trsf::Powered
          Power,      \* the exponents
          Given,      \* the transformations commands come with
          MaxLen      \* bound on the items of two locations that are multiplied

ASSUME GroupAssumption ==
  /\ Id \in Motion
  /\ \A f, g \in Motion : Mul(f, g) \in Motion /\ Inv(f) \in Motion
  /\ \A f, g, h \in Motion : Mul(Mul(f, g), h) = Mul(f, Mul(g, h))
  /\ \A f \in Motion :
       Mul(Id, f) = f /\ Mul(f, Id) = f /\ Mul(f, Inv(f)) = Id /\ Mul(Inv(f), f) = Id

ASSUME PowerAssumption ==
  /\ Power \subseteq Int /\ 1 \in Power
  /\ \A p \in Power : -p \in Power
  /\ \A f \in Motion : Pow(f, 1) = f
  /\ \A f \in Motion, p \in Power : Pow(f, p) \in Motion
  /\ \A f \in Motion, p, q \in Power :
       /\ p + q = 0 => Mul(Pow(f, p), Pow(f, q)) = Id
       /\ p + q \in Power => Mul(Pow(f, p), Pow(f, q)) = Pow(f, p + q)

ASSUME BoundAssumption == Given \subseteq Motion /\ MaxLen \in Nat

VARIABLES at,    \* at[s]: the location of s
          call   \* the operation that is being carried out on locations

vars == <<at, call>>

Datum == [addr : Address, trsf : Motion]
Item == [datum : Datum, power : Power, trsf : Motion]
Location == Seq(Item)

\* done: the items of the operand that have been used
\* fresh: is the head of the result a node only this call refers to?
Call == [op : {"multiply", "invert"}, left : Shape, right : Shape, to : Shape,
         done : Nat, result : Location, fresh : BOOLEAN]
Idle == [op |-> "none"]

Items(L) == {L[i] : i \in DOMAIN L}

\* The datums that some handle refers to; there is one at an address.
DatumsOf(L) == {x.datum : x \in Items(L)}
Datums == UNION {DatumsOf(at[s]) : s \in Shape}
OneEach == \A d, e \in Datums : d.addr = e.addr => d = e

TypeOK ==
  /\ at \in [Shape -> Location]
  /\ call \in Call \cup {Idle}
  /\ OneEach

Init ==
  /\ at = [s \in Shape |-> <<>>]
  /\ call = Idle
-----------------------------------------------------------------------------
IsIdentity(L) == L = <<>>

Transformation(L) == IF IsIdentity(L) THEN Id ELSE L[1].trsf

\* TopLoc_SListOfItemLocation::Construct.  The transformation of the tail
\* goes first; ConstructAlone forgets it.
ConstructAlone(d, p, tail) ==
  <<[datum |-> d, power |-> p, trsf |-> Pow(d.trsf, p)]>> \o tail

Construct(d, p, tail) ==
  <<[datum |-> d, power |-> p,
     trsf |-> Mul(Transformation(tail), Pow(d.trsf, p))]>> \o tail

UsedTwice == {}

Used == {d.addr : d \in Datums}

\* A location made from a transformation: a new datum to the power 1.
Located(s, g) ==
  /\ call = Idle
  /\ \E a \in Address \ Used :
       at' = [at EXCEPT ![s] = Construct([addr |-> a, trsf |-> g], 1, <<>>)]
  /\ UNCHANGED call
-----------------------------------------------------------------------------
\* reset: "remove location".  The motion is TheIdentity, but it is a datum.
Reset(s) == Located(s, Id)

\* SetLocation; ttranslate and trotate build their factor like this.
SetLocation(s) == \E g \in Given : Located(s, g)

\* tmove: where m is, but as one datum.
SetLocationFrom(s, m) == Located(s, Transformation(at[m]))

\* AddLocation: g in the coordinates of s.
AddLocation(s) == \E g \in Given : Located(s, Mul(Transformation(at[s]), g))

\* MakeShape and TopLoc_Location(): no location.
Identity(s) ==
  /\ call = Idle
  /\ at' = [at EXCEPT ![s] = <<>>]
  /\ UNCHANGED call

\* Another handle of m, with the location of m.
Share(s, m) ==
  /\ call = Idle
  /\ at' = [at EXCEPT ![s] = at[m]]
  /\ UNCHANGED call

\* Powered, of a single item.
Raise(s, m, n) ==
  /\ call = Idle /\ Len(at[m]) = 1
  /\ LET it == at[m][1]
     IN  /\ it.power * n \in Power \ {0}
         /\ at' = [at EXCEPT ![s] = Construct(it.datum, it.power * n, <<>>)]
  /\ UNCHANGED call
-----------------------------------------------------------------------------
(***************************************************************************)
(* Multiplied calls itself for the operand without its head, down to the   *)
(* last item, and adds the heads on its way back: one step for each.       *)
(***************************************************************************)
\* Named bounds: MaxLen, and the powers that may be added.
Small(L, M) ==
  /\ Len(L) + Len(M) <= MaxLen
  /\ \A x \in Items(L), y \in Items(M) :
       x.datum.addr = y.datum.addr => x.power + y.power \in Power \cup {0}

\* An operand that is the identity returns the other one.
Multiply(s, l, r) ==
  /\ call = Idle /\ Small(at[l], at[r])
  /\ LET plain == IsIdentity(at[l])
     IN  call' = [op |-> "multiply", left |-> l, right |-> r, to |-> s,
                  done |-> IF plain THEN Len(at[r]) ELSE 0,
                  result |-> IF plain THEN at[r] ELSE at[l],
                  fresh |-> FALSE]
  /\ UNCHANGED at

Multiplying == call.op = "multiply" /\ call.done < Len(at[call.right])

Factor == at[call.right][Len(at[call.right]) - call.done]

MeetsUnlessLast(it, L) == Len(L) > 1 /\ L[1].datum.addr = it.datum.addr

\* The heads are of the same datum.
Meets(it, L) == ~IsIdentity(L) /\ L[1].datum.addr = it.datum.addr

Cancels(it, L) == Meets(it, L) /\ it.power + L[1].power = 0

\* The head is taken off (ToTail) and comes back with the sum of the powers,
\* if that is not 0; CombinedKept takes nothing off when it is.
CombinedKept(it, L) ==
  CASE Cancels(it, L) -> L
    [] Meets(it, L) /\ ~Cancels(it, L) ->
         Construct(it.datum, it.power + L[1].power, Tail(L))
    [] OTHER -> Construct(it.datum, it.power, L)

Combined(it, L) ==
  CASE Cancels(it, L) -> Tail(L)
    [] Meets(it, L) /\ ~Cancels(it, L) ->
         Construct(it.datum, it.power + L[1].power, Tail(L))
    [] OTHER -> Construct(it.datum, it.power, L)

Combine ==
  /\ Multiplying
  /\ call' = [call EXCEPT !.done = @ + 1, !.result = Combined(Factor, @),
                          !.fresh = ~Cancels(Factor, call.result)]
  /\ UNCHANGED at

(***************************************************************************)
(* Inverted goes along the chain, from its head, and builds another one.   *)
(***************************************************************************)
Invert(s, l) ==
  /\ call = Idle
  /\ call' = [op |-> "invert", left |-> l, right |-> l, to |-> s,
              done |-> 0, result |-> <<>>, fresh |-> FALSE]
  /\ UNCHANGED at

Inverting == call.op = "invert" /\ call.done < Len(at[call.left])

InvertItem ==
  /\ Inverting
  /\ LET it == at[call.left][call.done + 1]
     IN  call' = [call EXCEPT !.done = @ + 1,
                              !.result = Construct(it.datum, -it.power, @),
                              !.fresh = TRUE]
  /\ UNCHANGED at

Return ==
  /\ call # Idle /\ ~Multiplying /\ ~Inverting
  /\ at' = [at EXCEPT ![call.to] = call.result]
  /\ call' = Idle

Next ==
  \/ \E s \in Shape :
       Reset(s) \/ SetLocation(s) \/ AddLocation(s) \/ Identity(s)
  \/ \E s, m \in Shape :
       SetLocationFrom(s, m) \/ Share(s, m) \/ Invert(s, m)
  \/ \E s, m \in Shape, n \in Power : Raise(s, m, n)
  \/ \E s, l, r \in Shape : Multiply(s, l, r)
  \/ Combine \/ InvertItem \/ Return

Spec == Init /\ [][Next]_vars
-----------------------------------------------------------------------------
Reduced(L) ==
  /\ \A i \in DOMAIN L : L[i].power # 0
  /\ \A i \in 1 .. Len(L) - 1 : L[i].datum.addr # L[i + 1].datum.addr

(***************************************************************************)
(* No chain has a power of 0 or the same datum twice in a row, not even    *)
(* while it is built: equal products are equal chains, and IsEqual, which  *)
(* compares items, tells where shapes are (TopLoc_Location::Multiplied).   *)
(***************************************************************************)
ChainsReduced ==
  /\ \A s \in Shape : Reduced(at[s])
  /\ call # Idle => Reduced(call.result)

(***************************************************************************)
(* ToTail lets go of the head of the result and then reads the tail out of *)
(* it (TopLoc_SListOfItemLocation::Assign: Clear comes first): the head is *)
(* never a node that no other list refers to.                              *)
(***************************************************************************)
TailsOutliveHeads == Multiplying /\ Meets(Factor, call.result) => ~call.fresh

Finished == call # Idle /\ ~Multiplying /\ ~Inverting

(***************************************************************************)
(* The transformation kept in the head of a product is the product of the  *)
(* transformations of its operands, and that of an inverse the inverse.    *)
(***************************************************************************)
ResultsAreRight ==
  Finished =>
    Transformation(call.result) =
      CASE call.op = "multiply" ->
             Mul(Transformation(at[call.left]), Transformation(at[call.right]))
        [] call.op = "invert" -> Inv(Transformation(at[call.left]))

\* M has the items of L in reverse order with the opposite powers.
Opposite(L, M) ==
  /\ Len(L) = Len(M)
  /\ \A i \in DOMAIN L :
       LET y == M[Len(L) + 1 - i]
       IN  y.datum = L[i].datum /\ y.power = -L[i].power

(***************************************************************************)
(* Inverted gives the opposite chain, and the product with it is empty:    *)
(* "<me> * Inverted() is an Identity" (TopLoc_Location.hxx) that IsIdentity*)
(* tells, however many datums there were.                                  *)
(***************************************************************************)
QuotientVanishes ==
  Finished =>
    /\ call.op = "invert" => Opposite(at[call.left], call.result)
    /\ call.op = "multiply" /\ Opposite(at[call.left], at[call.right])
         => IsIdentity(call.result)
=============================================================================
