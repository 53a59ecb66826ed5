--------------------------- MODULE LocationsProofs ---------------------------
(***************************************************************************)
(* Proofs about Locations, for every group of motions.  What is proved of  *)
(* a chain that is being built is proved of one item more: the recursion   *)
(* of Multiplied and the loop of Inverted are steps of the specification,  *)
(* so their invariants do the induction.                                   *)
(***************************************************************************)
EXTENDS Locations, SequenceTheorems, TLAPS

\* The transformation of the chain that begins with the i-th item of L.
From(L, i) == IF i > Len(L) THEN Id ELSE L[i].trsf

\* Each item keeps the transformation of the chain that begins with it.
Kept(L) ==
  \A i \in 1 .. Len(L) :
    L[i].trsf = Mul(From(L, i + 1), Pow(L[i].datum.trsf, L[i].power))

Good(L) == L \in Location /\ Reduced(L) /\ Kept(L)

-----------------------------------------------------------------------------
LEMMA ItemIs ==
  ASSUME NEW L \in Location, NEW i \in 1 .. Len(L)
  PROVE  /\ L[i] \in Item
         /\ L[i].datum \in Datum /\ L[i].datum.trsf \in Motion
         /\ L[i].power \in Power /\ L[i].power \in Int
         /\ L[i].trsf \in Motion
         /\ Pow(L[i].datum.trsf, L[i].power) \in Motion
<1>1. L[i] \in Item
  BY ElementOfSeq DEF Location
<1> QED
  BY <1>1, PowerAssumption DEF Item, Datum

LEMMA FromIs ==
  ASSUME NEW L \in Location
  PROVE  /\ \A i \in Nat \ {0} : From(L, i) \in Motion
         /\ Transformation(L) = From(L, 1)
         /\ Transformation(L) \in Motion
<1>1. Len(L) \in Nat /\ (L = <<>> <=> Len(L) = 0)
  BY EmptySeq, LenProperties DEF Location
<1>2. \A i \in Nat \ {0} : From(L, i) \in Motion
  <2> TAKE i \in Nat \ {0}
  <2>1. CASE i > Len(L)
    BY <2>1, GroupAssumption DEF From
  <2>2. CASE i <= Len(L)
    <3>1. i \in 1 .. Len(L) /\ ~(i > Len(L))
      BY <1>1, <2>2
    <3> QED
      BY <3>1, ItemIs DEF From
  <2> QED
    BY <1>1, <2>1, <2>2
<1>3. Transformation(L) = From(L, 1)
  BY <1>1 DEF Transformation, From, IsIdentity
<1> QED
  BY <1>2, <1>3

(* Construct puts an item in front of a chain. *)
LEMMA ConstructIs ==
  ASSUME NEW L \in Location, NEW d \in Datum, NEW p \in Power
  PROVE  LET C == Construct(d, p, L)
         IN  /\ C \in Location
             /\ Len(C) = Len(L) + 1
             /\ C[1] = [datum |-> d, power |-> p,
                        trsf |-> Mul(Transformation(L), Pow(d.trsf, p))]
             /\ \A i \in 1 .. Len(L) : C[i + 1] = L[i]
<1> DEFINE x == [datum |-> d, power |-> p,
                 trsf |-> Mul(Transformation(L), Pow(d.trsf, p))]
           C == Construct(d, p, L)
<1>1. x \in Item
  <2>1. Pow(d.trsf, p) \in Motion
    BY PowerAssumption DEF Datum
  <2>2. Mul(Transformation(L), Pow(d.trsf, p)) \in Motion
    BY <2>1, FromIs, GroupAssumption
  <2> QED
    BY <2>2 DEF Item
<1>2. C = <<x>> \o L
  BY DEF Construct
<1> HIDE DEF x, C
<1>3. <<x>> \in Seq(Item) /\ Len(<<x>>) = 1 /\ <<x>>[1] = x
  BY <1>1
<1>4. L \in Seq(Item) /\ Len(L) \in Nat
  BY LenProperties DEF Location
<1>5. /\ C \in Seq(Item) /\ Len(C) = Len(L) + 1
      /\ C[1] = x /\ \A i \in 1 .. Len(L) : C[i + 1] = L[i]
  BY <1>2, <1>3, <1>4
<1> QED
  BY <1>5 DEF Location, x, C

LEMMA TailIs ==
  ASSUME NEW L \in Location, L # <<>>
  PROVE  /\ Tail(L) \in Location
         /\ Len(L) \in Nat \ {0}
         /\ Len(Tail(L)) = Len(L) - 1
         /\ \A i \in 1 .. Len(L) - 1 : Tail(L)[i] = L[i + 1]
<1>1. L \in Seq(Item)
  BY DEF Location
<1> QED
  BY <1>1, HeadTailProperties, EmptySeq DEF Location

(* The items of a longer and of a shorter chain. *)
LEMMA DatumsOfConstruct ==
  ASSUME NEW L \in Location, NEW d \in Datum, NEW p \in Power
  PROVE  DatumsOf(Construct(d, p, L)) \subseteq {d} \cup DatumsOf(L)
<1> DEFINE C == Construct(d, p, L)
<1>1. /\ C \in Location /\ Len(C) = Len(L) + 1 /\ Len(L) \in Nat
      /\ C[1] = [datum |-> d, power |-> p,
                 trsf |-> Mul(Transformation(L), Pow(d.trsf, p))]
      /\ \A i \in 1 .. Len(L) : C[i + 1] = L[i]
  BY ConstructIs, LenProperties DEF Location
<1> HIDE DEF C
<1>2. C[1].datum = d
  BY <1>1
<1>3. ASSUME NEW i \in DOMAIN C
      PROVE  C[i].datum \in {d} \cup DatumsOf(L)
  <2>1. i \in 1 .. Len(L) + 1
    BY <1>1, LenProperties DEF Location
  <2>2. CASE i = 1
    BY <1>2, <2>2
  <2>3. CASE i # 1
    <3>1. i - 1 \in 1 .. Len(L) /\ (i - 1) + 1 = i
      BY <1>1, <2>1, <2>3
    <3>2. C[i] = L[i - 1] /\ i - 1 \in DOMAIN L
      BY <1>1, <3>1, LenProperties DEF Location
    <3>3. L[i - 1].datum \in DatumsOf(L)
      BY <3>2 DEF DatumsOf, Items
    <3> QED
      BY <3>2, <3>3
  <2> QED
    BY <2>2, <2>3
<1> QED
  BY <1>3 DEF DatumsOf, Items, C

LEMMA ItemsOfTail ==
  ASSUME NEW L \in Location, L # <<>>
  PROVE  Items(Tail(L)) \subseteq Items(L) /\ DatumsOf(Tail(L)) \subseteq DatumsOf(L)
<1> DEFINE T == Tail(L)
<1>1. /\ T \in Location /\ Len(L) \in Nat /\ Len(T) = Len(L) - 1
      /\ \A i \in 1 .. Len(L) - 1 : T[i] = L[i + 1]
  BY TailIs
<1> HIDE DEF T
<1>2. ASSUME NEW i \in DOMAIN T PROVE T[i] \in Items(L)
  <2>1. i \in 1 .. Len(L) - 1
    BY <1>1, LenProperties DEF Location
  <2>2. T[i] = L[i + 1] /\ i + 1 \in DOMAIN L
    BY <1>1, <2>1, LenProperties DEF Location
  <2> QED
    BY <2>2 DEF Items
<1>3. Items(T) \subseteq Items(L)
  BY <1>2 DEF Items
<1> QED
  BY <1>3 DEF T, DatumsOf

-----------------------------------------------------------------------------
(* The tail of a good chain, and what its head adds. *)
LEMMA TailGood ==
  ASSUME NEW L, Good(L), L # <<>>
  PROVE  /\ Good(Tail(L))
         /\ Transformation(L)
              = Mul(Transformation(Tail(L)), Pow(L[1].datum.trsf, L[1].power))
         /\ Tail(L) # <<>> => Tail(L)[1].datum.addr # L[1].datum.addr
         /\ L[1].power # 0
<1> DEFINE T == Tail(L)
<1>1. L \in Location /\ Reduced(L) /\ Kept(L)
  BY DEF Good
<1>2. /\ T \in Location /\ Len(L) \in Nat \ {0} /\ Len(T) = Len(L) - 1
      /\ \A i \in 1 .. Len(L) - 1 : T[i] = L[i + 1]
  BY <1>1, TailIs
<1> HIDE DEF T
<1>3. T = <<>> <=> Len(T) = 0
  BY <1>2, EmptySeq DEF Location
<1>4. DOMAIN L = 1 .. Len(L) /\ DOMAIN T = 1 .. Len(T)
  BY <1>1, <1>2, LenProperties DEF Location
<1>5. \A i \in 1 .. Len(L) : From(T, i) = From(L, i + 1)
  BY <1>2 DEF From
<1>6. Kept(T)
  <2> SUFFICES ASSUME NEW i \in 1 .. Len(T)
               PROVE  T[i].trsf = Mul(From(T, i + 1), Pow(T[i].datum.trsf, T[i].power))
    BY DEF Kept
  <2>1. i + 1 \in 1 .. Len(L) /\ T[i] = L[i + 1]
    BY <1>2
  <2>2. From(T, i + 1) = From(L, (i + 1) + 1)
    BY <1>5, <2>1
  <2> QED
    BY <1>1, <2>1, <2>2 DEF Kept
<1>7. Reduced(T)
  <2>1. ASSUME NEW i \in 1 .. Len(T) PROVE T[i].power # 0
    <3>1. i + 1 \in 1 .. Len(L) /\ T[i] = L[i + 1]
      BY <1>2
    <3> QED
      BY <1>1, <1>4, <3>1 DEF Reduced
  <2>2. ASSUME NEW i \in 1 .. Len(T) - 1
        PROVE  T[i].datum.addr # T[i + 1].datum.addr
    <3>1. /\ i + 1 \in 1 .. Len(L) - 1
          /\ T[i] = L[i + 1] /\ T[i + 1] = L[(i + 1) + 1]
      BY <1>2
    <3>2. L[i + 1].datum.addr # L[(i + 1) + 1].datum.addr
      BY <1>1, <3>1 DEF Reduced
    <3> QED
      BY <3>1, <3>2
  <2> QED
    BY <1>4, <2>1, <2>2 DEF Reduced
<1>8. Transformation(L) = Mul(Transformation(T), Pow(L[1].datum.trsf, L[1].power))
  <2>1. Transformation(L) = L[1].trsf
    BY <1>2, <1>1, FromIs DEF From
  <2>2. Transformation(T) = From(L, 2)
    BY <1>2, <1>5, FromIs
  <2>3. 1 \in 1 .. Len(L)
    BY <1>2
  <2>4. L[1].trsf = Mul(From(L, 1 + 1), Pow(L[1].datum.trsf, L[1].power))
    BY <1>1, <2>3 DEF Kept
  <2> QED
    BY <2>1, <2>2, <2>4
<1>9. L[1].power # 0
  BY <1>1, <1>2, <1>4 DEF Reduced
<1>10. T # <<>> => T[1].datum.addr # L[1].datum.addr
  <2> SUFFICES ASSUME T # <<>> PROVE T[1].datum.addr # L[1].datum.addr
    OBVIOUS
  <2>1. 1 \in 1 .. Len(L) - 1 /\ T[1] = L[1 + 1]
    BY <1>2, <1>3
  <2> QED
    BY <1>1, <2>1 DEF Reduced
<1> QED
  BY <1>2, <1>6, <1>7, <1>8, <1>9, <1>10 DEF Good, T

(* An item of another datum in front of a good chain. *)
LEMMA ConstructGood ==
  ASSUME NEW L, Good(L), NEW d \in Datum, NEW p \in Power, p # 0,
         L # <<>> => L[1].datum.addr # d.addr
  PROVE  /\ Good(Construct(d, p, L))
         /\ Transformation(Construct(d, p, L))
              = Mul(Transformation(L), Pow(d.trsf, p))
<1> DEFINE C == Construct(d, p, L)
<1>1. L \in Location /\ Reduced(L) /\ Kept(L) /\ Len(L) \in Nat
  BY LenProperties DEF Good, Location
<1>2. /\ C \in Location /\ Len(C) = Len(L) + 1
      /\ C[1] = [datum |-> d, power |-> p,
                 trsf |-> Mul(Transformation(L), Pow(d.trsf, p))]
      /\ \A i \in 1 .. Len(L) : C[i + 1] = L[i]
  BY <1>1, ConstructIs
<1> HIDE DEF C
<1>3. /\ C[1].datum = d /\ C[1].power = p
      /\ C[1].trsf = Mul(Transformation(L), Pow(d.trsf, p))
  BY <1>2
<1>4. DOMAIN L = 1 .. Len(L) /\ DOMAIN C = 1 .. Len(C)
  BY <1>1, <1>2, LenProperties DEF Location
<1>5. L = <<>> <=> Len(L) = 0
  BY <1>1, EmptySeq DEF Location
<1>6. \A i \in 1 .. Len(C) : From(C, i + 1) = From(L, i)
  BY <1>1, <1>2 DEF From
<1>7. \A i \in 1 .. Len(C) : i = 1 \/ (i - 1 \in 1 .. Len(L) /\ C[i] = L[i - 1])
  <2> TAKE i \in 1 .. Len(C)
  <2> SUFFICES ASSUME i # 1 PROVE i - 1 \in 1 .. Len(L) /\ C[i] = L[i - 1]
    OBVIOUS
  <2>1. i - 1 \in 1 .. Len(L) /\ i = (i - 1) + 1
    BY <1>1, <1>2
  <2>2. C[(i - 1) + 1] = L[i - 1]
    BY <1>2, <2>1
  <2> QED
    BY <2>1, <2>2
<1>8. Kept(C)
  <2> SUFFICES ASSUME NEW i \in 1 .. Len(C)
               PROVE  C[i].trsf = Mul(From(C, i + 1), Pow(C[i].datum.trsf, C[i].power))
    BY DEF Kept
  <2>1. CASE i = 1
    BY <1>1, <1>3, <1>6, <2>1, FromIs
  <2>2. CASE i # 1
    <3>1. i - 1 \in 1 .. Len(L) /\ C[i] = L[i - 1] /\ (i - 1) + 1 = i
      BY <1>7, <2>2
    <3>2. From(C, i + 1) = From(L, (i - 1) + 1)
      BY <1>6, <3>1
    <3> QED
      BY <1>1, <3>1, <3>2 DEF Kept
  <2> QED
    BY <2>1, <2>2
<1>9. Reduced(C)
  <2>1. \A i \in 1 .. Len(C) : C[i].power # 0
    BY <1>1, <1>3, <1>4, <1>7 DEF Reduced
  <2>2. ASSUME NEW i \in 1 .. Len(C) - 1
        PROVE  C[i].datum.addr # C[i + 1].datum.addr
    <3>1. i \in 1 .. Len(L) /\ i \in 1 .. Len(C) /\ C[i + 1] = L[i]
      BY <1>1, <1>2
    <3>2. CASE i = 1
      BY <1>3, <1>5, <3>1, <3>2
    <3>3. CASE i # 1
      <4>1. i - 1 \in 1 .. Len(L) - 1 /\ C[i] = L[i - 1] /\ (i - 1) + 1 = i
        BY <1>1, <1>7, <3>1, <3>3
      <4>2. L[i - 1].datum.addr # L[(i - 1) + 1].datum.addr
        BY <1>1, <4>1 DEF Reduced
      <4> QED
        BY <3>1, <4>1, <4>2
    <3> QED
      BY <3>2, <3>3
  <2> QED
    BY <1>4, <2>1, <2>2 DEF Reduced
<1>10. Transformation(C) = Mul(Transformation(L), Pow(d.trsf, p))
  BY <1>1, <1>2, <1>3, FromIs DEF From
<1> QED
  BY <1>2, <1>8, <1>9, <1>10 DEF Good, C

(* One step of Multiplied, for an item of the right operand. *)
LEMMA CombinedGood ==
  ASSUME NEW L, Good(L), NEW it \in Item, it.power # 0,
         Meets(it, L) => /\ L[1].datum = it.datum
                         /\ it.power + L[1].power \in Power \cup {0}
  PROVE  /\ Good(Combined(it, L))
         /\ Transformation(Combined(it, L))
              = Mul(Transformation(L), Pow(it.datum.trsf, it.power))
<1> DEFINE g == it.datum.trsf
           p == it.power
           q == L[1].power
           T == Tail(L)
<1>1. L \in Location
  BY DEF Good
<1>2. it.datum \in Datum /\ g \in Motion /\ p \in Power /\ p \in Int /\ Pow(g, p) \in Motion
  BY PowerAssumption DEF Item, Datum
<1>3. ASSUME Meets(it, L)
      PROVE  /\ Good(T)
             /\ Transformation(T) \in Motion
             /\ q \in Power /\ q \in Int /\ Pow(g, q) \in Motion
             /\ Transformation(L) = Mul(Transformation(T), Pow(g, q))
             /\ Mul(Transformation(L), Pow(g, p))
                  = Mul(Transformation(T), Mul(Pow(g, q), Pow(g, p)))
             /\ T # <<>> => T[1].datum.addr # it.datum.addr
  <2>1. L # <<>> /\ L[1].datum = it.datum
    BY <1>3 DEF Meets, IsIdentity
  <2>2. Good(T) /\ T \in Location /\ Transformation(T) \in Motion
    BY <2>1, TailGood, FromIs DEF Good
  <2>3. 1 \in 1 .. Len(L)
    BY <1>1, <2>1, TailIs
  <2>4. q \in Power /\ q \in Int /\ Pow(g, q) \in Motion
    BY <1>1, <2>1, <2>3, ItemIs
  <2>5. Transformation(L) = Mul(Transformation(T), Pow(g, q))
    BY <2>1, TailGood
  <2>6. T # <<>> => T[1].datum.addr # it.datum.addr
    BY <2>1, TailGood
  <2>7. Mul(Mul(Transformation(T), Pow(g, q)), Pow(g, p))
          = Mul(Transformation(T), Mul(Pow(g, q), Pow(g, p)))
    BY <1>2, <2>2, <2>4, GroupAssumption
  <2> QED
    BY <2>2, <2>4, <2>5, <2>6, <2>7
<1>4. CASE Cancels(it, L)
  <2>1. Meets(it, L) /\ p + q = 0 /\ q + p = 0
    BY <1>2, <1>3, <1>4 DEF Cancels
  <2>2. Combined(it, L) = T
    BY <1>4 DEF Combined
  <2>3. Mul(Pow(g, q), Pow(g, p)) = Id
    BY <1>2, <1>3, <2>1, PowerAssumption
  <2>4. Mul(Transformation(T), Id) = Transformation(T)
    BY <1>3, <2>1, GroupAssumption
  <2> QED
    BY <1>3, <2>1, <2>2, <2>3, <2>4
<1>5. CASE Meets(it, L) /\ ~Cancels(it, L)
  <2>1. q \in Int /\ p + q \in Power /\ p + q # 0 /\ q + p = p + q
    BY <1>2, <1>3, <1>5 DEF Cancels
  <2>2. Combined(it, L) = Construct(it.datum, p + q, T)
    BY <1>5 DEF Combined
  <2>3. /\ Good(Construct(it.datum, p + q, T))
        /\ Transformation(Construct(it.datum, p + q, T))
             = Mul(Transformation(T), Pow(g, p + q))
    BY <1>2, <1>3, <1>5, <2>1, ConstructGood
  <2>4. Mul(Pow(g, q), Pow(g, p)) = Pow(g, p + q)
    BY <1>2, <1>3, <1>5, <2>1, PowerAssumption
  <2> QED
    BY <1>3, <1>5, <2>2, <2>3, <2>4
<1>6. CASE ~Meets(it, L)
  <2>1. Combined(it, L) = Construct(it.datum, p, L)
    BY <1>6 DEF Combined, Cancels
  <2>2. L # <<>> => L[1].datum.addr # it.datum.addr
    BY <1>6 DEF Meets, IsIdentity
  <2> QED
    BY <1>2, <2>1, <2>2, ConstructGood
<1> QED
  BY <1>4, <1>5, <1>6
-----------------------------------------------------------------------------
\* R is the product of A with the last k items of B.
Builds(A, B, R, k, fresh) ==
  /\ k \in 0 .. Len(B)
  /\ Small(A, B)
  /\ Transformation(R) = Mul(Transformation(A), From(B, Len(B) - k + 1))
  /\ fresh => /\ k > 0 /\ R # <<>>
              /\ R[1].datum.addr = B[Len(B) - k + 1].datum.addr
  /\ ~fresh /\ k < Len(B) => Items(R) \subseteq Items(A)
  /\ Opposite(A, B) => /\ ~fresh
                       /\ Len(R) = Len(A) - k
                       /\ \A i \in 1 .. Len(R) : R[i] = A[i + k]

\* R is the inverse of the first k items of A.
Undoes(A, R, k) ==
  /\ k \in 0 .. Len(A)
  /\ Mul(Transformation(A), Transformation(R)) = From(A, k + 1)
  /\ Len(R) = k
  /\ \A i \in 1 .. k : /\ R[i].datum = A[k + 1 - i].datum
                       /\ R[i].power = -A[k + 1 - i].power

Building ==
  call.op = "multiply" =>
    Builds(at[call.left], at[call.right], call.result, call.done, call.fresh)

Undoing ==
  call.op = "invert" => Undoes(at[call.left], call.result, call.done)

Underway ==
  call # Idle =>
    /\ Good(call.result)
    /\ DatumsOf(call.result) \subseteq Datums
    /\ Building /\ Undoing

AllGood == \A s \in Shape : Good(at[s])

IInv == TypeOK /\ AllGood /\ Underway

LEMMA CallIs ==
  ASSUME TypeOK, call # Idle
  PROVE  /\ call \in Call
         /\ call.op \in {"multiply", "invert"}
         /\ call.left \in Shape /\ call.right \in Shape /\ call.to \in Shape
         /\ call.done \in Nat /\ call.result \in Location
         /\ call.fresh \in BOOLEAN
         /\ at[call.left] \in Location /\ at[call.right] \in Location
         /\ Len(at[call.left]) \in Nat /\ Len(at[call.right]) \in Nat
<1>1. call \in Call
  BY DEF TypeOK
<1>2. /\ call.op \in {"multiply", "invert"}
      /\ call.left \in Shape /\ call.right \in Shape /\ call.to \in Shape
      /\ call.done \in Nat /\ call.result \in Location
      /\ call.fresh \in BOOLEAN
  BY <1>1 DEF Call
<1>3. at[call.left] \in Location /\ at[call.right] \in Location
  BY <1>2 DEF TypeOK
<1> QED
  BY <1>1, <1>2, <1>3, LenProperties DEF Location

LEMMA DatumsAre ==
  ASSUME TypeOK
  PROVE  /\ \A s \in Shape : DatumsOf(at[s]) \subseteq Datums
         /\ \A s \in Shape : \A i \in 1 .. Len(at[s]) :
              at[s][i] \in Items(at[s]) /\ at[s][i].datum \in Datums
<1>1. \A s \in Shape : DatumsOf(at[s]) \subseteq Datums
  BY DEF Datums
<1>2. ASSUME NEW s \in Shape, NEW i \in 1 .. Len(at[s])
      PROVE  at[s][i] \in Items(at[s]) /\ at[s][i].datum \in Datums
  <2>1. at[s] \in Seq(Item)
    BY DEF TypeOK, Location
  <2>2. i \in DOMAIN at[s]
    BY <2>1, LenProperties
  <2>3. at[s][i] \in Items(at[s])
    BY <2>2 DEF Items
  <2>4. at[s][i].datum \in DatumsOf(at[s])
    BY <2>3 DEF DatumsOf
  <2> QED
    BY <1>1, <2>3, <2>4
<1> QED
  BY <1>1, <1>2

LEMMA InitInv == Init => IInv
<1> SUFFICES ASSUME Init PROVE IInv
  OBVIOUS
<1>1. <<>> \in Location /\ Items(<<>>) = {}
  BY EmptySeq DEF Location, Items
<1>2. Good(<<>>)
  BY <1>1 DEF Good, Reduced, Kept
<1>3. \A s \in Shape : at[s] = <<>>
  BY DEF Init
<1>4. Datums = {}
  BY <1>1, <1>3 DEF Datums, DatumsOf
<1> QED
  BY <1>1, <1>2, <1>3, <1>4 DEF Init, IInv, TypeOK, AllGood, Underway, OneEach

(* A shape gets a good location, and no operation is left underway. *)
LEMMA PutGood ==
  ASSUME IInv, NEW s \in Shape, NEW L, Good(L),
         at' = [at EXCEPT ![s] = L], call' = Idle,
         \A d, e \in Datums \cup DatumsOf(L) : d.addr = e.addr => d = e
  PROVE  IInv'
<1>1. at' \in [Shape -> Location]
  BY DEF IInv, TypeOK, Good
<1>2. \A r \in Shape : at'[r] = IF r = s THEN L ELSE at[r]
  BY DEF IInv, TypeOK
<1>3. Datums' \subseteq Datums \cup DatumsOf(L)
  <2>1. \A r \in Shape : DatumsOf(at'[r]) \subseteq Datums \cup DatumsOf(L)
    BY <1>2, DatumsAre DEF IInv
  <2>2. Datums' = UNION {DatumsOf(at'[r]) : r \in Shape}
    BY DEF Datums
  <2> QED
    BY <2>1, <2>2
<1>4. OneEach'
  BY <1>3 DEF OneEach
<1>5. AllGood'
  BY <1>2 DEF AllGood, IInv
<1> QED
  BY <1>1, <1>4, <1>5 DEF IInv, TypeOK, Underway

(* A new datum for the motion g. *)
LEMMA LocatedGood ==
  ASSUME IInv, NEW s \in Shape, NEW g \in Motion, Located(s, g)
  PROVE  IInv'
<1>1. PICK a \in Address \ Used :
        at' = [at EXCEPT ![s] = Construct([addr |-> a, trsf |-> g], 1, <<>>)]
  BY DEF Located
<1> DEFINE d == [addr |-> a, trsf |-> g]
           L == Construct(d, 1, <<>>)
<1>2. d \in Datum /\ d.addr = a
  BY <1>1 DEF Datum
<1>3. <<>> \in Location /\ Good(<<>>) /\ Len(<<>>) = 0
  BY EmptySeq DEF Location, Good, Reduced, Kept
<1> HIDE DEF d
<1>4. Good(L)
  BY <1>2, <1>3, ConstructGood, PowerAssumption
<1>5. L \in Location /\ Len(L) = 1 /\ L[1].datum = d
  <2>1. 1 \in Power
    BY PowerAssumption
  <2>2. /\ L \in Location /\ Len(L) = Len(<<>>) + 1
        /\ L[1] = [datum |-> d, power |-> 1,
                   trsf |-> Mul(Transformation(<<>>), Pow(d.trsf, 1))]
    BY <1>2, <1>3, <2>1, ConstructIs
  <2> HIDE DEF L
  <2> QED
    BY <1>3, <2>2
<1> HIDE DEF L
<1>6. DatumsOf(L) = {d}
  <2>1. DOMAIN L = 1 .. 1
    BY <1>5, LenProperties DEF Location
  <2> QED
    BY <1>5, <2>1 DEF DatumsOf, Items
<1>7. \A e \in Datums : e.addr # d.addr
  BY <1>1, <1>2 DEF Used
<1>8. \A e, f \in Datums \cup DatumsOf(L) : e.addr = f.addr => e = f
  BY <1>6, <1>7 DEF IInv, TypeOK, OneEach
<1>9. call' = Idle
  BY DEF Located
<1> QED
  BY <1>1, <1>4, <1>8, <1>9, PutGood DEF d, L
-----------------------------------------------------------------------------
(* What the steps of a call leave as it is. *)
LEMMA SameLocations ==
  ASSUME IInv, UNCHANGED at, call' \in Call,
         Good(call'.result), DatumsOf(call'.result) \subseteq Datums,
         Building', Undoing'
  PROVE  IInv'
<1>1. Datums' = Datums
  BY DEF Datums
<1>2. TypeOK'
  BY <1>1 DEF IInv, TypeOK, OneEach
<1>3. AllGood'
  BY DEF IInv, AllGood
<1>4. Underway'
  BY <1>1 DEF Underway
<1> QED
  BY <1>2, <1>3, <1>4 DEF IInv

LEMMA MultiplyStep ==
  ASSUME IInv, NEW s \in Shape, NEW l \in Shape, NEW r \in Shape, Multiply(s, l, r)
  PROVE  IInv'
<1> DEFINE A == at[l]
           B == at[r]
           plain == IsIdentity(A)
           k == IF plain THEN Len(B) ELSE 0
           R == IF plain THEN B ELSE A
<1>1. /\ Good(A) /\ Good(B) /\ A \in Location /\ B \in Location
      /\ Len(A) \in Nat /\ Len(B) \in Nat
      /\ (A = <<>> <=> Len(A) = 0)
  BY LenProperties, EmptySeq DEF IInv, AllGood, Good, Location
<1>2. /\ Small(A, B) /\ UNCHANGED at
      /\ call' = [op |-> "multiply", left |-> l, right |-> r, to |-> s,
                  done |-> k, result |-> R, fresh |-> FALSE]
  BY DEF Multiply
<1>3. /\ call'.op = "multiply" /\ call'.left = l /\ call'.right = r
      /\ call'.done = k /\ call'.result = R /\ call'.fresh = FALSE
  BY <1>2
<1>4. call' \in Call
  BY <1>1, <1>2 DEF Call
<1>5. Good(R) /\ DatumsOf(R) \subseteq Datums
  BY <1>1, DatumsAre DEF IInv
<1>6. k \in 0 .. Len(B)
  BY <1>1
<1>7. Transformation(R) = Mul(Transformation(A), From(B, Len(B) - k + 1))
  <2>1. CASE plain
    <3>1. Transformation(A) = Id /\ Len(B) - k + 1 = 1
      BY <1>1, <2>1 DEF Transformation
    <3>2. Transformation(B) = From(B, 1) /\ Transformation(B) \in Motion
      BY <1>1, FromIs
    <3> QED
      BY <2>1, <3>1, <3>2, GroupAssumption
  <2>2. CASE ~plain
    <3>1. Len(B) - k + 1 > Len(B)
      BY <1>1, <2>2
    <3>2. From(B, Len(B) - k + 1) = Id
      BY <3>1 DEF From
    <3>3. Transformation(A) \in Motion
      BY <1>1, FromIs
    <3> QED
      BY <2>2, <3>2, <3>3, GroupAssumption
  <2> QED
    BY <2>1, <2>2
<1>8. k < Len(B) => Items(R) \subseteq Items(A)
  BY <1>1
<1>9. ASSUME Opposite(A, B)
      PROVE  Len(R) = Len(A) - k /\ \A i \in 1 .. Len(R) : R[i] = A[i + k]
  <2>1. Len(A) = Len(B)
    BY <1>9 DEF Opposite
  <2>2. CASE plain
    BY <1>1, <2>1, <2>2 DEF IsIdentity
  <2>3. CASE ~plain
    BY <1>1, <2>3
  <2> QED
    BY <2>2, <2>3
<1>10. at'[call'.left] = A /\ at'[call'.right] = B
  BY <1>2, <1>3
<1> HIDE DEF k, R, A, B
<1>11. Building'
  <2>1. Builds(A, B, R, k, FALSE)
    BY <1>2, <1>6, <1>7, <1>8, <1>9 DEF Builds
  <2> QED
    BY <1>3, <1>10, <2>1 DEF Building
<1>12. Undoing'
  BY <1>3 DEF Undoing
<1> QED
  BY <1>2, <1>3, <1>4, <1>5, <1>11, <1>12, SameLocations

LEMMA InvertStart ==
  ASSUME IInv, NEW s \in Shape, NEW l \in Shape, Invert(s, l)
  PROVE  IInv'
<1> DEFINE A == at[l]
<1>1. /\ Good(A) /\ A \in Location /\ Len(A) \in Nat
  BY LenProperties DEF IInv, AllGood, Good, Location
<1>2. /\ UNCHANGED at
      /\ call' = [op |-> "invert", left |-> l, right |-> l, to |-> s,
                  done |-> 0, result |-> <<>>, fresh |-> FALSE]
  BY DEF Invert
<1>3. /\ call'.op = "invert" /\ call'.left = l
      /\ call'.done = 0 /\ call'.result = <<>>
  BY <1>2
<1>4. <<>> \in Location /\ Items(<<>>) = {} /\ Len(<<>>) = 0
  BY EmptySeq DEF Location, Items
<1>5. Good(<<>>) /\ DatumsOf(<<>>) \subseteq Datums
  BY <1>4 DEF Good, Reduced, Kept, DatumsOf
<1>6. call' \in Call
  BY <1>2, <1>4 DEF Call
<1>7. Undoes(A, <<>>, 0)
  <2>1. Transformation(<<>>) = Id
    BY DEF Transformation, IsIdentity
  <2>2. Transformation(A) \in Motion /\ Transformation(A) = From(A, 1)
    BY <1>1, FromIs
  <2>3. Mul(Transformation(A), Id) = Transformation(A)
    BY <2>2, GroupAssumption
  <2> QED
    BY <1>1, <1>4, <2>1, <2>2, <2>3 DEF Undoes
<1>8. Undoing'
  BY <1>2, <1>3, <1>7 DEF Undoing
<1>9. Building'
  BY <1>3 DEF Building
<1> QED
  BY <1>2, <1>3, <1>5, <1>6, <1>8, <1>9, SameLocations

LEMMA InvertGood ==
  ASSUME IInv, InvertItem
  PROVE  IInv'
<1> DEFINE A == at[call.left]
           R == call.result
           k == call.done
           it == A[k + 1]
           C == Construct(it.datum, -it.power, R)
<1>1. call # Idle /\ call.op = "invert" /\ k < Len(A) /\ UNCHANGED at
  BY DEF InvertItem, Inverting, Idle
<1>2. call' = [call EXCEPT !.done = k + 1, !.result = C, !.fresh = TRUE]
  BY DEF InvertItem
<1>3. /\ call \in Call /\ call.left \in Shape
      /\ k \in Nat /\ A \in Location /\ Len(A) \in Nat
      /\ R \in Location
  BY <1>1, CallIs DEF IInv
<1>4. Good(A) /\ Good(R) /\ DatumsOf(R) \subseteq Datums /\ Undoes(A, R, k)
  BY <1>1, <1>3 DEF IInv, AllGood, Underway, Undoing
<1> HIDE DEF A, R, k
<1>5. k + 1 \in 1 .. Len(A)
  BY <1>1, <1>3
<1>6. /\ it.datum \in Datum /\ it.datum.trsf \in Motion
      /\ it.power \in Power /\ it.power \in Int
      /\ Pow(it.datum.trsf, it.power) \in Motion
  BY <1>3, <1>5, ItemIs
<1>7. -it.power \in Power /\ -it.power # 0 /\ it.power # 0
  <2>1. it.power # 0
    <3>1. k + 1 \in DOMAIN A
      BY <1>3, <1>5, LenProperties DEF Location
    <3> QED
      BY <1>4, <3>1 DEF Good, Reduced
  <2> QED
    BY <1>6, <2>1, PowerAssumption
<1>8. R # <<>> => R[1].datum.addr # it.datum.addr
  <2> SUFFICES ASSUME R # <<>> PROVE R[1].datum.addr # it.datum.addr
    OBVIOUS
  <2>1. Len(R) = k /\ k \in 1 .. Len(A) - 1
    BY <1>1, <1>3, <1>4, EmptySeq DEF Undoes, Location
  <2>2. R[1].datum = A[k + 1 - 1].datum
    BY <1>4, <2>1 DEF Undoes
  <2>3. A[k].datum.addr # A[k + 1].datum.addr
    BY <1>4, <2>1 DEF Good, Reduced
  <2> QED
    BY <2>1, <2>2, <2>3
<1>9. /\ Good(C)
      /\ Transformation(C) = Mul(Transformation(R), Pow(it.datum.trsf, -it.power))
  BY <1>4, <1>6, <1>7, <1>8, ConstructGood
<1>10. /\ C \in Location /\ Len(C) = Len(R) + 1
       /\ C[1].datum = it.datum /\ C[1].power = -it.power
       /\ \A i \in 1 .. Len(R) : C[i + 1] = R[i]
  <2>1. /\ C \in Location /\ Len(C) = Len(R) + 1
        /\ C[1] = [datum |-> it.datum, power |-> -it.power,
                   trsf |-> Mul(Transformation(R), Pow(it.datum.trsf, -it.power))]
        /\ \A i \in 1 .. Len(R) : C[i + 1] = R[i]
    BY <1>3, <1>6, <1>7, ConstructIs
  <2> QED
    BY <2>1
<1>11. DatumsOf(C) \subseteq Datums
  <2>1. it.datum \in Datums
    BY <1>3, <1>5, DatumsAre DEF IInv, A
  <2>2. DatumsOf(C) \subseteq {it.datum} \cup DatumsOf(R)
    BY <1>3, <1>6, <1>7, DatumsOfConstruct
  <2> QED
    BY <1>4, <2>1, <2>2
<1>12. Mul(Transformation(A), Transformation(C)) = From(A, (k + 1) + 1)
  <2> DEFINE g == it.datum.trsf
             p == it.power
             X == From(A, (k + 1) + 1)
  <2>1. Transformation(A) \in Motion /\ Transformation(R) \in Motion /\ X \in Motion
    BY <1>3, FromIs
  <2>2. Pow(g, p) \in Motion /\ Pow(g, -p) \in Motion
    BY <1>6, <1>7, PowerAssumption
  <2>3. Mul(Transformation(A), Mul(Transformation(R), Pow(g, -p)))
          = Mul(From(A, k + 1), Pow(g, -p))
    BY <1>4, <2>1, <2>2, GroupAssumption DEF Undoes
  <2>4. From(A, k + 1) = Mul(X, Pow(g, p))
    <3>1. From(A, k + 1) = it.trsf
      BY <1>5 DEF From
    <3> QED
      BY <1>4, <1>5, <3>1 DEF Good, Kept
  <2>5. Mul(Mul(X, Pow(g, p)), Pow(g, -p)) = Mul(X, Mul(Pow(g, p), Pow(g, -p)))
    BY <2>1, <2>2, GroupAssumption
  <2>6. Mul(Pow(g, p), Pow(g, -p)) = Id
    <3>1. p + (-p) = 0
      BY <1>6
    <3> QED
      BY <1>6, <1>7, <3>1, PowerAssumption
  <2>7. Mul(X, Id) = X
    BY <2>1, GroupAssumption
  <2> QED
    BY <1>9, <2>3, <2>4, <2>5, <2>6, <2>7
<1>13. ASSUME NEW i \in 1 .. k + 1
       PROVE  /\ C[i].datum = A[(k + 1) + 1 - i].datum
              /\ C[i].power = -A[(k + 1) + 1 - i].power
  <2>1. CASE i = 1
    <3>1. (k + 1) + 1 - i = k + 1
      BY <1>3, <2>1
    <3> QED
      BY <1>10, <2>1, <3>1
  <2>2. CASE i # 1
    <3>1. /\ i - 1 \in 1 .. k /\ (i - 1) + 1 = i
          /\ k + 1 - (i - 1) = (k + 1) + 1 - i
      BY <1>3, <2>2
    <3>2. C[i] = R[i - 1]
      BY <1>4, <1>10, <3>1 DEF Undoes
    <3> QED
      BY <1>4, <3>1, <3>2 DEF Undoes
  <2> QED
    BY <2>1, <2>2
<1> HIDE DEF C, it
<1>14. Undoes(A, C, k + 1)
  BY <1>3, <1>4, <1>5, <1>10, <1>12, <1>13 DEF Undoes
<1>15. call' \in Call /\ call'.op = "invert" /\ call'.left = call.left
         /\ call'.done = k + 1 /\ call'.result = C
  <2> DEFINE n == k + 1
  <2>1. n \in Nat
    BY <1>3
  <2>0. call' = [call EXCEPT !.done = n, !.result = C, !.fresh = TRUE]
    BY <1>2
  <2>3. call \in Call /\ C \in Location
    BY <1>3, <1>10
  <2> HIDE DEF n
  <2>2. /\ call' \in Call /\ call'.op = call.op /\ call'.left = call.left
        /\ call'.done = n /\ call'.result = C
    BY <2>0, <2>1, <2>3 DEF Call
  <2> QED
    BY <1>1, <2>2 DEF n
<1>16. Undoing'
  BY <1>1, <1>14, <1>15 DEF Undoing, A
<1>17. Building'
  BY <1>15 DEF Building
<1> QED
  BY <1>1, <1>9, <1>11, <1>15, <1>16, <1>17, SameLocations

(***************************************************************************)
(* One more item of the right operand.  If the head of the result is met   *)
(* it is one of the left operand's: the item before was of another datum,  *)
(* so the head is not what that item made.                                 *)
(***************************************************************************)
LEMMA CombineGood ==
  ASSUME IInv, Combine
  PROVE  IInv'
<1> DEFINE A == at[call.left]
           B == at[call.right]
           R == call.result
           k == call.done
           it == B[Len(B) - k]
           C == Combined(it, R)
           fresh == ~Cancels(it, R)
<1>1. call # Idle /\ call.op = "multiply" /\ k < Len(B) /\ UNCHANGED at
  BY DEF Combine, Multiplying, Idle
<1>2. call' = [call EXCEPT !.done = k + 1, !.result = C, !.fresh = fresh]
  BY DEF Combine, Factor
<1>3. /\ call \in Call /\ call.left \in Shape /\ call.right \in Shape
      /\ k \in Nat /\ A \in Location /\ Len(A) \in Nat
      /\ B \in Location /\ Len(B) \in Nat /\ R \in Location
      /\ call.fresh \in BOOLEAN
  BY <1>1, CallIs DEF IInv
<1>4. /\ Good(A) /\ Good(B) /\ Good(R) /\ DatumsOf(R) \subseteq Datums
      /\ Builds(A, B, R, k, call.fresh)
  BY <1>1, <1>3 DEF IInv, AllGood, Underway, Building
<1>5. DatumsOf(A) \subseteq Datums /\ DatumsOf(B) \subseteq Datums
  BY <1>3, DatumsAre DEF IInv
<1> HIDE DEF A, B, R, k
<1>7. Len(B) - k \in 1 .. Len(B)
  BY <1>1, <1>3
<1>8. /\ it \in Item /\ it.datum \in Datum /\ it.datum.trsf \in Motion
      /\ it.power \in Power /\ it.power \in Int
      /\ Pow(it.datum.trsf, it.power) \in Motion
  BY <1>3, <1>7, ItemIs
<1>9. it \in Items(B) /\ it.datum \in Datums /\ it.power # 0
  <2>1. Len(B) - k \in DOMAIN B
    BY <1>3, <1>7, LenProperties DEF Location
  <2>2. it \in Items(B) /\ it.power # 0
    BY <1>4, <2>1 DEF Items, Good, Reduced
  <2> QED
    BY <1>5, <2>2 DEF DatumsOf
<1>10. ASSUME Meets(it, R)
       PROVE  /\ ~call.fresh
              /\ R # <<>> /\ R[1] \in Items(R) /\ R[1] \in Items(A)
              /\ R[1].datum = it.datum
              /\ it.power + R[1].power \in Power \cup {0}
  <2>1. R # <<>> /\ R[1].datum.addr = it.datum.addr
    BY <1>10 DEF Meets, IsIdentity
  <2>2. R[1] \in Items(R)
    <3>1. 1 \in DOMAIN R
      BY <1>3, <2>1, LenProperties, EmptySeq DEF Location
    <3> QED
      BY <3>1 DEF Items
  <2>3. ~call.fresh
    <3> SUFFICES ASSUME call.fresh PROVE FALSE
      OBVIOUS
    <3>1. k > 0 /\ R[1].datum.addr = B[Len(B) - k + 1].datum.addr
      BY <1>4 DEF Builds
    <3>2. Len(B) - k \in 1 .. Len(B) - 1
      BY <1>3, <1>7, <3>1
    <3>3. it.datum.addr # B[Len(B) - k + 1].datum.addr
      BY <1>4, <3>2 DEF Good, Reduced
    <3> QED
      BY <2>1, <3>1, <3>3
  <2>4. R[1] \in Items(A)
    BY <1>1, <1>4, <2>2, <2>3 DEF Builds
  <2>5. R[1].datum = it.datum
    <3>1. R[1].datum \in Datums
      BY <1>4, <2>2 DEF DatumsOf
    <3> QED
      BY <1>9, <2>1, <3>1 DEF IInv, TypeOK, OneEach
  <2>6. R[1].power + it.power \in Power \cup {0} /\ R[1].power \in Int
    <3>1. Small(A, B)
      BY <1>4 DEF Builds
    <3>2. R[1].power \in Int
      <4>1. 1 \in 1 .. Len(R)
        BY <1>3, <2>1, TailIs
      <4> QED
        BY <1>3, <4>1, ItemIs
    <3> QED
      BY <1>9, <2>1, <2>4, <3>1, <3>2 DEF Small
  <2>7. it.power + R[1].power = R[1].power + it.power
    BY <1>8, <2>6
  <2> QED
    BY <2>1, <2>2, <2>3, <2>4, <2>5, <2>6, <2>7
<1>11. /\ Good(C)
       /\ Transformation(C) = Mul(Transformation(R), Pow(it.datum.trsf, it.power))
  BY <1>4, <1>8, <1>9, <1>10, CombinedGood
<1>12. C \in Location
  BY <1>11 DEF Good
<1>13. \/ /\ Tail(R) \in Location /\ DatumsOf(Tail(R)) \subseteq DatumsOf(R)
          /\ Items(Tail(R)) \subseteq Items(R)
       \/ R = <<>>
  BY <1>3, TailIs, ItemsOfTail
<1>14. /\ DatumsOf(C) \subseteq Datums
       /\ fresh => C # <<>> /\ C[1].datum.addr = it.datum.addr
       /\ ~fresh => Items(C) \subseteq Items(A)
  <2>1. CASE Cancels(it, R)
    <3>1. C = Tail(R) /\ ~fresh /\ Meets(it, R)
      BY <2>1 DEF Combined, Cancels
    <3>2. Items(C) \subseteq Items(R) /\ DatumsOf(C) \subseteq DatumsOf(R)
      BY <1>3, <1>10, <3>1, ItemsOfTail
    <3>3. Items(R) \subseteq Items(A)
      BY <1>1, <1>4, <1>10, <3>1 DEF Builds
    <3> QED
      BY <1>4, <3>1, <3>2, <3>3
  <2>2. ASSUME NEW L \in Location, NEW p \in Power,
               C = Construct(it.datum, p, L), DatumsOf(L) \subseteq Datums,
               ~Cancels(it, R)
        PROVE  /\ DatumsOf(C) \subseteq Datums
               /\ C # <<>> /\ C[1].datum.addr = it.datum.addr
    <3>1. DatumsOf(C) \subseteq {it.datum} \cup DatumsOf(L)
      BY <1>8, <2>2, DatumsOfConstruct
    <3>2. /\ C \in Location /\ Len(C) = Len(L) + 1 /\ Len(L) \in Nat
          /\ C[1] = [datum |-> it.datum, power |-> p,
                     trsf |-> Mul(Transformation(L), Pow(it.datum.trsf, p))]
      BY <1>8, <2>2, ConstructIs, LenProperties DEF Location
    <3> HIDE DEF C, it
    <3>3. Len(C) # 0 /\ C[1].datum = it.datum
      BY <3>2
    <3>4. C # <<>>
      BY <3>3, EmptySeq
    <3> QED
      BY <1>9, <2>2, <3>1, <3>3, <3>4
  <2>3. CASE Meets(it, R) /\ ~Cancels(it, R)
    <3>1. C = Construct(it.datum, it.power + R[1].power, Tail(R))
      BY <2>3 DEF Combined
    <3>2. it.power + R[1].power \in Power
      <4>1. it.power + R[1].power # 0
        BY <2>3 DEF Cancels
      <4> QED
        BY <1>10, <2>3, <4>1
    <3>3. Tail(R) \in Location /\ DatumsOf(Tail(R)) \subseteq Datums
      BY <1>4, <1>10, <1>13, <2>3
    <3> QED
      BY <2>2, <2>3, <3>1, <3>2, <3>3
  <2>4. CASE ~Meets(it, R)
    <3>1. C = Construct(it.datum, it.power, R) /\ ~Cancels(it, R)
      BY <2>4 DEF Combined, Cancels
    <3> QED
      BY <1>3, <1>4, <1>8, <2>2, <3>1
  <2> QED
    BY <2>1, <2>3, <2>4 DEF Cancels
<1>15. Transformation(C) = Mul(Transformation(A), From(B, Len(B) - (k + 1) + 1))
  <2> DEFINE g == it.datum.trsf
             X == From(B, Len(B) - k + 1)
  <2>1. Transformation(A) \in Motion /\ X \in Motion
    BY <1>3, <1>7, FromIs
  <2>2. Transformation(R) = Mul(Transformation(A), X)
    BY <1>4 DEF Builds
  <2>3. Mul(Mul(Transformation(A), X), Pow(g, it.power))
          = Mul(Transformation(A), Mul(X, Pow(g, it.power)))
    BY <1>8, <2>1, GroupAssumption
  <2>4. Mul(X, Pow(g, it.power)) = it.trsf
    BY <1>4, <1>7 DEF Good, Kept
  <2>5. From(B, Len(B) - (k + 1) + 1) = it.trsf
    <3>1. Len(B) - (k + 1) + 1 = Len(B) - k
      BY <1>3
    <3> QED
      BY <1>3, <1>7, <3>1 DEF From
  <2> QED
    BY <1>11, <2>2, <2>3, <2>4, <2>5
<1>16. ASSUME Opposite(A, B)
       PROVE  /\ ~fresh
              /\ Len(C) = Len(A) - (k + 1)
              /\ \A i \in 1 .. Len(C) : C[i] = A[i + (k + 1)]
  <2>1. /\ Len(A) = Len(B) /\ Len(R) = Len(A) - k
        /\ \A i \in 1 .. Len(R) : R[i] = A[i + k]
    BY <1>4, <1>16 DEF Builds, Opposite
  <2>2. R # <<>> /\ R[1] = A[k + 1]
    <3>1. Len(R) # 0 /\ 1 \in 1 .. Len(R) /\ 1 + k = k + 1
      BY <1>1, <1>3, <2>1
    <3>2. R # <<>>
      BY <3>1, EmptySeq
    <3> QED
      BY <2>1, <3>1, <3>2
  <2>3. it.datum = A[k + 1].datum /\ it.power = -A[k + 1].power
    <3>1. k + 1 \in DOMAIN A /\ Len(A) + 1 - (k + 1) = Len(B) - k
      BY <1>1, <1>3, <2>1, LenProperties DEF Location
    <3> QED
      BY <1>16, <3>1 DEF Opposite
  <2>4. Cancels(it, R)
    <3>1. A[k + 1].power \in Int
      BY <1>1, <1>3, <2>1, ItemIs
    <3> QED
      BY <2>2, <2>3, <3>1 DEF Cancels, Meets, IsIdentity
  <2>5. C = Tail(R)
    BY <2>4 DEF Combined
  <2>6. /\ Len(Tail(R)) = Len(R) - 1
        /\ \A i \in 1 .. Len(R) - 1 : Tail(R)[i] = R[i + 1]
    BY <1>3, <2>2, TailIs
  <2>7. Len(C) = Len(A) - (k + 1)
    BY <1>3, <2>1, <2>5, <2>6
  <2>8. ASSUME NEW i \in 1 .. Len(C) PROVE C[i] = A[i + (k + 1)]
    <3>1. i \in 1 .. Len(R) - 1 /\ i + 1 \in 1 .. Len(R) /\ (i + 1) + k = i + (k + 1)
      BY <1>3, <2>1, <2>7
    <3> QED
      BY <2>1, <2>5, <2>6, <3>1
  <2> QED
    BY <2>4, <2>7, <2>8
<1> HIDE DEF C, it, fresh
<1>17. Builds(A, B, C, k + 1, fresh)
  <2>1. k + 1 \in 0 .. Len(B) /\ k + 1 > 0
    BY <1>1, <1>3
  <2>2. Len(B) - (k + 1) + 1 = Len(B) - k
    BY <1>3
  <2>3. fresh => C[1].datum.addr = B[Len(B) - (k + 1) + 1].datum.addr
    BY <1>14, <2>2 DEF it
  <2>4. Small(A, B)
    BY <1>4 DEF Builds
  <2> QED
    BY <1>14, <1>15, <1>16, <2>1, <2>3, <2>4 DEF Builds
<1>18. /\ call' \in Call /\ call'.op = "multiply"
       /\ call'.left = call.left /\ call'.right = call.right
       /\ call'.done = k + 1 /\ call'.result = C /\ call'.fresh = fresh
  <2> DEFINE n == k + 1
  <2>1. n \in Nat /\ fresh \in BOOLEAN
    BY <1>3 DEF fresh
  <2>0. call' = [call EXCEPT !.done = n, !.result = C, !.fresh = fresh]
    BY <1>2
  <2>3. call \in Call /\ C \in Location
    BY <1>3, <1>12
  <2> HIDE DEF n
  <2>2. /\ call' \in Call /\ call'.op = call.op
        /\ call'.left = call.left /\ call'.right = call.right
        /\ call'.done = n /\ call'.result = C /\ call'.fresh = fresh
    BY <2>0, <2>1, <2>3 DEF Call
  <2> QED
    BY <1>1, <2>2 DEF n
<1>19. Building'
  BY <1>1, <1>17, <1>18 DEF Building, A, B
<1>20. Undoing'
  BY <1>18 DEF Undoing
<1> QED
  BY <1>1, <1>11, <1>14, <1>18, <1>19, <1>20, SameLocations

-----------------------------------------------------------------------------
(* The other steps give one shape a location that was there, or none. *)
LEMMA OtherSteps ==
  ASSUME IInv,
         \/ \E s \in Shape : Identity(s)
         \/ \E s, m \in Shape : Share(s, m)
         \/ \E s, m \in Shape, n \in Power : Raise(s, m, n)
         \/ Return
  PROVE  IInv'
<1>1. OneEach
  BY DEF IInv, TypeOK
<1>2. ASSUME NEW s \in Shape, NEW L, Good(L), DatumsOf(L) \subseteq Datums,
             at' = [at EXCEPT ![s] = L], call' = Idle
      PROVE  IInv'
  <2>1. \A d, e \in Datums \cup DatumsOf(L) : d.addr = e.addr => d = e
    BY <1>1, <1>2 DEF OneEach
  <2> QED
    BY <1>2, <2>1, PutGood
<1>3. ASSUME NEW s \in Shape, Identity(s) PROVE IInv'
  <2>1. Good(<<>>) /\ DatumsOf(<<>>) = {}
    BY EmptySeq DEF Location, Good, Reduced, Kept, DatumsOf, Items
  <2> QED
    BY <1>2, <1>3, <2>1 DEF Identity
<1>4. ASSUME NEW s \in Shape, NEW m \in Shape, Share(s, m) PROVE IInv'
  <2>1. Good(at[m]) /\ DatumsOf(at[m]) \subseteq Datums
    BY DatumsAre DEF IInv, AllGood
  <2> QED
    BY <1>2, <1>4, <2>1 DEF Share
<1>5. ASSUME NEW s \in Shape, NEW m \in Shape, NEW n \in Power, Raise(s, m, n)
      PROVE  IInv'
  <2> DEFINE it == at[m][1]
             p == it.power * n
             L == Construct(it.datum, p, <<>>)
  <2>1. p \in Power /\ p # 0 /\ Len(at[m]) = 1
          /\ at' = [at EXCEPT ![s] = L] /\ call' = Idle
    BY <1>5 DEF Raise
  <2> HIDE DEF p
  <2>2. at[m] \in Location /\ 1 \in 1 .. Len(at[m])
    BY <2>1 DEF IInv, TypeOK
  <2>3. it.datum \in Datum /\ it.datum \in Datums
    BY <2>2, ItemIs, DatumsAre DEF IInv
  <2> HIDE DEF it
  <2>4. <<>> \in Location /\ Good(<<>>) /\ DatumsOf(<<>>) = {}
    BY EmptySeq DEF Location, Good, Reduced, Kept, DatumsOf, Items
  <2>5. Good(L)
    BY <2>1, <2>3, <2>4, ConstructGood
  <2>6. DatumsOf(L) \subseteq Datums
    BY <2>1, <2>3, <2>4, DatumsOfConstruct
  <2> HIDE DEF L
  <2> QED
    BY <1>2, <2>1, <2>5, <2>6
<1>6. CASE Return
  <2>1. call # Idle /\ at' = [at EXCEPT ![call.to] = call.result] /\ call' = Idle
    BY <1>6 DEF Return
  <2>2. call.to \in Shape /\ Good(call.result) /\ DatumsOf(call.result) \subseteq Datums
    BY <2>1, CallIs DEF IInv, Underway
  <2> QED
    BY <1>2, <2>1, <2>2
<1> QED
  BY <1>3, <1>4, <1>5, <1>6

LEMMA StepInv == IInv /\ [Next]_vars => IInv'
<1> SUFFICES ASSUME IInv, [Next]_vars PROVE IInv'
  OBVIOUS
<1>1. CASE \E s \in Shape : Reset(s) \/ SetLocation(s) \/ AddLocation(s)
  <2>1. ASSUME NEW s \in Shape, NEW g \in Motion
        PROVE  Mul(Transformation(at[s]), g) \in Motion
    BY <2>1, FromIs, GroupAssumption DEF IInv, TypeOK
  <2> QED
    BY <1>1, <2>1, LocatedGood, GroupAssumption, BoundAssumption
       DEF Reset, SetLocation, AddLocation
<1>2. CASE \E s, m \in Shape : SetLocationFrom(s, m)
  <2>1. \A m \in Shape : Transformation(at[m]) \in Motion
    BY FromIs DEF IInv, TypeOK
  <2> QED
    BY <1>2, <2>1, LocatedGood DEF SetLocationFrom
<1>3. CASE \E s, m \in Shape : Invert(s, m)
  BY <1>3, InvertStart
<1>4. CASE \E s, l, r \in Shape : Multiply(s, l, r)
  BY <1>4, MultiplyStep
<1>5. CASE Combine
  BY <1>5, CombineGood
<1>6. CASE InvertItem
  BY <1>6, InvertGood
<1>7. CASE \/ \E s \in Shape : Identity(s)
           \/ \E s, m \in Shape : Share(s, m)
           \/ \E s, m \in Shape, n \in Power : Raise(s, m, n)
           \/ Return
  BY <1>7, OtherSteps
<1>8. CASE UNCHANGED vars
  BY <1>8 DEF vars, IInv, TypeOK, OneEach, Datums, AllGood, Underway, Building, Undoing
<1> QED
  BY <1>1, <1>2, <1>3, <1>4, <1>5, <1>6, <1>7, <1>8 DEF Next

LEMMA AlwaysInv == Spec => []IInv
BY InitInv, StepInv, PTL DEF Spec

-----------------------------------------------------------------------------
(***************************************************************************)
(* Locations are chains of items, and at an address there is one datum:    *)
(* comparing addresses is comparing datums.                                *)
(***************************************************************************)
THEOREM TypeCorrect == Spec => []TypeOK
<1>1. IInv => TypeOK
  BY DEF IInv
<1> QED
  BY <1>1, AlwaysInv, PTL

(***************************************************************************)
(* Every location is reduced, in the middle of an operation as well.       *)
(***************************************************************************)
THEOREM AlwaysReduced == Spec => []ChainsReduced
<1>1. IInv => ChainsReduced
  BY DEF IInv, AllGood, Good, Underway, ChainsReduced
<1> QED
  BY <1>1, AlwaysInv, PTL

(***************************************************************************)
(* ToTail never reads the tail out of a node that its Clear has freed.     *)
(***************************************************************************)
THEOREM TailsAlwaysOutliveHeads == Spec => []TailsOutliveHeads
<1>1. ASSUME IInv, Multiplying, Meets(Factor, call.result), call.fresh
      PROVE  FALSE
  <2> DEFINE B == at[call.right]
             k == call.done
             R == call.result
  <2>1. call # Idle /\ call.op = "multiply" /\ k < Len(B)
    BY <1>1 DEF Multiplying, Idle
  <2>2. k \in Nat /\ B \in Location /\ Len(B) \in Nat /\ Good(B)
    BY <1>1, <2>1, CallIs DEF IInv, AllGood
  <2>3. Builds(at[call.left], B, R, k, TRUE)
    BY <1>1, <2>1, CallIs DEF IInv, Underway, Building
  <2>4. R[1].datum.addr = B[Len(B) - k].datum.addr
    BY <1>1 DEF Meets, Factor
  <2> HIDE DEF B, k, R
  <2>5. k > 0 /\ R[1].datum.addr = B[Len(B) - k + 1].datum.addr
    BY <2>3 DEF Builds
  <2>6. Len(B) - k \in 1 .. Len(B) - 1
    BY <2>1, <2>2, <2>5
  <2>7. B[Len(B) - k].datum.addr # B[Len(B) - k + 1].datum.addr
    BY <2>2, <2>6 DEF Good, Reduced
  <2> QED
    BY <2>4, <2>5, <2>7
<1>2. IInv => TailsOutliveHeads
  BY <1>1 DEF TailsOutliveHeads
<1> QED
  BY <1>2, AlwaysInv, PTL

(* What is known of an operation that has nothing left to do. *)
LEMMA AtTheEnd ==
  ASSUME IInv, Finished
  PROVE  LET A == at[call.left]
             B == at[call.right]
             R == call.result
         IN  /\ A \in Location /\ B \in Location /\ R \in Location
             /\ call.op \in {"multiply", "invert"}
             /\ call.op = "multiply" => Builds(A, B, R, Len(B), call.fresh)
             /\ call.op = "invert" => Undoes(A, R, Len(A))
<1> DEFINE A == at[call.left]
           B == at[call.right]
           R == call.result
           k == call.done
<1>1. call # Idle /\ ~Multiplying /\ ~Inverting
  BY DEF Finished
<1>2. /\ call.op \in {"multiply", "invert"} /\ k \in Nat
      /\ A \in Location /\ B \in Location /\ R \in Location
      /\ Len(A) \in Nat /\ Len(B) \in Nat
  BY <1>1, CallIs DEF IInv
<1>3. /\ call.op = "multiply" => Builds(A, B, R, k, call.fresh) /\ ~(k < Len(B))
      /\ call.op = "invert" => Undoes(A, R, k) /\ ~(k < Len(A))
  BY <1>1 DEF IInv, Underway, Building, Undoing, Multiplying, Inverting
<1> HIDE DEF A, B, R, k
<1>4. /\ call.op = "multiply" => k = Len(B)
      /\ call.op = "invert" => k = Len(A)
  BY <1>2, <1>3 DEF Builds, Undoes
<1> QED
  BY <1>2, <1>3, <1>4 DEF A, B, R

(***************************************************************************)
(* The kept transformation of a product is the product of the kept ones,   *)
(* that of an inverse the inverse (Multiplied, Inverted, Construct).       *)
(***************************************************************************)
THEOREM ResultsAlwaysRight == Spec => []ResultsAreRight
<1>1. ASSUME IInv, Finished, call.op = "multiply"
      PROVE  Transformation(call.result)
               = Mul(Transformation(at[call.left]), Transformation(at[call.right]))
  <2> DEFINE A == at[call.left]
             B == at[call.right]
  <2>1. B \in Location /\ Builds(A, B, call.result, Len(B), call.fresh)
    BY <1>1, AtTheEnd
  <2> HIDE DEF A, B
  <2>2. Len(B) - Len(B) + 1 = 1
    BY <2>1, LenProperties DEF Location
  <2>3. From(B, Len(B) - Len(B) + 1) = Transformation(B)
    BY <2>1, <2>2, FromIs
  <2> QED
    BY <2>1, <2>3 DEF Builds, A, B
<1>2. ASSUME IInv, Finished, call.op = "invert"
      PROVE  Transformation(call.result) = Inv(Transformation(at[call.left]))
  <2> DEFINE A == at[call.left]
             R == call.result
             f == Transformation(A)
             g == Transformation(R)
  <2>1. A \in Location /\ R \in Location /\ Undoes(A, R, Len(A))
    BY <1>2, AtTheEnd
  <2>2. f \in Motion /\ g \in Motion
    BY <2>1, FromIs
  <2>3. Mul(f, g) = From(A, Len(A) + 1)
    BY <2>1 DEF Undoes
  <2> HIDE DEF A, R
  <2>4. Mul(f, g) = Id
    <3>1. Len(A) + 1 > Len(A)
      BY <2>1, LenProperties DEF Location
    <3> QED
      BY <2>3, <3>1 DEF From
  <2> HIDE DEF f, g
  <2>5. Inv(f) \in Motion
    BY <2>2, GroupAssumption
  <2>6. Mul(Mul(Inv(f), f), g) = Mul(Inv(f), Mul(f, g))
    BY <2>2, <2>5, GroupAssumption
  <2>7. Mul(Inv(f), f) = Id /\ Mul(Id, g) = g /\ Mul(Inv(f), Id) = Inv(f)
    BY <2>2, <2>5, GroupAssumption
  <2>8. g = Inv(f)
    BY <2>4, <2>6, <2>7
  <2> QED
    BY <2>8 DEF f, g, A, R
<1>3. IInv => ResultsAreRight
  <2> SUFFICES ASSUME IInv, Finished
               PROVE  Transformation(call.result) =
                 CASE call.op = "multiply" ->
                        Mul(Transformation(at[call.left]), Transformation(at[call.right]))
                   [] call.op = "invert" -> Inv(Transformation(at[call.left]))
    BY DEF ResultsAreRight
  <2>1. call.op \in {"multiply", "invert"}
    BY AtTheEnd
  <2>2. CASE call.op = "multiply"
    BY <1>1, <2>2
  <2>3. CASE call.op = "invert"
    BY <1>2, <2>3
  <2> QED
    BY <2>1, <2>2, <2>3
<1> QED
  BY <1>3, AlwaysInv, PTL

(***************************************************************************)
(* A location times its inverse is the empty chain.  This is what lets     *)
(* TopoDS_Builder::Add take a location away and an iterator put it back:   *)
(* what comes out is the same chain, and IsSame says so.                   *)
(***************************************************************************)
THEOREM QuotientsVanish == Spec => []QuotientVanishes
<1>1. ASSUME IInv, Finished, call.op = "invert"
      PROVE  Opposite(at[call.left], call.result)
  <2> DEFINE A == at[call.left]
             R == call.result
  <2>1. A \in Location /\ R \in Location /\ Undoes(A, R, Len(A))
    BY <1>1, AtTheEnd
  <2> HIDE DEF A, R
  <2>2. /\ Len(A) \in Nat /\ DOMAIN A = 1 .. Len(A) /\ Len(R) = Len(A)
        /\ \A j \in 1 .. Len(A) : /\ R[j].datum = A[Len(A) + 1 - j].datum
                                  /\ R[j].power = -A[Len(A) + 1 - j].power
    BY <2>1, LenProperties DEF Location, Undoes
  <2>3. ASSUME NEW i \in DOMAIN A
        PROVE  /\ R[Len(A) + 1 - i].datum = A[i].datum
               /\ R[Len(A) + 1 - i].power = -A[i].power
    <3>1. /\ Len(A) + 1 - i \in 1 .. Len(A)
          /\ Len(A) + 1 - (Len(A) + 1 - i) = i
      BY <2>2
    <3> QED
      BY <2>2, <3>1
  <2>4. Opposite(A, R)
    BY <2>2, <2>3 DEF Opposite
  <2> QED
    BY <2>4 DEF A, R
<1>2. ASSUME IInv, Finished, call.op = "multiply",
             Opposite(at[call.left], at[call.right])
      PROVE  IsIdentity(call.result)
  <2> DEFINE A == at[call.left]
             B == at[call.right]
             R == call.result
  <2>1. /\ A \in Location /\ R \in Location
        /\ Builds(A, B, R, Len(B), call.fresh)
    BY <1>2, AtTheEnd
  <2>2. Opposite(A, B)
    BY <1>2
  <2> HIDE DEF A, B, R
  <2>3. Len(A) = Len(B) /\ Len(R) = Len(A) - Len(B) /\ Len(A) \in Nat
    BY <2>1, <2>2, LenProperties DEF Builds, Opposite, Location
  <2>4. R = <<>>
    BY <2>1, <2>3, EmptySeq DEF Location
  <2> QED
    BY <2>4 DEF R, IsIdentity
<1>3. IInv => QuotientVanishes
  BY <1>1, <1>2 DEF QuotientVanishes
<1> QED
  BY <1>3, AlwaysInv, PTL
=============================================================================
