------------------------ MODULE PeriodicMakerProofs ------------------------
(***************************************************************************)
(* Proofs about PeriodicMaker, for any shapes, directions, numbers of      *)
(* repetitions, names and histories.  What a command that repeats is worth *)
(* is said of its transit: the maker with its history.                     *)
(***************************************************************************)
EXTENDS PeriodicMaker, TLAPS

Blocked(m) ==
  /\ \A d \in Dir : m.reach[d] <= MaxReach
  /\ m.tiles = {} => m.reach = Unset
  /\ m.tiles # {} =>
       \E lo \in [Dir -> -MaxReach .. 0] :
         Origin \in Box(lo, m) /\ m.tiles = Box(lo, m)

Followed(t) ==
  /\ t.maker.tiles \subseteq t.trace.tiles
  /\ ~t.maker.warned =>
       t.trace.tiles = (IF t.maker.tiles = {} THEN {Origin} ELSE t.maker.tiles)
  /\ Origin \in t.trace.tiles
  /\ t.maker.failed \/ t.trace.of = t.maker.base
  /\ t.maker.split = t.maker.base

Transit == [maker : Maker, trace : History]

TransitOK(t) ==
  /\ t \in Transit
  /\ Blocked(t.maker)
  /\ Followed(t)

Inv == TypeOK /\ TransitOK(Now) /\ SessionTellsOfResult
-----------------------------------------------------------------------------
\* Arithmetic of repetitions.
LEMMA TimesMonotone ==
  ASSUME NEW a \in Nat, NEW b \in Nat, NEW w \in Nat, a <= b
  PROVE  a * w <= b * w
<1>1. PICK c \in Nat : b = a + c  BY SMT
<1>2. b * w = a * w + c * w  BY <1>1, SMT
<1>3. c * w >= 0  BY SMT
<1> QED  BY <1>2, <1>3, SMT

LEMMA WhichCopy ==
  ASSUME NEW a \in Nat, NEW w \in Nat \ {0}, NEW n \in Nat, a < (1 + n) * w
  PROVE  \E k \in 0 .. n : k * w <= a /\ a < k * w + w
<1> DEFINE k == a \div w
<1>1. k \in Nat /\ w * k <= a /\ a < w * k + w  BY SMT
<1>2. w * k = k * w  BY <1>1, SMT
<1>3. k <= n
  <2> SUFFICES ASSUME n + 1 <= k  PROVE FALSE  BY <1>1
  <2>1. (n + 1) * w <= k * w  BY <1>1, TimesMonotone
  <2> QED  BY <2>1, <1>1, <1>2, SMT
<1>4. k * w <= a /\ a < k * w + w  BY <1>1, <1>2
<1> HIDE DEF k
<1> QED  BY <1>1, <1>3, <1>4

LEMMA AbsTypes ==
  ASSUME NEW n \in Int \ {0}
  PROVE  Abs(n) \in Nat \ {0} /\ (n < 0 => n = -Abs(n)) /\ (n >= 0 => n = Abs(n))
BY DEF Abs

\* How a tile is moved, and that moving it back gives the tile again.
LEMMA MovedTypes ==
  ASSUME NEW x \in Tile, NEW d \in Dir, NEW k \in Int
  PROVE  /\ Moved(x, d, k) \in Tile
         /\ Moved(x, d, k)[d] = x[d] + k
         /\ \A e \in Dir \ {d} : Moved(x, d, k)[e] = x[e]
BY DEF Moved, Tile

LEMMA MovedBack ==
  ASSUME NEW x \in Tile, NEW d \in Dir, NEW k \in Int
  PROVE  Moved(Moved(x, d, -k), d, k) = x
<1>1. Moved(x, d, -k) \in Tile /\ Moved(x, d, -k)[d] = x[d] - k
      /\ \A e \in Dir \ {d} : Moved(x, d, -k)[e] = x[e]
  <2>1. -k \in Int /\ x[d] \in Int  BY DEF Tile
  <2>2. x[d] + -k = x[d] - k  BY <2>1
  <2> QED  BY <2>1, <2>2, MovedTypes
<1> DEFINE y == Moved(x, d, -k)
<1>2. Moved(y, d, k) \in Tile /\ Moved(y, d, k)[d] = y[d] + k
      /\ \A e \in Dir \ {d} : Moved(y, d, k)[e] = y[e]
  BY <1>1, MovedTypes
<1>3. \A e \in Dir : Moved(y, d, k)[e] = x[e]
  <2> TAKE e \in Dir
  <2>1. CASE e = d
    <3>1. x[d] \in Int  BY DEF Tile
    <3> HIDE DEF y
    <3>2. y[d] = x[d] - k  BY <1>1 DEF y
    <3> QED  BY <3>1, <3>2, <1>2, <2>1, SMT
  <2>2. CASE e # d  BY <1>1, <1>2, <2>2
  <2> QED  BY <2>1, <2>2
<1> QED  BY <1>2, <1>3 DEF Tile

LEMMA SpreadTypes ==
  ASSUME NEW T \in SUBSET Tile, NEW d \in Dir, NEW n \in Int \ {0},
         NEW w \in Nat
  PROVE  Spread(T, d, n, w) \in SUBSET Tile /\ T \subseteq Spread(T, d, n, w)
<1>1. ASSUME NEW x \in T, NEW k \in 0 .. Abs(n)
      PROVE  Moved(x, d, (IF n < 0 THEN -k ELSE k) * w) \in Tile
  <2>1. k \in Int  BY AbsTypes
  <2>2. (IF n < 0 THEN -k ELSE k) * w \in Int  BY <2>1, SMT
  <2> QED  BY <2>2, MovedTypes
<1>2. ASSUME NEW x \in T  PROVE x \in Spread(T, d, n, w)
  <2>1. 0 \in 0 .. Abs(n)  BY AbsTypes
  <2>2. (IF n < 0 THEN -0 ELSE 0) * w = 0  BY SMT
  <2>3. Moved(x, d, 0) = x  BY DEF Moved, Tile
  <2> QED  BY <2>1, <2>2, <2>3 DEF Spread
<1> QED  BY <1>1, <1>2 DEF Spread

LEMMA BoxTypes ==
  ASSUME NEW lo, NEW m
  PROVE  Box(lo, m) \in SUBSET Tile
BY MakerAssumption DEF Box, Tile

LEMMA WidthTypes ==
  ASSUME NEW m \in Maker, NEW d \in Dir
  PROVE  Width(m, d) \in Nat \ {0}
BY DEF Width, Maker

\* A box spread in one direction is the box that is longer there.
LEMMA SpreadBox ==
  ASSUME NEW m \in Maker, NEW m2 \in Maker, NEW lo \in [Dir -> -MaxReach .. 0],
         NEW d \in Dir, NEW n \in Int \ {0},
         \A e \in Dir : m.reach[e] <= MaxReach,
         Width(m, d) * (1 + Abs(n)) <= MaxReach,
         m2.reach = [m.reach EXCEPT ![d] = Width(m, d) + Abs(n) * Width(m, d)],
         Origin \in Box(lo, m)
  PROVE  \E lo2 \in [Dir -> -MaxReach .. 0] :
           /\ Origin \in Box(lo2, m2)
           /\ Spread(Box(lo, m), d, n, Width(m, d)) = Box(lo2, m2)
<1> DEFINE w == Width(m, d)
           N == Abs(n)
           Nw == N * w
           lo2 == [lo EXCEPT ![d] = IF n < 0 THEN @ - Nw ELSE @]
<1>1. w \in Nat \ {0} /\ N \in Nat \ {0} /\ MaxReach \in Nat \ {0}
  BY WidthTypes, AbsTypes, MakerAssumption
<1>2. Nw \in Nat /\ w + Nw <= MaxReach /\ Nw >= w
  <2>1. w * (1 + N) = w + Nw  BY <1>1, SMT
  <2>2. Nw \in Nat  BY <1>1, SMT
  <2>3. 1 * w <= N * w  BY <1>1, TimesMonotone
  <2> QED  BY <2>1, <2>2, <2>3, <1>1
<1>3. lo[d] \in -MaxReach .. 0 /\ lo[d] <= 0 /\ 0 < lo[d] + w
  BY <1>1 DEF Box, Origin
<1>4. Width(m2, d) = w + Nw /\ \A e \in Dir \ {d} : Width(m2, e) = Width(m, e)
  <2>1. m.reach \in [Dir -> Nat]  BY DEF Maker
  <2>2. m2.reach[d] = w + Nw /\ \A e \in Dir \ {d} : m2.reach[e] = m.reach[e]
    BY <2>1
  <2>3. w + Nw # 0  BY <1>1, <1>2
  <2> HIDE DEF w, Nw
  <2> QED  BY <2>2, <2>3 DEF Width
<1>5. lo2 \in [Dir -> -MaxReach .. 0]
      /\ lo2[d] = (IF n < 0 THEN lo[d] - Nw ELSE lo[d])
      /\ \A e \in Dir \ {d} : lo2[e] = lo[e]
  <2> HIDE DEF w, Nw, N
  <2>1. (IF n < 0 THEN lo[d] - Nw ELSE lo[d]) \in -MaxReach .. 0
    BY <1>1, <1>2, <1>3
  <2> QED  BY <2>1
<1> HIDE DEF lo2
<1>6. \A e \in Dir : lo2[e] <= 0 /\ 0 < lo2[e] + Width(m2, e)
  <2> TAKE e \in Dir
  <2>1. CASE e = d
    <3> HIDE DEF w, Nw, N
    <3> QED  BY <2>1, <1>1, <1>2, <1>3, <1>4, <1>5
  <2>2. CASE e # d  BY <2>2, <1>4, <1>5 DEF Box, Origin
  <2> QED  BY <2>1, <2>2
<1>7. Origin \in Box(lo2, m2)
  <2>1. Origin \in [Dir -> -MaxReach .. MaxReach]  BY <1>1 DEF Origin
  <2> QED  BY <2>1, <1>6 DEF Box, Origin
<1>8. Spread(Box(lo, m), d, n, w) \subseteq Box(lo2, m2)
  <2> SUFFICES ASSUME NEW x \in Box(lo, m), NEW k \in 0 .. N
               PROVE  Moved(x, d, (IF n < 0 THEN -k ELSE k) * w) \in Box(lo2, m2)
    BY DEF Spread
  <2> DEFINE kw == k * w
             s == IF n < 0 THEN -kw ELSE kw
  <2>1. k \in Nat /\ k <= N  BY <1>1
  <2>2. kw \in Nat /\ kw <= Nw
    BY <2>1, <1>1, TimesMonotone
  <2>3. (IF n < 0 THEN -k ELSE k) * w = s  BY <2>1, <1>1, SMT
  <2>4. x \in Tile /\ lo[d] <= x[d] /\ x[d] < lo[d] + w /\ x[d] \in Int
    BY BoxTypes DEF Box, Tile
  <2> HIDE DEF kw, w, Nw, N
  <2>5. s \in Int  BY <2>2
  <2> HIDE DEF s
  <2> DEFINE y == Moved(x, d, s)
  <2>6. y \in Tile /\ y[d] = x[d] + s /\ \A e \in Dir \ {d} : y[e] = x[e]
    <3>1. x \in Tile  BY <2>4
    <3>2. /\ Moved(x, d, s) \in Tile
          /\ Moved(x, d, s)[d] = x[d] + s
          /\ \A e \in Dir \ {d} : Moved(x, d, s)[e] = x[e]
      BY <3>1, <2>5, MovedTypes
    <3> QED  BY <3>2
  <2> HIDE DEF y
  <2>7. lo2[d] <= y[d] /\ y[d] < lo2[d] + Width(m2, d)
    <3>1. CASE n < 0
      <4>1. y[d] = x[d] - kw /\ lo2[d] = lo[d] - Nw  BY <3>1, <2>6, <1>5 DEF s
      <4> QED  BY <4>1, <2>4, <2>2, <1>1, <1>2, <1>3, <1>4, SMT
    <3>2. CASE n >= 0
      <4>1. y[d] = x[d] + kw /\ lo2[d] = lo[d]  BY <3>2, <2>6, <1>5 DEF s
      <4> QED  BY <4>1, <2>4, <2>2, <1>1, <1>2, <1>3, <1>4, SMT
    <3> QED  BY <3>1, <3>2
  <2>8. y[d] \in -MaxReach .. MaxReach
    BY <2>6, <2>4, <2>5, <2>2, <1>1, <1>2, <1>3 DEF s
  <2>9. \A e \in Dir \ {d} : y[e] \in -MaxReach .. MaxReach
                           /\ lo2[e] <= y[e] /\ y[e] < lo2[e] + Width(m2, e)
    BY <2>6, <1>4, <1>5 DEF Box
  <2>10. y \in Box(lo2, m2)  BY <2>6, <2>7, <2>8, <2>9 DEF Box, Tile
  <2> QED  BY <2>3, <2>10 DEF y
<1>9. Box(lo2, m2) \subseteq Spread(Box(lo, m), d, n, w)
  <2> SUFFICES ASSUME NEW y \in Box(lo2, m2)
               PROVE  \E x \in Box(lo, m), k \in 0 .. N :
                        y = Moved(x, d, (IF n < 0 THEN -k ELSE k) * w)
    BY DEF Spread
  <2>1. y \in Tile /\ y[d] \in Int /\ lo2[d] \in Int
        /\ lo2[d] <= y[d] /\ y[d] < lo2[d] + (w + Nw)
    BY BoxTypes, <1>4, <1>5 DEF Box, Tile
  <2> DEFINE a == y[d] - lo2[d]
  <2>2. (1 + N) * w = w + Nw  BY <1>1, SMT
  <2>3. a \in Nat /\ a < (1 + N) * w
    <3> HIDE DEF w, Nw, N
    <3> QED  BY <2>1, <2>2, <1>1, <1>2
  <2>4. PICK k \in 0 .. N : k * w <= a /\ a < k * w + w
    <3> HIDE DEF a, w, N
    <3> QED  BY <2>3, <1>1, WhichCopy
  <2> DEFINE j == IF n < 0 THEN N - k ELSE k
             jw == j * w
             kw == k * w
  <2>5. j \in 0 .. N /\ kw \in Nat /\ jw = (IF n < 0 THEN Nw - kw ELSE kw)
    <3>1. k \in Nat /\ k <= N /\ j \in 0 .. N  BY <1>1
    <3>2. (N - k) * w = Nw - kw  BY <3>1, <1>1, SMT
    <3>3. kw \in Nat  BY <3>1, <1>1, SMT
    <3> QED  BY <3>1, <3>2, <3>3
  <2> DEFINE s == IF n < 0 THEN -jw ELSE jw
  <2>6. (IF n < 0 THEN -j ELSE j) * w = s  BY <2>5, <1>1, SMT
  <2>7. kw <= y[d] - lo2[d] /\ y[d] - lo2[d] < kw + w  BY <2>4
  <2> HIDE DEF w, Nw, N, j, jw, kw, a
  <2>8. s \in Int /\ -s \in Int  BY <2>5, <1>2
  <2> HIDE DEF s
  <2> DEFINE x == Moved(y, d, -s)
  <2>9. x \in Tile /\ x[d] = y[d] - s /\ \A e \in Dir \ {d} : x[e] = y[e]
    <3>1. y[d] + -s = y[d] - s  BY <2>8, <2>1
    <3> DEFINE r == -s
    <3>2. y \in Tile /\ r \in Int  BY <2>8, <2>1
    <3> HIDE DEF r
    <3>3. /\ Moved(y, d, r) \in Tile
          /\ Moved(y, d, r)[d] = y[d] + r
          /\ \A e \in Dir \ {d} : Moved(y, d, r)[e] = y[e]
      BY <3>2, MovedTypes
    <3> QED  BY <3>1, <3>3 DEF r
  <2>10. Moved(x, d, s) = y  BY <2>8, <2>1, MovedBack
  <2> HIDE DEF x
  <2>11. lo[d] <= x[d] /\ x[d] < lo[d] + w /\ x[d] \in -MaxReach .. MaxReach
    BY <2>9, <2>7, <2>5, <2>1, <1>1, <1>2, <1>3, <1>5 DEF s
  <2>12. \A e \in Dir \ {d} : x[e] \in -MaxReach .. MaxReach
                            /\ lo[e] <= x[e] /\ x[e] < lo[e] + Width(m, e)
    BY <2>9, <1>4, <1>5 DEF Box
  <2>13. x \in Box(lo, m)  BY <2>9, <2>11, <2>12 DEF Box, Tile, w
  <2> QED  BY <2>5, <2>6, <2>10, <2>13
<1>10. Spread(Box(lo, m), d, n, Width(m, d)) = Box(lo2, m2)  BY <1>8, <1>9
<1>11. lo2 \in [Dir -> -MaxReach .. 0]  BY <1>5
<1> HIDE DEF w, N, Nw
<1> QED  BY <1>7, <1>10, <1>11
-----------------------------------------------------------------------------
\* A shape not repeated yet is the one tile at the origin.
LEMMA BegunOK ==
  ASSUME NEW m \in Maker, Blocked(m)
  PROVE  /\ Begun(m) \in Maker
         /\ Blocked(Begun(m))
         /\ m.base # None => Begun(m).tiles # {}
         /\ Begun(m).tiles # m.tiles => m.tiles = {} /\ Begun(m).tiles = {Origin}
         /\ Begun(m).reach = m.reach
         /\ \A d \in Dir : Width(Begun(m), d) = Width(m, d)
<1> DEFINE b == Begun(m)
<1>1. Origin \in Tile  BY DEF Origin, Tile
<1>2. b \in Maker /\ b.reach = m.reach
      /\ b.tiles = (IF m.tiles = {} /\ m.base # None THEN {Origin} ELSE m.tiles)
  BY <1>1 DEF Begun, Maker
<1>3. \A d \in Dir : Width(b, d) = Width(m, d)  BY <1>2 DEF Width
<1>4. CASE m.tiles = {} /\ m.base # None
  <2>1. b.tiles = {Origin} /\ m.reach = Unset  BY <1>2, <1>4 DEF Blocked
  <2>2. \A d \in Dir : Width(b, d) = 1  BY <1>3, <2>1 DEF Width, Unset
  <2>3. Origin \in [Dir -> -MaxReach .. 0]
        /\ Origin \in [Dir -> -MaxReach .. MaxReach]
    BY MakerAssumption DEF Origin
  <2>4. Origin \in Box(Origin, b)  BY <2>2, <2>3 DEF Box, Origin
  <2>5. ASSUME NEW x \in Box(Origin, b)  PROVE x = Origin
    <3>1. \A d \in Dir : x[d] = 0
      <4> TAKE d \in Dir
      <4>1. x[d] \in -MaxReach .. MaxReach /\ 0 <= x[d] /\ x[d] < 0 + 1
        BY <2>2 DEF Box, Origin
      <4>2. x[d] \in Int  BY <4>1, MakerAssumption
      <4> QED  BY <4>1, <4>2
    <3>2. x \in [Dir -> -MaxReach .. MaxReach]  BY DEF Box
    <3> QED  BY <3>1, <3>2 DEF Origin
  <2>6. Box(Origin, b) = {Origin}  BY <2>4, <2>5
  <2>7. Blocked(b)  BY <1>2, <2>1, <2>3, <2>4, <2>6 DEF Blocked
  <2> QED  BY <1>2, <1>3, <1>4, <2>1, <2>7
<1>5. CASE ~(m.tiles = {} /\ m.base # None)
  <2>1. b.tiles = m.tiles  BY <1>2, <1>5
  <2>2. \A lo : Box(lo, b) = Box(lo, m)  BY <1>3 DEF Box
  <2>3. Blocked(b)  BY <1>2, <2>1, <2>2 DEF Blocked
  <2> QED  BY <1>2, <1>3, <1>5, <2>1, <2>3
<1> QED  BY <1>4, <1>5

\* A repetition that was glued.
LEMMA GluedOK ==
  ASSUME NEW m \in Maker, Blocked(m), NEW d \in Dir, NEW n \in Int \ {0},
         Repeatable(m, d, n)
  PROVE  /\ Glued(m, d, n) \in Maker
         /\ Blocked(Glued(m, d, n))
         /\ Glued(m, d, n).tiles = SpreadOf(m, d, n)
         /\ Begun(m).tiles \subseteq SpreadOf(m, d, n)
         /\ SpreadOf(m, d, n) \in SUBSET Tile
         /\ SpreadOf(m, d, n) # {}
<1> DEFINE b == Begun(m)
           w == Width(m, d)
           g == Glued(m, d, n)
           r == [m.reach EXCEPT ![d] = w + Abs(n) * w]
<1>1. b \in Maker /\ Blocked(b) /\ b.reach = m.reach /\ b.tiles # {}
      /\ Width(b, d) = w
  BY BegunOK DEF Repeatable
<1>2. w \in Nat \ {0} /\ Abs(n) \in Nat \ {0} /\ w * (1 + Abs(n)) <= MaxReach
  BY WidthTypes, AbsTypes DEF Repeatable
<1>3. SpreadOf(m, d, n) \in SUBSET Tile /\ b.tiles \subseteq SpreadOf(m, d, n)
  <2>1. b.tiles \in SUBSET Tile  BY <1>1 DEF Maker
  <2> QED  BY <2>1, <1>2, SpreadTypes DEF SpreadOf
<1>4. w + Abs(n) * w \in Nat /\ w + Abs(n) * w <= MaxReach
  BY <1>2, SMT
<1>5. r \in [Dir -> Nat]  BY <1>4 DEF Maker
<1>6. g \in Maker /\ g.tiles = SpreadOf(m, d, n) /\ g.reach = r
  BY <1>3, <1>5 DEF Glued, Maker
<1>7. \A e \in Dir : g.reach[e] <= MaxReach
  <2> HIDE DEF g, w
  <2>1. m.reach \in [Dir -> Nat]  BY DEF Maker
  <2> QED  BY <1>6, <1>4, <2>1 DEF Blocked
<1>8. PICK lo \in [Dir -> -MaxReach .. 0] :
        Origin \in Box(lo, b) /\ b.tiles = Box(lo, b)
  BY <1>1 DEF Blocked
<1>9. \E lo2 \in [Dir -> -MaxReach .. 0] :
        /\ Origin \in Box(lo2, g)
        /\ Spread(Box(lo, b), d, n, Width(b, d)) = Box(lo2, g)
  <2>1. \A e \in Dir : b.reach[e] <= MaxReach  BY <1>1 DEF Blocked
  <2>2. g.reach = [b.reach EXCEPT ![d] = Width(b, d) + Abs(n) * Width(b, d)]
    BY <1>1, <1>6
  <2>3. Width(b, d) * (1 + Abs(n)) <= MaxReach  BY <1>1, <1>2
  <2> HIDE DEF b, g, w, r
  <2> QED  BY <1>1, <1>6, <1>8, <2>1, <2>2, <2>3, SpreadBox
<1>10. Spread(Box(lo, b), d, n, Width(b, d)) = g.tiles
  BY <1>1, <1>6, <1>8 DEF SpreadOf
<1>11. g.tiles # {}  BY <1>1, <1>3, <1>6
<1>12. Blocked(g)  BY <1>7, <1>9, <1>10, <1>11 DEF Blocked
<1> QED  BY <1>1, <1>3, <1>6, <1>11, <1>12

LEMMA UngluedOK ==
  ASSUME NEW m \in Maker, Blocked(m), NEW d \in Dir, NEW n \in Int \ {0},
         Repeatable(m, d, n)
  PROVE  /\ Unglued(m, d, n) \in Maker
         /\ Blocked(Unglued(m, d, n))
         /\ Unglued(m, d, n).tiles = Begun(m).tiles
<1> DEFINE b == Begun(m)
           u == Unglued(m, d, n)
<1>1. b \in Maker /\ Blocked(b) /\ b.reach = m.reach /\ b.tiles # {}
  BY BegunOK DEF Repeatable
<1>2. Width(m, d) \in Nat \ {0}  BY WidthTypes
<1>3. Width(m, d) <= MaxReach
  BY <1>2, MakerAssumption DEF Blocked, Width
<1>4. u \in Maker /\ u.tiles = b.tiles
      /\ u.reach = [b.reach EXCEPT ![d] = Width(m, d)]
  BY <1>1, <1>2 DEF Unglued, Maker
<1>5. m.reach \in [Dir -> Nat]  BY DEF Maker
<1>6. \A e \in Dir : Width(u, e) = Width(b, e)
  BY <1>1, <1>2, <1>4, <1>5 DEF Width
<1>7. \A lo : Box(lo, u) = Box(lo, b)  BY <1>6 DEF Box
<1>8. \A e \in Dir : u.reach[e] <= MaxReach
  <2> HIDE DEF u
  <2> QED  BY <1>1, <1>3, <1>4, <1>5 DEF Blocked
<1>9. Blocked(u)  BY <1>1, <1>4, <1>7, <1>8 DEF Blocked
<1> QED  BY <1>4, <1>9

LEMMA RepeatsOK ==
  ASSUME NEW t, TransitOK(t), NEW d \in Dir, NEW n \in Times,
         NEW u \in Repeats(t, d, n)
  PROVE  /\ TransitOK(u)
         /\ own = NoHandle => u.trace = t.trace
         /\ u.maker.base # None => u.maker.tiles # {}
<1> DEFINE m == t.maker
<1>1. t \in Transit /\ m \in Maker /\ Blocked(m) /\ t.trace \in History
      /\ n \in Int \ {0} /\ Followed(t)
  BY MakerAssumption DEF TransitOK, Transit
<1>2. CASE d \notin m.periodic
  <2>1. u = [t EXCEPT !.maker = Begun(m)]  BY <1>2 DEF Repeats
  <2>2. Begun(m) \in Maker /\ Blocked(Begun(m))
        /\ (Begun(m).tiles = m.tiles \/ (m.tiles = {} /\ Begun(m).tiles = {Origin}))
        /\ (m.base # None => Begun(m).tiles # {})
    BY <1>1, BegunOK
  <2>3. u \in Transit /\ u.maker = Begun(m) /\ u.trace = t.trace
    BY <1>1, <2>1, <2>2 DEF Transit
  <2>4. Begun(m).warned = m.warned /\ Begun(m).failed = m.failed
        /\ Begun(m).base = m.base /\ Begun(m).split = m.split
    BY <1>1 DEF Begun, Maker
  <2>5. Followed(u)  BY <1>1, <2>2, <2>3, <2>4 DEF Followed
  <2> QED  BY <2>2, <2>3, <2>4, <2>5 DEF TransitOK
<1>3. CASE d \in m.periodic
  <2> DEFINE S == SpreadOf(m, d, n)
  <2>1. /\ u = [maker |-> u.maker, trace |-> Traced(t, d, n)]
        /\ u.maker \in {Glued(m, d, n), Unglued(m, d, n)}
        /\ Repeatable(m, d, n)
    BY <1>3 DEF Repeats
  <2>2. /\ Begun(m).tiles = m.tiles \/ (m.tiles = {} /\ Begun(m).tiles = {Origin})
        /\ Begun(m).tiles # {}
    BY <1>1, <2>1, BegunOK DEF Repeatable
  <2>3. /\ Glued(m, d, n) \in Maker /\ Blocked(Glued(m, d, n))
        /\ Glued(m, d, n).tiles = S /\ Begun(m).tiles \subseteq S
        /\ S \in SUBSET Tile /\ S # {}
    BY <1>1, <2>1, GluedOK
  <2>4. /\ Unglued(m, d, n) \in Maker /\ Blocked(Unglued(m, d, n))
        /\ Unglued(m, d, n).tiles = Begun(m).tiles
    BY <1>1, <2>1, UngluedOK
  <2>5. Traced(t, d, n) \in History /\ Traced(t, d, n).of = t.trace.of
        /\ Traced(t, d, n).tiles = t.trace.tiles \cup S
    BY <1>1, <2>3 DEF Traced, History
  <2>6. u \in Transit /\ u.trace = Traced(t, d, n) /\ Blocked(u.maker)
    BY <2>1, <2>3, <2>4, <2>5 DEF Transit
  <2>7. u.maker.failed = m.failed /\ u.maker.base = m.base
        /\ u.maker.split = m.split
    BY <1>1, <2>1 DEF Glued, Unglued, Begun, Maker
  <2>8. Origin \in u.trace.tiles /\ u.maker.tiles \subseteq u.trace.tiles
    BY <1>1, <2>1, <2>3, <2>4, <2>5, <2>6 DEF Followed
  <2>9. ~u.maker.warned => u.trace.tiles = u.maker.tiles /\ u.maker.tiles # {}
    <3>1. CASE u.maker = Unglued(m, d, n)
      BY <1>1, <3>1 DEF Unglued, Begun, Maker
    <3>2. CASE u.maker = Glued(m, d, n)
      <4>1. u.maker.warned = m.warned  BY <1>1, <3>2 DEF Glued, Maker
      <4>2. ~m.warned => t.trace.tiles = Begun(m).tiles
        BY <1>1, <2>2 DEF Followed
      <4> QED  BY <3>2, <4>1, <4>2, <2>2, <2>3, <2>5, <2>6
    <3> QED  BY <2>1, <3>1, <3>2
  <2>10. Followed(u)  BY <1>1, <2>5, <2>6, <2>7, <2>8, <2>9 DEF Followed
  <2>11. u.maker.tiles # {}  BY <2>1, <2>2, <2>3, <2>4
  <2> QED  BY <2>1, <2>6, <2>10, <2>11 DEF TransitOK, Repeatable
<1> QED  BY <1>2, <1>3

LEMMA RepeatsFromOK ==
  ASSUME NEW t, TransitOK(t), NEW u \in RepeatsFrom(t)
  PROVE  /\ TransitOK(u)
         /\ own = NoHandle => u.trace = t.trace
         /\ u.maker.base # None => u.maker.tiles # {}
<1> DEFINE once == UNION {Repeats(t, d, n) : d \in Dir, n \in Times}
<1>1. \A v \in once : TransitOK(v) /\ (own = NoHandle => v.trace = t.trace)
  BY RepeatsOK
<1>2. CASE u \in once  BY <1>2, RepeatsOK
<1>3. CASE \E v \in once : \E d \in Dir, n \in Times : u \in Repeats(v, d, n)
  BY <1>1, <1>3, RepeatsOK
<1> HIDE DEF once
<1>4. u \in once \/ \E v \in once : \E d \in Dir, n \in Times : u \in Repeats(v, d, n)
  BY DEF RepeatsFrom, once
<1> QED  BY <1>2, <1>3, <1>4
-----------------------------------------------------------------------------
LEMMA OriginTypes == Origin \in Tile /\ Empty \in History /\ Nothing \in History
BY DEF Origin, Tile, Empty, Nothing, History

LEMMA InitOK == Init => Inv
<1> SUFFICES ASSUME Init  PROVE Inv  OBVIOUS
<1> USE OriginTypes DEF Init
<1>1. NewMaker \in Maker  BY DEF NewMaker, Maker, Unset
<1>2. TypeOK  BY <1>1 DEF TypeOK
<1>3. Now = [maker |-> NewMaker, trace |-> Empty]  BY DEF Now
<1>4. Now \in Transit  BY <1>1, <1>3 DEF Transit
<1>5. Blocked(NewMaker)
  BY MakerAssumption DEF Blocked, NewMaker, Unset
<1>6. Followed(Now)  BY <1>3 DEF Followed, NewMaker, Empty
<1>7. SessionTellsOfResult  BY DEF SessionTellsOfResult, Nothing
<1> QED  BY <1>2, <1>3, <1>4, <1>5, <1>6, <1>7 DEF Inv, TransitOK

\* A cleared maker, whatever the shape it is left with.
Restarted(m, s, f) ==
  /\ m \in Maker
  /\ m.base = s /\ m.split = s
  /\ m.tiles = {} /\ m.reach = Unset
  /\ m.failed = f

LEMMA ClearedRecord ==
  ASSUME NEW s \in Shape \cup {None}, NEW P \in SUBSET Dir, NEW f \in BOOLEAN
  PROVE  /\ Restarted(Split(s, P, f), s, f)
         /\ Restarted(Cleared(P), None, FALSE)
         /\ Restarted([Cleared(P) EXCEPT !.failed = TRUE], None, TRUE)
<1>1. NewMaker \in Maker  BY DEF NewMaker, Maker, Unset
<1>2. Restarted(NewMaker, None, FALSE)  BY <1>1 DEF Restarted, NewMaker
<1>3. Restarted(Cleared(P), None, FALSE)
  BY <1>1, <1>2 DEF Restarted, Cleared, Maker
<1>4. Restarted([Cleared(P) EXCEPT !.failed = TRUE], None, TRUE)
  BY <1>3 DEF Restarted, Maker
<1>5. Restarted(Split(s, P, f), s, f)  BY <1>3 DEF Restarted, Split, Maker
<1> QED  BY <1>3, <1>4, <1>5

LEMMA ClearedOK ==
  ASSUME NEW m, NEW s, NEW f, Restarted(m, s, f),
         NEW c \in History, c.tiles = {Origin}, f \/ c.of = s
  PROVE  TransitOK([maker |-> m, trace |-> c])
<1>3. Blocked(m)  BY MakerAssumption DEF Restarted, Blocked, Unset
<1>4. Followed([maker |-> m, trace |-> c])  BY DEF Restarted, Followed
<1> QED  BY <1>3, <1>4 DEF TransitOK, Transit, Restarted
-----------------------------------------------------------------------------
LEMMA WriteTypes ==
  ASSUME NEW H \in [Handle -> History], NEW h, NEW c \in History
  PROVE  /\ Write(H, h, c) \in [Handle -> History]
         /\ \A g \in Handle : Write(H, h, c)[g] = IF g = h THEN c ELSE H[g]
BY DEF Write

\* What a history that is still held holds after a command.
LEMMA SettleOK ==
  ASSUME NEW H \in [Handle -> History], Settle(H)
  PROVE  /\ hist' \in [Handle -> History]
         /\ own' \in Handle => hist'[own'] = H[own']
         /\ session' \in Handle => hist'[session'] = H[session']
         /\ \A n \in Name : saved'[n] \in Handle => hist'[saved'[n]] = H[saved'[n]]
<1>1. own' \in InUse' /\ session' \in InUse' /\ \A n \in Name : saved'[n] \in InUse'
  BY DEF InUse
<1> QED  BY <1>1, OriginTypes DEF Settle

\* The commands on the maker end with its own history in the session, or
\* leave the session alone and name nothing.
LEMMA Told ==
  ASSUME TypeOK', TransitOK(Now)', session' = own',
         \/ result' = Nothing
         \/ /\ result'.of = Now'.trace.of
            /\ result'.tiles \subseteq Now'.trace.tiles
            /\ ~maker'.warned => result'.tiles = Now'.trace.tiles
  PROVE  SessionTellsOfResult'
<1>1. own' # NoHandle => Now'.trace = hist'[own']  BY DEF Now
<1> QED  BY <1>1 DEF SessionTellsOfResult, Nothing

LEMMA Untold ==
  ASSUME result' = Nothing  PROVE SessionTellsOfResult'
BY DEF SessionTellsOfResult, Nothing

\* A command that keeps the maker's history and writes c into it.
LEMMA OwnWritten ==
  ASSUME TypeOK, own' = own, NEW c \in History,
         Settle(Write(hist, own, c))
  PROVE  /\ hist' \in [Handle -> History]
         /\ Now' = [maker |-> maker',
                    trace |-> IF own = NoHandle THEN Empty ELSE c]
<1>1. hist \in [Handle -> History] /\ own \in Handle \cup {NoHandle}
  BY DEF TypeOK
<1> DEFINE H == Write(hist, own, c)
<1>2. H \in [Handle -> History] /\ (own \in Handle => H[own] = c)
  BY <1>1, WriteTypes
<1>3. hist' \in [Handle -> History] /\ (own' \in Handle => hist'[own'] = H[own'])
  BY <1>2, SettleOK
<1>4. own # NoHandle => hist'[own'] = c  BY <1>1, <1>2, <1>3
<1> QED  BY <1>3, <1>4 DEF Now

\* The same, of the maker cleared or failed: c is what clearing left.
LEMMA MakerCleared ==
  ASSUME Inv, own' = own, Settle(Write(hist, own, Empty)),
         NEW s \in Shape \cup {None}, NEW f \in BOOLEAN,
         Restarted(maker', s, f), f \/ s = None,
         UNCHANGED saved, session' \in {session, own}, Quiet
  PROVE  Inv'
<1> USE OriginTypes
<1>1. TypeOK  BY DEF Inv
<1>2. hist' \in [Handle -> History] /\ Now' = [maker |-> maker', trace |-> Empty]
  BY <1>1, OwnWritten
<1>3. maker' \in Maker  BY DEF Restarted
<1>4. TypeOK'  BY <1>1, <1>2, <1>3 DEF TypeOK, Quiet, Announce
<1>5. TransitOK(Now')
  <2>1. Empty.tiles = {Origin} /\ (f \/ Empty.of = s)  BY DEF Empty
  <2> QED  BY <1>2, <2>1, ClearedOK
<1>6. TransitOK(Now)'  BY <1>5 DEF TransitOK, Blocked, Followed, Transit
<1>7. SessionTellsOfResult'  BY Untold DEF Quiet, Announce
<1> QED  BY <1>4, <1>6, <1>7 DEF Inv
-----------------------------------------------------------------------------
LEMMA MakePeriodicKeeps ==
  ASSUME Inv, NEW s \in Shape, MakePeriodic(s)
  PROVE  Inv'
<1> USE OriginTypes
<1>1. CASE Misused
  <2>1. PICK P \in SUBSET Dir : maker' = Cleared(P)  BY <1>1 DEF Misused
  <2>2. Restarted(maker', None, FALSE)  BY <2>1, ClearedRecord
  <2> QED  BY <1>1, <2>2, MakerCleared DEF Misused
<1>2. CASE Refused
  <2>1. PICK P \in SUBSET Dir : maker' = [Cleared(P) EXCEPT !.failed = TRUE]
    BY <1>2 DEF Refused
  <2>2. Restarted(maker', None, TRUE)  BY <2>1, ClearedRecord
  <2> QED  BY <1>2, <2>2, MakerCleared DEF Refused
<1>3. CASE HalfSplit(s)
  <2>1. PICK P \in SUBSET Dir : maker' = Split(s, P, TRUE)
    BY <1>3 DEF HalfSplit
  <2>2. Restarted(maker', s, TRUE)  BY <2>1, ClearedRecord
  <2> QED  BY <1>3, <2>2, MakerCleared DEF HalfSplit
<1>4. ASSUME NEW f \in BOOLEAN, MakeIdentical(s, f)  PROVE Inv'
  <2> DEFINE c == [of |-> s, tiles |-> {Origin}]
  <2>1. PICK P \in SUBSET Dir, h \in Fresh :
          /\ maker' = Split(s, P, f)
          /\ own' = h /\ session' = h
          /\ UNCHANGED saved
          /\ Settle(Write(Write(hist, own, Empty), h, c))
          /\ IF f THEN Quiet ELSE Announce(c)
    BY <1>4 DEF MakeIdentical
  <2>2. c \in History /\ c.of = s /\ c.tiles = {Origin}  BY DEF History
  <2>3. TypeOK  BY DEF Inv
  <2> DEFINE K == Write(hist, own, Empty)
             H == Write(K, h, c)
  <2>4. K \in [Handle -> History]  BY <2>3, WriteTypes DEF TypeOK
  <2>5. H \in [Handle -> History] /\ h \in Handle /\ H[h] = c
    <3>1. h \in Handle  BY DEF Fresh
    <3> HIDE DEF K, c
    <3> QED  BY <2>2, <2>4, <3>1, WriteTypes
  <2>6. hist' \in [Handle -> History] /\ hist'[h] = c
    <3> HIDE DEF H, c
    <3> QED  BY <2>1, <2>5, SettleOK DEF H
  <2>7. Restarted(maker', s, f)  BY <2>1, ClearedRecord
  <2>8. maker' \in Maker  BY <2>7 DEF Restarted
  <2>9. result' \in History  BY <2>1, <2>2 DEF Quiet, Announce
  <2>10. TypeOK'
    BY <2>1, <2>3, <2>5, <2>6, <2>8, <2>9 DEF TypeOK
  <2>11. Now' = [maker |-> maker', trace |-> c]
    BY <2>1, <2>5, <2>6, MakerAssumption DEF Now
  <2>12. TransitOK(Now')
    <3> HIDE DEF c
    <3> QED  BY <2>2, <2>7, <2>11, ClearedOK
  <2>13. TransitOK(Now)'  BY <2>12 DEF TransitOK, Blocked, Followed, Transit
  <2>14. result' = Nothing \/ result' = c  BY <2>1 DEF Quiet, Announce
  <2>15. Now'.trace = c  BY <2>11
  <2>16. SessionTellsOfResult'
    <3> HIDE DEF c
    <3> QED  BY <2>1, <2>10, <2>13, <2>14, <2>15, Told
  <2> QED  BY <2>10, <2>13, <2>16 DEF Inv
<1> QED  BY <1>1, <1>2, <1>3, <1>4 DEF MakePeriodic

LEMMA RepeatKeeps ==
  ASSUME Inv, RepeatShape \/ RepeatMisused
  PROVE  Inv'
<1> USE OriginTypes
<1>1. PICK t \in RepeatsFrom(Now) :
        /\ maker' = t.maker
        /\ UNCHANGED <<own, saved>>
        /\ Settle(Write(hist, own, t.trace))
        /\ \/ session' = own /\ (IF t.maker.failed THEN Quiet ELSE Announce(Named(t.maker)))
           \/ session' = session /\ Quiet
  BY DEF RepeatShape, RepeatMisused
<1>2. TypeOK /\ TransitOK(Now)  BY DEF Inv
<1>3. TransitOK(t) /\ (own = NoHandle => t.trace = Now.trace)
      /\ (t.maker.base # None => t.maker.tiles # {})
  BY <1>1, <1>2, RepeatsFromOK
<1>4. t \in Transit /\ t.trace \in History /\ t.maker \in Maker
  BY <1>3 DEF TransitOK, Transit
<1>5. own = NoHandle => t.trace = Empty  BY <1>3 DEF Now
<1>6. hist' \in [Handle -> History] /\ Now' = [maker |-> maker', trace |-> t.trace]
  BY <1>1, <1>2, <1>4, <1>5, OwnWritten
<1>7. Now' = t  BY <1>1, <1>4, <1>6 DEF Transit
<1>8. Named(t.maker) \in History  BY <1>4 DEF Named, History, Maker
<1>9. TypeOK'
  <2>1. result' \in History  BY <1>1, <1>8 DEF Quiet, Announce
  <2> QED  BY <1>1, <1>2, <1>4, <1>6, <2>1 DEF TypeOK
<1>10. TransitOK(Now)'
  BY <1>3, <1>7 DEF TransitOK, Blocked, Followed, Transit
<1>11. SessionTellsOfResult'
  <2>1. CASE result' = Nothing  BY <2>1, Untold
  <2>2. CASE session' = own' /\ ~t.maker.failed /\ result' = Named(t.maker)
    <3>1. result'.of = t.maker.base /\ result'.tiles = t.maker.tiles
      BY <2>2 DEF Named
    <3>2. result'.of = t.trace.of /\ result'.tiles \subseteq t.trace.tiles
      BY <1>3, <2>2, <3>1 DEF TransitOK, Followed
    <3>3. CASE t.maker.base # None
      <4>1. ~maker'.warned => result'.tiles = t.trace.tiles
        BY <1>1, <1>3, <3>1, <3>3 DEF TransitOK, Followed
      <4> QED  BY <1>7, <1>9, <1>10, <2>2, <3>2, <4>1, Told
    <3>4. CASE t.maker.base = None
      BY <3>1, <3>4 DEF SessionTellsOfResult
    <3> QED  BY <3>3, <3>4
  <2> QED  BY <1>1, <2>1, <2>2 DEF Quiet, Announce
<1> QED  BY <1>9, <1>10, <1>11 DEF Inv

LEMMA ClearKeeps ==
  ASSUME Inv, ClearRepetitions
  PROVE  Inv'
<1> USE OriginTypes
<1> DEFINE c == ClearedHistory
           r == [of |-> maker.base, tiles |-> {Origin}]
<1>1. TypeOK /\ TransitOK(Now) /\ maker \in Maker /\ maker.split = maker.base
  BY DEF Inv, TransitOK, Followed, Transit, Now
<1>2. c \in History /\ c.tiles = {Origin} /\ c.of = maker.base
  BY <1>1 DEF ClearedHistory, History, Maker
<1>3. r \in History /\ r = c  BY <1>1, <1>2 DEF ClearedHistory
<1> DEFINE e == IF own = NoHandle THEN Empty ELSE c
<1>4. hist' \in [Handle -> History] /\ Now' = [maker |-> maker', trace |-> e]
  <2>1. own' = own /\ Settle(Write(hist, own, c))  BY DEF ClearRepetitions
  <2> HIDE DEF c
  <2> QED  BY <2>1, <1>1, <1>2, OwnWritten
<1>5. Restarted(maker', maker.base, maker.failed)
  <2>1. Unset \in [Dir -> Nat]  BY DEF Unset
  <2> QED  BY <1>1, <2>1 DEF ClearRepetitions, Without, Restarted, Maker
<1>6. e \in History /\ e.tiles = {Origin} /\ (maker.failed \/ e.of = maker.base)
  <2>1. CASE own = NoHandle
    <3>1. Now.trace = Empty /\ Now.maker = maker  BY <2>1 DEF Now
    <3> QED  BY <1>1, <2>1, <3>1 DEF TransitOK, Followed, Empty
  <2>2. CASE own # NoHandle  BY <1>2, <2>2
  <2> QED  BY <2>1, <2>2
<1>7. TransitOK(Now')
  <2> HIDE DEF e
  <2> QED  BY <1>4, <1>5, <1>6, ClearedOK
<1>8. TransitOK(Now)'  BY <1>7 DEF TransitOK, Blocked, Followed, Transit
<1>9. result' = Nothing \/ result' = r
  BY DEF ClearRepetitions, Quiet, Announce
<1>10. maker' \in Maker  BY <1>5 DEF Restarted
<1>11. TypeOK'
  BY <1>1, <1>3, <1>4, <1>9, <1>10 DEF TypeOK, ClearRepetitions
<1>12. SessionTellsOfResult'
  <2>1. CASE own = NoHandle  BY <2>1 DEF ClearRepetitions, SessionTellsOfResult
  <2>2. CASE own # NoHandle
    <3>1. Now'.trace = c  BY <1>4, <2>2
    <3>2. session' = own'  BY DEF ClearRepetitions
    <3> HIDE DEF c, r
    <3> QED  BY <1>3, <1>8, <1>9, <1>11, <3>1, <3>2, Told
  <2> QED  BY <2>1, <2>2
<1> QED  BY <1>8, <1>11, <1>12 DEF Inv

\* A command that leaves the maker and its history alone.
LEMMA NowKept ==
  ASSUME TypeOK, UNCHANGED <<maker, own>>,
         own \in Handle => hist'[own] = hist[own]
  PROVE  Now' = Now
BY DEF Now, TypeOK

LEMMA SaveKeeps ==
  ASSUME Inv, NEW n \in Name, SaveHistory(n)
  PROVE  Inv'
<1>1. TypeOK /\ TransitOK(Now) /\ SessionTellsOfResult  BY DEF Inv
<1>2. hist \in [Handle -> History] /\ Settle(hist)
      /\ UNCHANGED <<maker, own, session, result>>
  BY <1>1 DEF TypeOK, SaveHistory
<1>3. hist' \in [Handle -> History]
      /\ (own \in Handle => hist'[own] = hist[own])
      /\ (session \in Handle => hist'[session] = hist[session])
  BY <1>2, SettleOK
<1>4. TypeOK'
  BY <1>1, <1>2, <1>3 DEF TypeOK, SaveHistory
<1>5. Now' = Now  BY <1>1, <1>2, <1>3, NowKept
<1>6. TransitOK(Now)'  BY <1>1, <1>5 DEF TransitOK, Blocked, Followed, Transit
<1>7. SessionTellsOfResult'
  BY <1>1, <1>2, <1>3 DEF SessionTellsOfResult, TypeOK
<1> QED  BY <1>4, <1>6, <1>7 DEF Inv

LEMMA OtherKeeps ==
  ASSUME Inv, NEW s \in Shape, OtherCommand(s)
  PROVE  Inv'
<1> DEFINE c == [of |-> s, tiles |-> {Origin}]
<1>1. TypeOK /\ TransitOK(Now)  BY DEF Inv
<1>2. PICK h \in Fresh : session' = h /\ Settle(Write(hist, h, c))
  BY DEF OtherCommand, Operated
<1>3. UNCHANGED <<maker, own, saved>> /\ result' = c
  BY DEF OtherCommand, Announce
<1>4. c \in History  BY OriginTypes DEF History
<1>5. h \in Handle /\ h # own /\ h \notin {saved[n] : n \in Name}
  BY DEF Fresh, InUse
<1> DEFINE H == Write(hist, h, c)
<1>6. H \in [Handle -> History] /\ H[h] = c
      /\ \A g \in Handle : g # h => H[g] = hist[g]
  <2> HIDE DEF c
  <2> QED  BY <1>1, <1>4, <1>5, WriteTypes DEF TypeOK
<1>7. hist' \in [Handle -> History] /\ hist'[h] = c
      /\ (own \in Handle => hist'[own] = hist[own])
  <2> HIDE DEF H, c
  <2> QED  BY <1>2, <1>3, <1>5, <1>6, SettleOK DEF H
<1>8. TypeOK'
  <2> HIDE DEF c
  <2> QED  BY <1>1, <1>2, <1>3, <1>4, <1>5, <1>7 DEF TypeOK
<1>9. Now' = Now  BY <1>1, <1>3, <1>7, NowKept
<1>10. TransitOK(Now)'
  BY <1>1, <1>9 DEF TransitOK, Blocked, Followed, Transit
<1>11. SessionTellsOfResult'
  BY <1>2, <1>3, <1>5, <1>7 DEF SessionTellsOfResult
<1> QED  BY <1>8, <1>10, <1>11 DEF Inv

LEMMA StutterKeeps ==
  ASSUME Inv, UNCHANGED vars
  PROVE  Inv'
<1> USE DEF vars
<1>1. TypeOK'  BY DEF Inv, TypeOK
<1>2. Now' = Now  BY DEF Now
<1>3. TransitOK(Now)'  BY <1>2 DEF Inv, TransitOK, Blocked, Followed, Transit
<1>4. SessionTellsOfResult'  BY DEF Inv, SessionTellsOfResult
<1> QED  BY <1>1, <1>3, <1>4 DEF Inv

LEMMA InvHolds == Spec => []Inv
<1>1. Init => Inv  BY InitOK
<1>2. Inv /\ [Next]_vars => Inv'
  <2> SUFFICES ASSUME Inv, [Next]_vars  PROVE Inv'  OBVIOUS
  <2>1. ASSUME NEW s \in Shape, MakePeriodic(s)  PROVE Inv'
    BY <2>1, MakePeriodicKeeps
  <2>2. CASE RepeatShape  BY <2>2, RepeatKeeps
  <2>3. CASE RepeatMisused  BY <2>3, RepeatKeeps
  <2>4. CASE ClearRepetitions  BY <2>4, ClearKeeps
  <2>5. ASSUME NEW n \in Name, SaveHistory(n)  PROVE Inv'  BY <2>5, SaveKeeps
  <2>6. ASSUME NEW s \in Shape, OtherCommand(s)  PROVE Inv'
    BY <2>6, OtherKeeps
  <2>7. CASE UNCHANGED vars  BY <2>7, StutterKeeps
  <2> QED  BY <2>1, <2>2, <2>3, <2>4, <2>5, <2>6, <2>7 DEF Next
<1> QED  BY <1>1, <1>2, PTL DEF Spec

(***************************************************************************)
(* Every state has the types of the model (BOPAlgo_MakePeriodic's fields,  *)
(* the session's and the saved histories).                                 *)
(***************************************************************************)
THEOREM TypeCorrect == Spec => []TypeOK
<1>1. Inv => TypeOK  BY DEF Inv
<1> QED  BY <1>1, InvHolds, PTL

(***************************************************************************)
(* The repeated shape is always a block, without gap or overlap, and the   *)
(* distance of the next repetition is its length, in any number of         *)
(* directions (BOPAlgo_MakePeriodic::RepeatShape).                         *)
(***************************************************************************)
THEOREM TilesAlwaysBlock == Spec => []TilesFormBlock
<1>1. Inv => TilesFormBlock
  BY DEF Inv, TransitOK, Blocked, Now, TilesFormBlock
<1> QED  BY <1>1, InvHolds, PTL

(***************************************************************************)
(* The session's history is about the shape the last command named, and    *)
(* follows it to each of its tiles (BOPTest_PeriodicityCommands.cxx).      *)
(***************************************************************************)
THEOREM SessionAlwaysTells == Spec => []SessionTellsOfResult
<1>1. Inv => SessionTellsOfResult  BY DEF Inv
<1> QED  BY <1>1, InvHolds, PTL

(***************************************************************************)
(* A saved history is only ever changed through the maker whose own        *)
(* history it is (BRepTest_Objects::SetHistory, savehistory).              *)
(***************************************************************************)
THEOREM OnlyOwnEverChanges == Spec => OnlyOwnChanges
<1> DEFINE A == \A n \in Name : SavedChange(n) => saved[n] = own
<1>1. TypeOK /\ [Next]_vars => [A]_vars
  <2> SUFFICES ASSUME TypeOK, Next, NEW n \in Name,
                      saved'[n] = saved[n], saved[n] # NoHandle, saved[n] # own
               PROVE  hist'[saved[n]] = hist[saved[n]]
    BY DEF SavedChange
  <2> DEFINE k == saved[n]
  <2>1. k \in Handle /\ k \notin Fresh /\ hist \in [Handle -> History]
    BY DEF TypeOK, Fresh, InUse
  <2>2. k \in InUse'  BY DEF InUse
  <2>3. ASSUME NEW H, Settle(H), H[k] = hist[k]  PROVE hist'[k] = hist[k]
    BY <2>1, <2>2, <2>3 DEF Settle
  <2>4. ASSUME NEW c, Settle(Write(hist, own, c))  PROVE hist'[k] = hist[k]
    <3>1. Write(hist, own, c)[k] = hist[k]  BY <2>1 DEF Write
    <3> QED  BY <2>3, <2>4, <3>1
  <2>5. ASSUME NEW s \in Shape, MakePeriodic(s)  PROVE hist'[k] = hist[k]
    <3>1. CASE Misused \/ Refused \/ HalfSplit(s)
      BY <2>4, <3>1 DEF Misused, Refused, HalfSplit
    <3>2. ASSUME NEW f \in BOOLEAN, MakeIdentical(s, f)
          PROVE  hist'[k] = hist[k]
      <4> DEFINE c == [of |-> s, tiles |-> {Origin}]
      <4>1. PICK h \in Fresh : Settle(Write(Write(hist, own, Empty), h, c))
        BY <3>2 DEF MakeIdentical
      <4>2. Write(Write(hist, own, Empty), h, c)[k] = hist[k]
        BY <2>1 DEF Write
      <4> QED  BY <2>3, <4>1, <4>2
    <3> QED  BY <2>5, <3>1, <3>2 DEF MakePeriodic
  <2>6. CASE RepeatShape \/ RepeatMisused \/ ClearRepetitions
    BY <2>4, <2>6 DEF RepeatShape, RepeatMisused, ClearRepetitions
  <2>7. ASSUME NEW j \in Name, SaveHistory(j)  PROVE hist'[k] = hist[k]
    BY <2>3, <2>7 DEF SaveHistory
  <2>8. ASSUME NEW s \in Shape, OtherCommand(s)  PROVE hist'[k] = hist[k]
    <3> DEFINE c == [of |-> s, tiles |-> {Origin}]
    <3>1. PICK h \in Fresh : Settle(Write(hist, h, c))
      BY <2>8 DEF OtherCommand, Operated
    <3>2. Write(hist, h, c)[k] = hist[k]  BY <2>1 DEF Write
    <3> QED  BY <2>3, <3>1, <3>2
  <2> QED  BY <2>5, <2>6, <2>7, <2>8 DEF Next
<1>2. [][A]_vars => OnlyOwnChanges  BY PTL DEF OnlyOwnChanges
<1> QED  BY <1>1, <1>2, TypeCorrect, PTL DEF Spec
=============================================================================
