-------------------------- MODULE DataParserProofs --------------------------
(***************************************************************************)
(* On all texts the parser's values are typed (ParserTyped) and each step  *)
(* goes forward (AlwaysProgresses); a text whose tokens end is not read    *)
(* past its end, however wrong it is (TextIsNotOverrun); and a text that   *)
(* writes a document is read as that document (DocumentIsReadBack).        *)
(***************************************************************************)
EXTENDS JsonTexts, SequenceTheorems, FiniteSetTheorems, FunctionTheorems, TLAPS

(***************************************************************************)
(* Reading starts at a natural number and only adds to it, so all that is  *)
(* to be known of the state for Progresses is that the offset is one and   *)
(* that the stack has a length.                                            *)
(***************************************************************************)
Modes == {"next", "string", "number", "exponent", "back", "done", "thrown"}

Readable ==
  /\ text \in Seq(Chars)
  /\ offset \in Nat
  /\ mode \in Modes
  /\ \E S : stack \in Seq(S)

-----------------------------------------------------------------------------
(* consume_ws never goes back. *)
LEMMA SkipForward ==
  ASSUME text \in Seq(Chars), NEW o \in Nat
  PROVE  Skip(o) \in Nat /\ Skip(o) >= o
<1> DEFINE S == Stops(o, {Blank})
<1>1. Len(text) \in Nat
  OBVIOUS
<1>2. S \subseteq o .. Len(text) + 2
  BY DEF Stops
<1>3. CASE S = {}
  BY <1>1, <1>3 DEF Skip, Past
<1>4. CASE S # {}
  <2>1. Skip(o) = CHOOSE p \in S : TRUE
    BY <1>4 DEF Skip, Past
  <2> HIDE DEF S
  <2>2. Skip(o) \in S
    BY <1>4, <2>1, Zenon
  <2>3. Skip(o) \in o .. Len(text) + 2
    BY <1>2, <2>2
  <2> QED
    BY <1>1, <2>3
<1> QED
  BY <1>3, <1>4

(* A frame more on the stack. *)
LEMMA Pushed ==
  ASSUME NEW S, NEW s \in Seq(S), NEW f
  PROVE  /\ <<f>> \o s \in Seq(S \cup {f})
         /\ Len(<<f>> \o s) = Len(s) + 1
<1>1. s \in Seq(S \cup {f})
  BY SeqMonotonic
<1>2. <<f>> \in Seq(S \cup {f}) /\ Len(<<f>>) = 1
  OBVIOUS
<1> QED
  BY <1>1, <1>2, ConcatProperties

(* A frame less. *)
LEMMA Popped ==
  ASSUME NEW S, NEW s \in Seq(S), s # <<>>
  PROVE  /\ Tail(s) \in Seq(S)
         /\ Len(s) \in Nat \ {0}
         /\ Len(Tail(s)) = Len(s) - 1
BY HeadTailProperties, EmptySeq

-----------------------------------------------------------------------------
(* What a step does for the proof. *)
Forward ==
  /\ Readable'
  /\ offset' > offset \/ (offset' = offset /\ Left' < Left)

(* The ways a step may move, with the stack as it was or with a new one.   *)
LEMMA RankIs ==
  ASSUME mode \in Modes
  PROVE  /\ Rank \in 0 .. 3
         /\ mode = "next" => Rank = 3
         /\ mode \in {"string", "number", "exponent"} => Rank = 2
         /\ mode = "back" => Rank = 1
         /\ mode \in {"done", "thrown"} => Rank = 0
BY DEF Rank, Modes

LEMMA RankIsNext ==
  ASSUME mode' \in Modes
  PROVE  /\ Rank' \in 0 .. 3
         /\ mode' = "next" => Rank' = 3
         /\ mode' \in {"string", "number", "exponent"} => Rank' = 2
         /\ mode' = "back" => Rank' = 1
         /\ mode' \in {"done", "thrown"} => Rank' = 0
BY DEF Rank, Modes

(* The stack stays: forward, or in place with a lower rank. *)
LEMMA InPlace ==
  ASSUME Readable, UNCHANGED <<text, stack>>, mode' \in Modes,
         offset' \in Nat, offset' >= offset,
         offset' > offset \/ Rank' < Rank
  PROVE  Forward
<1>1. Readable'
  BY DEF Readable
<1>2. Len(stack) \in Nat
  BY LenProperties DEF Readable
<1>3. Len(stack)' = Len(stack)
  OBVIOUS
<1>4. Rank \in 0 .. 3 /\ Rank' \in 0 .. 3
  BY RankIs, RankIsNext DEF Readable
<1>5. Rank' < Rank => Left' < Left
  BY <1>2, <1>3, <1>4 DEF Left
<1> QED
  BY <1>1, <1>5 DEF Forward, Readable

(* The innermost container is closed where the parser is, or further on. *)
LEMMA Closes ==
  ASSUME Readable, stack # <<>>, mode = "back", UNCHANGED text,
         NEW v, NEW o \in Nat, o >= offset, Close(v, o)
  PROVE  Forward
<1> PICK S : stack \in Seq(S)
  BY DEF Readable
<1>1. mode' = "back" /\ offset' = o /\ stack' = Tail(stack)
  BY DEF Close, Back
<1>2. Tail(stack) \in Seq(S) /\ Len(stack) \in Nat \ {0}
        /\ Len(Tail(stack)) = Len(stack) - 1
  BY Popped
<1>3. Readable'
  BY <1>1, <1>2 DEF Readable, Modes
<1>4. Rank = 1 /\ Rank' = 1
  BY <1>1, RankIs, RankIsNext DEF Modes
<1>5. Left' < Left
  BY <1>1, <1>2, <1>4 DEF Left
<1> QED
  BY <1>1, <1>3, <1>5 DEF Forward, Readable

(* The loop of the innermost container goes on, one character further. *)
LEMMA Continues ==
  ASSUME Readable, stack # <<>>, UNCHANGED text,
         NEW f, NEW o \in Nat, o > offset, Continue(f, o)
  PROVE  Forward
<1> PICK S : stack \in Seq(S)
  BY DEF Readable
<1>1. mode' = "next" /\ offset' = o /\ stack' = <<f>> \o Tail(stack)
  BY DEF Continue, Call
<1>2. Tail(stack) \in Seq(S)
  BY Popped
<1>3. <<f>> \o Tail(stack) \in Seq(S \cup {f})
  BY <1>2, Pushed
<1>4. Readable'
  BY <1>1, <1>3 DEF Readable, Modes
<1> QED
  BY <1>1, <1>4 DEF Forward

(* A container is opened, or was empty. *)
LEMMA Opens ==
  ASSUME Readable, UNCHANGED text,
         NEW f, NEW closer, NEW empty, Open(f, closer, empty)
  PROVE  Forward
<1> PICK S : stack \in Seq(S)
  BY DEF Readable
<1>1. Start \in Nat /\ Start >= offset
  BY SkipForward DEF Start, Readable
<1> DEFINE o == Skip(Start + 1)
<1>2. o \in Nat /\ o >= Start + 1
  BY <1>1, SkipForward DEF Readable
<1> HIDE DEF o
<1>3. o > offset /\ o + 1 \in Nat /\ o + 1 > offset
  BY <1>1, <1>2 DEF Readable
<1>4. CASE CharAt(o) = closer
  <2>1. Back(empty, o + 1) /\ UNCHANGED stack
    BY <1>4 DEF Open, o
  <2>2. mode' = "back" /\ offset' = o + 1
    BY <2>1 DEF Back
  <2>3. Readable'
    BY <1>3, <2>1, <2>2 DEF Readable, Modes
  <2> QED
    BY <1>3, <2>2, <2>3 DEF Forward
<1>5. CASE CharAt(o) # closer
  <2>1. Call(o) /\ stack' = <<f>> \o stack
    BY <1>5 DEF Open, o
  <2>2. mode' = "next" /\ offset' = o
    BY <2>1 DEF Call
  <2>3. stack' \in Seq(S \cup {f})
    BY <2>1, Pushed
  <2>4. Readable'
    BY <1>2, <2>2, <2>3 DEF Readable, Modes
  <2> QED
    BY <1>3, <2>2, <2>4 DEF Forward
<1> QED
  BY <1>4, <1>5

-----------------------------------------------------------------------------
LEMMA InitReadable == Init => Readable
<1> SUFFICES ASSUME Init PROVE Readable
  OBVIOUS
<1>1. text \in Seq(Chars)
  BY ParserAssumption DEF Init
<1>2. stack \in Seq({})
  BY DEF Init
<1> QED
  BY <1>1, <1>2 DEF Init, Readable, Modes

(* Each step of the parser goes forward, or ends what is innermost. *)
LEMMA StepForward ==
  ASSUME Readable, Next
  PROVE  Forward
<1> USE DEF Modes
<1>0. /\ text \in Seq(Chars) /\ offset \in Nat /\ mode \in Modes
      /\ offset + 1 \in Nat /\ offset + 2 \in Nat /\ offset + 3 \in Nat
  BY DEF Readable
<1>s. /\ Start \in Nat /\ Start >= offset
      /\ Start + 1 \in Nat /\ Start + 1 > offset
  <2>1. Start \in Nat /\ Start >= offset
    BY <1>0, SkipForward DEF Start
  <2> QED
    BY <1>0, <2>1
<1>r. /\ Resume \in Nat /\ Resume >= offset
      /\ Resume + 1 \in Nat /\ Resume + 1 > offset
  <2>1. Resume \in Nat /\ Resume >= offset
    BY <1>0, SkipForward DEF Resume
  <2> QED
    BY <1>0, <2>1
<1>1. CASE OpenArray
  BY <1>1, Opens DEF OpenArray, input
<1>2. CASE OpenObject
  BY <1>2, Opens DEF OpenObject, input
<1>3. CASE StartString
  <2>1. mode' = "string" /\ offset' = Start + 1 /\ UNCHANGED <<text, stack>>
    BY <1>3 DEF StartString, Begin
  <2> QED
    BY <1>s, <2>1, InPlace, <1>0
<1>4. CASE StringEnds
  <2>1. mode' = "back" /\ offset' = offset + 1 /\ UNCHANGED <<text, stack>>
    BY <1>4 DEF StringEnds, Back
  <2> QED
    BY <1>0, <2>1, InPlace
<1>5. CASE PlainChar
  <2>1. mode' = mode /\ offset' = offset + 1 /\ UNCHANGED <<text, stack>>
    BY <1>5 DEF PlainChar, Keep
  <2> QED
    BY <1>0, <2>1, InPlace
<1>6. CASE EscapedChar
  <2>1. mode' = mode /\ offset' = offset + 2 /\ UNCHANGED <<text, stack>>
    BY <1>6 DEF EscapedChar, Keep
  <2> QED
    BY <1>0, <2>1, InPlace
<1>7. CASE Unicode
  <2>1. /\ mode' \in Modes /\ offset' \in {offset + 1, offset + 6}
        /\ UNCHANGED <<text, stack>>
    BY <1>0, <1>7 DEF Unicode, Keep, Back
  <2>2. offset' \in Nat /\ offset' > offset
    BY <1>0, <2>1
  <2> QED
    BY <1>0, <2>1, <2>2, InPlace
<1>8. CASE StartNumber
  <2>1. /\ mode = "next" /\ mode' = "number" /\ offset' = Start
        /\ UNCHANGED <<text, stack>>
    BY <1>8 DEF StartNumber, Begin
  <2>2. Rank = 3 /\ Rank' = 2
    BY <2>1, RankIs, RankIsNext
  <2> QED
    BY <1>s, <2>1, <2>2, InPlace
<1>9. CASE NumberChar
  <2>1. mode' = mode /\ offset' = offset + 1 /\ UNCHANGED <<text, stack>>
    BY <1>9 DEF NumberChar, Keep
  <2> QED
    BY <1>0, <2>1, InPlace
<1>10. CASE StartExponent
  <2>1. /\ mode' = "exponent" /\ offset' \in {offset + 2, offset + 3}
        /\ UNCHANGED <<text, stack>>
    BY <1>10 DEF StartExponent
  <2>2. offset' \in Nat /\ offset' > offset
    BY <1>0, <2>1
  <2> QED
    BY <2>1, <2>2, <1>0, InPlace
<1>11. CASE ExponentChar
  <2>1. mode' = mode /\ offset' = offset + 1 /\ UNCHANGED <<text, stack>>
    BY <1>11 DEF ExponentChar
  <2> QED
    BY <1>0, <2>1, InPlace
<1>12. CASE NumberEnds
  <2>1. /\ mode \in {"number", "exponent"} /\ mode' \in {"back", "thrown"}
        /\ UNCHANGED <<text, offset, stack>>
    BY <1>12 DEF NumberEnds, Back
  <2>2. Rank = 2 /\ Rank' \in {0, 1}
    BY <2>1, RankIs, RankIsNext
  <2> QED
    BY <1>0, <2>1, <2>2, InPlace
<1>13. CASE NumberError
  <2>1. mode' = "back" /\ offset' = offset + 1 /\ UNCHANGED <<text, stack>>
    BY <1>13 DEF NumberError, Back
  <2> QED
    BY <1>0, <2>1, InPlace
<1>14. CASE ReadWord
  <2>1. mode' = "back" /\ offset' = Start + 1 /\ UNCHANGED <<text, stack>>
    BY <1>14 DEF ReadWord, Back
  <2> QED
    BY <1>0, <1>s, <2>1, InPlace
<1>15. CASE UnknownStart
  <2>1. /\ mode = "next" /\ mode' = "back" /\ offset' = Start
        /\ UNCHANGED <<text, stack>>
    BY <1>15 DEF UnknownStart, Back
  <2>2. Rank = 3 /\ Rank' = 1
    BY <2>1, RankIs, RankIsNext
  <2> QED
    BY <1>s, <2>1, <2>2, InPlace
<1>16. CASE ItemRead
  <2>1. mode = "back" /\ stack # <<>> /\ UNCHANGED text
    BY <1>16 DEF ItemRead, Answered, input
  <2> DEFINE f == [Top EXCEPT !.items = Append(@, value)]
  <2>2. \/ Continue(f, Resume + 1)
        \/ Close(Arr(f.items), Resume + 1)
        \/ Close(Arr(<<>>), Resume)
    BY <1>16 DEF ItemRead, Broken
  <2> HIDE DEF f
  <2>3. CASE Continue(f, Resume + 1)
    BY <1>r, <2>1, <2>3, Continues
  <2>4. CASE Close(Arr(f.items), Resume + 1)
    BY <1>r, <1>0, <2>1, <2>4, Closes
  <2>5. CASE Close(Arr(<<>>), Resume)
    BY <1>r, <2>1, <2>5, Closes
  <2> QED
    BY <2>2, <2>3, <2>4, <2>5
<1>17. CASE KeyRead
  <2>1. mode = "back" /\ stack # <<>> /\ UNCHANGED text
    BY <1>17 DEF KeyRead, Answered, input
  <2> DEFINE f == [Top EXCEPT !.key = <<KeyOf(value)>>]
  <2>2. \/ Continue(f, Skip(Resume + 1))
        \/ Close(Obj(Top.items), Resume)
    BY <1>17 DEF KeyRead
  <2> HIDE DEF f
  <2>3. Skip(Resume + 1) \in Nat /\ Skip(Resume + 1) >= Resume + 1
    BY <1>0, <1>r, SkipForward
  <2>4. CASE Continue(f, Skip(Resume + 1))
    <3>1. Skip(Resume + 1) > offset
      BY <1>0, <1>r, <2>3
    <3> QED
      BY <2>1, <2>3, <2>4, <3>1, Continues
  <2>5. CASE Close(Obj(Top.items), Resume)
    BY <1>r, <2>1, <2>5, Closes
  <2> QED
    BY <2>2, <2>4, <2>5
<1>18. CASE PairRead
  <2>1. mode = "back" /\ stack # <<>> /\ UNCHANGED text
    BY <1>18 DEF PairRead, Answered, input
  <2> DEFINE S == Put(Top.items, Top.key[1], value)
             f == [NewObject EXCEPT !.items = S]
  <2>2. \/ Continue(f, Resume + 1)
        \/ Close(Obj(S), Resume + 1)
        \/ Close(Obj(S), Resume)
    BY <1>18 DEF PairRead
  <2> HIDE DEF f, S
  <2>3. CASE Continue(f, Resume + 1)
    BY <1>r, <2>1, <2>3, Continues
  <2>4. CASE Close(Obj(S), Resume + 1)
    BY <1>r, <1>0, <2>1, <2>4, Closes
  <2>5. CASE Close(Obj(S), Resume)
    BY <1>r, <2>1, <2>5, Closes
  <2> QED
    BY <2>2, <2>3, <2>4, <2>5
<1>19. CASE Load
  <2>1. mode = "back" /\ mode' = "done" /\ UNCHANGED <<text, offset, stack>>
    BY <1>19 DEF Load
  <2>2. Rank = 1 /\ Rank' = 0
    BY <2>1, RankIs, RankIsNext
  <2> QED
    BY <1>0, <2>1, <2>2, InPlace
<1> QED
  BY <1>1, <1>2, <1>3, <1>4, <1>5, <1>6, <1>7, <1>8, <1>9, <1>10, <1>11,
     <1>12, <1>13, <1>14, <1>15, <1>16, <1>17, <1>18, <1>19 DEF Next

(***************************************************************************)
(* Whatever the text, each step of DATA::Load goes forward in it or ends   *)
(* the innermost of the functions that call one another (Progresses).      *)
(***************************************************************************)
THEOREM AlwaysProgresses == Spec => Progresses
<1>1. Readable /\ [Next]_vars => Readable'
  <2>1. CASE Next
    BY <2>1, StepForward DEF Forward
  <2>2. CASE UNCHANGED vars
    BY <2>2 DEF vars, Readable
  <2> QED
    BY <2>1, <2>2
<1>2. Readable /\ [Next]_vars
        => [offset' > offset \/ (offset' = offset /\ Left' < Left)]_vars
  BY StepForward DEF Forward
<1> QED
  BY <1>1, <1>2, InitReadable, PTL DEF Spec, Progresses

-----------------------------------------------------------------------------
(***************************************************************************)
(* Induction over the natural numbers, for the definitions that are        *)
(* recursive.  The numbers up to n that are not in T are finitely many,    *)
(* and with k also k - 1 is one of them; so is k + 1 then, for a function  *)
(* that is injective on a finite set is also surjective.                   *)
(***************************************************************************)
LEMMA AllNaturals ==
  ASSUME NEW T, 0 \in T, \A n \in Nat : n \in T => n + 1 \in T
  PROVE  Nat \subseteq T
<1> SUFFICES ASSUME NEW n \in Nat, n \notin T PROVE FALSE
  OBVIOUS
<1> DEFINE U == {k \in 0 .. n : k \notin T}
           f == [k \in U |-> k - 1]
<1>1. IsFiniteSet(U)
  <2>1. U \in SUBSET Nat /\ \A k \in U : k <= n
    OBVIOUS
  <2> QED
    BY <2>1, FS_BoundedSetOfNaturals
<1>2. \A k \in U : k - 1 \in U
  OBVIOUS
<1>3. f \in [U -> U] /\ \A k, m \in U : f[k] = f[m] => k = m
  BY <1>2
<1>4. \A k \in U : f[k] # n
  OBVIOUS
<1>5. n \in U
  OBVIOUS
<1> HIDE DEF U, f
<1>6. f \in Injection(U, U)
  BY <1>3, Fun_IsInj
<1>7. f \in Surjection(U, U)
  BY <1>1, <1>6, FS_Injection
<1> QED
  BY <1>4, <1>5, <1>7 DEF Surjection

(* What is converted of a number: there is a longest numeral to begin with. *)
LEMMA LongestIsLast ==
  ASSUME NEW s, Len(s) \in Nat
  PROVE  Longest(s) \in Numerals(s) /\ \A j \in Numerals(s) : j <= Longest(s)
<1> DEFINE S == Numerals(s)
           T == {k \in Nat : \E m \in S : m >= k}
<1>1. S \subseteq 0 .. Len(s) /\ 0 \in S
  BY DEF Numerals
<1> HIDE DEF S
<1>2. \E k \in S : \A j \in S : j <= k
  <2> SUFFICES ASSUME \A k \in S : \E j \in S : ~ (j <= k) PROVE FALSE
    OBVIOUS
  <2>1. 0 \in T
    BY <1>1
  <2>2. ASSUME NEW k \in Nat, k \in T PROVE k + 1 \in T
    <3>1. PICK m \in S : m >= k
      BY <2>2
    <3>2. PICK j \in S : ~ (j <= m)
      OBVIOUS
    <3>3. j >= k + 1
      BY <1>1, <3>1, <3>2
    <3> QED
      BY <3>3
  <2>3. Len(s) + 1 \in T
    <3> HIDE DEF T
    <3> QED
      BY <2>1, <2>2, AllNaturals
  <2> QED
    BY <1>1, <2>3
<1> QED
  BY <1>2 DEF Longest, S

LEMMA ConvertedIsNumeral ==
  ASSUME NEW s, Len(s) \in Nat, Converts(s)
  PROVE  Numeral(Converted(s))
<1>1. Longest(s) \in Numerals(s) /\ Longest(s) > 0
  BY LongestIsLast DEF Converts
<1> QED
  BY <1>1 DEF Converted, Numerals

LEMMA NumeralIsConverted ==
  ASSUME NEW s, Numeral(s)
  PROVE  s # <<>> /\ Converts(s) /\ Converted(s) = s
<1>1. s \in Seq(Digits \cup {"-", "."}) /\ DOMAIN s # {}
  BY DEF Numeral
<1>2. Len(s) \in Nat \ {0} /\ s # <<>>
  BY <1>1, EmptySeq
<1>3. SubSeq(s, 1, Len(s)) = s
  BY <1>1, SubSeqFull
<1>4. Len(s) \in Numerals(s) /\ Numerals(s) \subseteq 0 .. Len(s)
  <2>0. Numeral(SubSeq(s, 1, Len(s)))
    BY <1>3, Zenon
  <2>a. Len(s) \in 1 .. Len(s)
    BY <1>2
  <2>1. Len(s) \in 1 .. Len(s) /\ Numeral(SubSeq(s, 1, Len(s)))
    BY <2>0, <2>a
  <2>2. Numerals(s) \subseteq 0 .. Len(s)
    BY <1>2 DEF Numerals
  <2>3. Len(s) \in Numerals(s)
    BY <2>1 DEF Numerals
  <2> QED
    BY <2>2, <2>3
<1>5. Longest(s) \in Numerals(s) /\ Len(s) <= Longest(s)
  BY <1>2, <1>4, LongestIsLast
<1>6. Longest(s) = Len(s)
  BY <1>2, <1>4, <1>5
<1> QED
  BY <1>2, <1>3, <1>6 DEF Converts, Converted

LEMMA DigitsAreNumeral ==
  ASSUME NEW s \in Seq(Digits), s # <<>>
  PROVE  Numeral(s)
<1>1. s \in Seq(Digits \cup {"-", "."})
  BY SeqMonotonic
<1>2. \A i \in DOMAIN s : s[i] \in Digits /\ s[i] \notin {"-", "."}
  BY DEF Digits
<1>3. 1 \in DOMAIN s
  <2>1. Len(s) \in Nat \ {0} /\ DOMAIN s = 1 .. Len(s)
    BY EmptySeq
  <2> QED
    BY <2>1
<1> QED
  BY <1>1, <1>2, <1>3 DEF Numeral

(* What ToString writes for one character of a string. *)
Dumped(c) == IF c \in Escaped THEN <<Escape, c>> ELSE <<c>>

(* The function that Dump is defined by, for the first k characters. *)
DumpTo(u, s, k) ==
  u = [n \in 0 .. k |-> IF n = 0 THEN <<>> ELSE u[n - 1] \o Dumped(s[n])]

LEMMA DumpToExists ==
  ASSUME NEW s, NEW m \in Nat
  PROVE  \E u : DumpTo(u, s, m)
<1> DEFINE T == {k \in Nat : \E u : DumpTo(u, s, k)}
<1>1. 0 \in T
  <2>1. DumpTo([n \in 0 .. 0 |-> <<>>], s, 0)
    BY DEF DumpTo
  <2> QED
    BY <2>1
<1>2. ASSUME NEW k \in Nat, k \in T PROVE k + 1 \in T
  <2>1. PICK u : DumpTo(u, s, k)
    BY <1>2
  <2> DEFINE w == [n \in 0 .. k + 1 |->
                     IF n = k + 1 THEN u[k] \o Dumped(s[k + 1]) ELSE u[n]]
  <2>2. \A n \in 0 .. k : w[n] = u[n]
    OBVIOUS
  <2>3. \A n \in 0 .. k : u[n] = IF n = 0 THEN <<>> ELSE u[n - 1] \o Dumped(s[n])
    BY <2>1 DEF DumpTo
  <2>4. ASSUME NEW n \in 0 .. k + 1
        PROVE  w[n] = IF n = 0 THEN <<>> ELSE w[n - 1] \o Dumped(s[n])
    <3>1. CASE n = k + 1
      <4>0. n # 0 /\ n \in 0 .. k + 1
        BY <3>1
      <4>1. w[n] = u[k] \o Dumped(s[k + 1])
        BY <3>1, <4>0
      <4>2. w[n - 1] = u[k]
        BY <3>1, <2>2
      <4> QED
        BY <4>0, <4>1, <4>2, <3>1
    <3>2. CASE n \in 0 .. k
      <4>1. n = 0 \/ n - 1 \in 0 .. k
        BY <3>2
      <4> QED
        BY <2>2, <2>3, <3>2, <4>1
    <3> QED
      BY <3>1, <3>2
  <2>5. w = [n \in 0 .. k + 1 |-> w[n]]
    OBVIOUS
  <2> HIDE DEF w
  <2>6. DumpTo(w, s, k + 1)
    BY <2>4, <2>5 DEF DumpTo
  <2> QED
    BY <2>6
<1> HIDE DEF T
<1>3. Nat \subseteq T
  BY <1>1, <1>2, AllNaturals
<1> QED
  BY <1>3 DEF T

(* What the definition of Dump means. *)
LEMMA DumpIs ==
  ASSUME NEW s, Len(s) \in Nat
  PROVE  \E u : DumpTo(u, s, Len(s)) /\ Dump(s) = u[Len(s)]
<1> DEFINE u == CHOOSE f : DumpTo(f, s, Len(s))
<1>1. DumpTo(u, s, Len(s))
  BY DumpToExists
<1>2. Dump(s) = u[Len(s)]
  BY DEF Dump, DumpTo, Dumped
<1> QED
  BY <1>1, <1>2

LEMMA ShortSeqs ==
  ASSUME NEW S, NEW a \in S, NEW b \in S
  PROVE  <<a>> \in Seq(S) /\ <<a, b>> \in Seq(S)
OBVIOUS

(* ToString gives characters. *)
LEMMA DumpTyped ==
  ASSUME NEW s \in Seq(Chars)
  PROVE  Dump(s) \in Seq(Chars)
<1>0. Len(s) \in Nat
  OBVIOUS
<1>1. PICK u : DumpTo(u, s, Len(s)) /\ Dump(s) = u[Len(s)]
  BY <1>0, DumpIs
<1> DEFINE T == {k \in Nat : k <= Len(s) => u[k] \in Seq(Chars)}
<1>2. \A n \in 0 .. Len(s) :
        u[n] = IF n = 0 THEN <<>> ELSE u[n - 1] \o Dumped(s[n])
  BY <1>1 DEF DumpTo
<1>3. 0 \in T
  <2>1. u[0] = <<>>
    BY <1>0, <1>2
  <2>2. u[0] \in Seq(Chars)
    BY <2>1, EmptySeq
  <2> QED
    BY <2>2
<1>4. ASSUME NEW k \in Nat, k \in T PROVE k + 1 \in T
  <2> SUFFICES ASSUME k + 1 <= Len(s) PROVE u[k + 1] \in Seq(Chars)
    OBVIOUS
  <2>1. u[k] \in Seq(Chars)
    BY <1>0, <1>4
  <2>2. u[k + 1] = u[k] \o Dumped(s[k + 1])
    <3>1. k + 1 \in 0 .. Len(s) /\ k + 1 # 0 /\ (k + 1) - 1 = k
      BY <1>0
    <3>2. u[k + 1] = u[(k + 1) - 1] \o Dumped(s[k + 1])
      BY <1>2, <3>1, Zenon
    <3> QED
      BY <3>1, <3>2
  <2>3. s[k + 1] \in Chars
    BY <1>0
  <2>4. Dumped(s[k + 1]) \in Seq(Chars)
    <3>1. <<s[k + 1]>> \in Seq(Chars) /\ <<Escape, s[k + 1]>> \in Seq(Chars)
      <4>1. Escape \in Chars
        BY ParserAssumption
      <4> QED
        BY <2>3, <4>1, ShortSeqs
    <3> QED
      BY <3>1, Zenon DEF Dumped
  <2> QED
    BY <2>1, <2>2, <2>4
<1> HIDE DEF T
<1>5. Nat \subseteq T
  BY <1>3, <1>4, AllNaturals
<1> QED
  BY <1>0, <1>1, <1>5 DEF T

-----------------------------------------------------------------------------
(***************************************************************************)
(* The type invariant.  To be inductive it says what a frame is made of,   *)
(* and that the value read for a key has characters to be escaped.         *)
(***************************************************************************)
Frame(o, i, k) == [of |-> o, items |-> i, key |-> k]

FrameOK(f) ==
  \E o \in {"array", "object"}, k \in Seq(Seq(Chars)) : \E i : f = Frame(o, i, k)

StackOK(s) == \E S : s \in Seq(S) /\ \A f \in S : FrameOK(f)

ValueOK(v) ==
  /\ v[1] \in Kinds
  /\ v[1] = "string" => v[2] \in Seq(Chars)
  /\ v[1] = "number" => Numeral(v[2])

Typed ==
  /\ doc \in Docs \cup {NoDoc}
  /\ text \in Seq(Chars)
  /\ offset \in Nat \ {0}
  /\ mode \in Modes
  /\ StackOK(stack)
  /\ buf \in Seq(Chars) /\ exp \in Seq(Chars)
  /\ ValueOK(value)

LEMMA TypedIsReadable == Typed => Readable
BY DEF Typed, Readable, StackOK

LEMMA TypedIsTypeOK == Typed => TypeOK
<1> SUFFICES ASSUME Typed PROVE TypeOK
  OBVIOUS
<1>1. ASSUME NEW i \in DOMAIN stack
      PROVE  stack[i].of \in {"array", "object"} /\ stack[i].key \in Seq(Seq(Chars))
  <2> PICK S : stack \in Seq(S) /\ \A f \in S : FrameOK(f)
    BY DEF Typed, StackOK
  <2>1. FrameOK(stack[i])
    BY <1>1
  <2>2. PICK o \in {"array", "object"}, k \in Seq(Seq(Chars)) :
          \E j : stack[i] = Frame(o, j, k)
    BY <2>1 DEF FrameOK
  <2> QED
    BY <2>2 DEF Frame
<1>2. /\ value[1] \in Kinds
      /\ value[1] = "number" => Numeral(value[2])
  BY DEF Typed, ValueOK
<1>3. /\ doc \in Docs \cup {NoDoc} /\ text \in Seq(Chars) /\ offset \in Nat \ {0}
      /\ mode \in Modes /\ buf \in Seq(Chars) /\ exp \in Seq(Chars)
  BY DEF Typed
<1> QED
  BY <1>1, <1>2, <1>3 DEF TypeOK, Modes

(* A frame more, a frame less, and the top of the stack. *)
LEMMA StackPushed ==
  ASSUME NEW s, StackOK(s), NEW f, FrameOK(f)
  PROVE  StackOK(<<f>> \o s)
<1> PICK S : s \in Seq(S) /\ \A g \in S : FrameOK(g)
  BY DEF StackOK
<1>1. <<f>> \o s \in Seq(S \cup {f})
  BY Pushed
<1>2. \A g \in S \cup {f} : FrameOK(g)
  OBVIOUS
<1> QED
  BY <1>1, <1>2 DEF StackOK

LEMMA StackPopped ==
  ASSUME NEW s, StackOK(s), s # <<>>
  PROVE  StackOK(Tail(s)) /\ FrameOK(Head(s))
<1> PICK S : s \in Seq(S) /\ \A g \in S : FrameOK(g)
  BY DEF StackOK
<1>1. Tail(s) \in Seq(S) /\ Head(s) \in S
  BY HeadTailProperties
<1> QED
  BY <1>1 DEF StackOK

LEMMA NewFrames == FrameOK(NewArray) /\ FrameOK(NewObject)
<1>1. <<>> \in Seq(Seq(Chars))
  BY EmptySeq
<1>2. NewArray = Frame("array", <<>>, <<>>) /\ NewObject = Frame("object", {}, <<>>)
  BY DEF NewArray, NewObject, Frame
<1> QED
  BY <1>1, <1>2 DEF FrameOK

(* Filling a frame, and giving it a key. *)
LEMMA FrameFilled ==
  ASSUME NEW f, FrameOK(f), NEW j, NEW k \in Seq(Seq(Chars))
  PROVE  FrameOK([f EXCEPT !.items = j]) /\ FrameOK([f EXCEPT !.key = k])
<1>1. PICK o \in {"array", "object"}, l \in Seq(Seq(Chars)) : \E i : f = Frame(o, i, l)
  BY DEF FrameOK
<1>2. PICK i : f = Frame(o, i, l)
  BY <1>1
<1>3. [f EXCEPT !.items = j] = Frame(o, j, l) /\ [f EXCEPT !.key = k] = Frame(o, i, k)
  BY <1>2 DEF Frame
<1> QED
  BY <1>3 DEF FrameOK

(* The characters of the text, and the one after them. *)
LEMMA CharAtTyped ==
  ASSUME text \in Seq(Chars), NEW o \in Nat \ {0}
  PROVE  CharAt(o) \in Chars
BY ParserAssumption DEF CharAt

LEMMA SeqOfOne ==
  ASSUME NEW S, NEW s \in Seq(S), NEW c \in S
  PROVE  s \o <<c>> \in Seq(S) /\ Append(s, c) \in Seq(S)
OBVIOUS

LEMMA KeyOfTyped ==
  ASSUME NEW v, ValueOK(v)
  PROVE  <<KeyOf(v)>> \in Seq(Seq(Chars))
<1>1. KeyOf(v) \in Seq(Chars)
  BY DumpTyped, EmptySeq DEF KeyOf, ValueOK
<1> QED
  BY <1>1, ShortSeqs

LEMMA ValuesOK ==
  /\ \A s \in Seq(Chars) : ValueOK(Str(s))
  /\ \A s, e : Numeral(s) => ValueOK(Num(s, e))
  /\ \A w : ValueOK(Word(w))
  /\ \A s : ValueOK(Arr(s)) /\ ValueOK(Obj(s))
BY DEF ValueOK, Str, Num, Word, Arr, Obj, Kinds

(* What a step leaves typed, besides the offset. *)
Fits ==
  /\ doc' = doc /\ text' = text
  /\ mode' \in Modes
  /\ StackOK(stack')
  /\ buf' \in Seq(Chars) /\ exp' \in Seq(Chars)
  /\ ValueOK(value')

LEMMA OpenFits ==
  ASSUME Typed, UNCHANGED input, NEW f, FrameOK(f), NEW c, NEW v, ValueOK(v),
         Open(f, c, v)
  PROVE  Fits
<1>1. CASE CharAt(Skip(Start + 1)) = c
  <2>1. Back(v, Skip(Start + 1) + 1) /\ UNCHANGED stack
    BY <1>1 DEF Open
  <2> QED
    BY <2>1 DEF Back, Fits, Typed, input, Modes
<1>2. CASE CharAt(Skip(Start + 1)) # c
  <2>1. Call(Skip(Start + 1)) /\ stack' = <<f>> \o stack
    BY <1>2 DEF Open
  <2>2. StackOK(stack')
    BY <2>1, StackPushed DEF Typed
  <2> QED
    BY <2>1, <2>2 DEF Call, Fits, Typed, input, Modes
<1> QED
  BY <1>1, <1>2

LEMMA CloseFits ==
  ASSUME Typed, UNCHANGED input, stack # <<>>,
         NEW v, ValueOK(v), NEW o, Close(v, o)
  PROVE  Fits
<1>1. Back(v, o) /\ stack' = Tail(stack)
  BY DEF Close
<1>2. StackOK(stack')
  BY <1>1, StackPopped DEF Typed
<1> QED
  BY <1>1, <1>2 DEF Back, Fits, Typed, input, Modes

LEMMA ContinueFits ==
  ASSUME Typed, UNCHANGED input, stack # <<>>,
         NEW f, FrameOK(f), NEW o, Continue(f, o)
  PROVE  Fits
<1>1. Call(o) /\ stack' = <<f>> \o Tail(stack)
  BY DEF Continue
<1>2. StackOK(stack')
  BY <1>1, StackPopped, StackPushed DEF Typed
<1> QED
  BY <1>1, <1>2 DEF Call, Fits, Typed, input, Modes

(* The innermost function ends with a value. *)
LEMMA BackFits ==
  ASSUME Typed, UNCHANGED <<doc, text, stack>>, NEW v, ValueOK(v), NEW o, Back(v, o)
  PROVE  Fits
BY DEF Back, Fits, Typed, Modes

(* Some characters are added to a string or a number. *)
LEMMA KeepFits ==
  ASSUME Typed, NEW s \in Seq(Chars), NEW n, Keep(s, n)
  PROVE  Fits
<1>1. buf' = buf \o s
  BY DEF Keep
<1>2. buf' \in Seq(Chars)
  BY <1>1, ConcatProperties DEF Typed
<1> QED
  BY <1>2 DEF Keep, Fits, Typed

LEMMA StepFits ==
  ASSUME Typed, Next
  PROVE  Fits
<1>0. /\ text \in Seq(Chars) /\ offset \in Nat \ {0} /\ mode \in Modes
      /\ StackOK(stack) /\ buf \in Seq(Chars) /\ exp \in Seq(Chars) /\ ValueOK(value)
      /\ <<>> \in Seq(Chars)
  BY EmptySeq DEF Typed
<1>h. \A i \in Nat : CharAt(offset + i) \in Chars
  <2> SUFFICES ASSUME NEW i \in Nat PROVE CharAt(offset + i) \in Chars
    OBVIOUS
  <2>1. offset + i \in Nat \ {0}
    BY <1>0
  <2> QED
    BY <1>0, <2>1, CharAtTyped
<1>e. Here \in Chars
  BY <1>0, CharAtTyped DEF Here
<1>1. CASE OpenArray
  BY <1>1, OpenFits, NewFrames, ValuesOK DEF OpenArray
<1>2. CASE OpenObject
  BY <1>2, OpenFits, NewFrames, ValuesOK DEF OpenObject
<1>3. CASE StartString
  BY <1>0, <1>3 DEF StartString, Begin, Fits, Modes
<1>4. CASE StringEnds
  <2>1. ValueOK(Str(buf))
    BY <1>0, ValuesOK
  <2> QED
    BY <1>4, <2>1, BackFits DEF StringEnds
<1>5. CASE PlainChar
  <2>1. <<Here>> \in Seq(Chars)
    BY <1>e, ShortSeqs
  <2> QED
    BY <1>5, <2>1, KeepFits DEF PlainChar
<1>6. CASE EscapedChar
  <2> DEFINE c == CharAt(offset + 1)
  <2>1. c \in Chars /\ Escape \in Chars
    BY <1>h, ParserAssumption
  <2>2. Unescaped(c) \in Seq(Chars)
    BY <2>1, ShortSeqs DEF Unescaped
  <2> QED
    BY <1>6, <2>2, KeepFits DEF EscapedChar
<1>7. CASE Unicode
  <2> DEFINE hex == [i \in 1 .. 4 |-> CharAt(offset + 1 + i)]
  <2>1. CASE \A i \in 1 .. 4 : hex[i] \in Digits
    <3>1. \A i \in 1 .. 4 : CharAt(offset + 1 + i) \in Chars
      <4> SUFFICES ASSUME NEW i \in 1 .. 4 PROVE CharAt(offset + 1 + i) \in Chars
        OBVIOUS
      <4>1. 1 + i \in Nat /\ offset + 1 + i = offset + (1 + i)
        BY <1>0
      <4> QED
        BY <1>h, <4>1
    <3>2. hex \in Seq(Chars)
      BY <3>1, IsASeq
    <3>3. <<Escape, "u">> \in Seq(Chars)
      BY ParserAssumption, ShortSeqs
    <3>4. <<Escape, "u">> \o hex \in Seq(Chars)
      BY <3>2, <3>3, ConcatProperties
    <3>5. Keep(<<Escape, "u">> \o hex, 6)
      BY <1>7, <2>1 DEF Unicode
    <3> QED
      BY <3>4, <3>5, KeepFits
  <2>2. CASE ~ \A i \in 1 .. 4 : hex[i] \in Digits
    <3>1. ValueOK(Str(<<>>))
      BY <1>0, ValuesOK
    <3>2. Back(Str(<<>>), offset + 1) /\ UNCHANGED <<doc, text, stack>>
      BY <1>7, <2>2 DEF Unicode
    <3> QED
      BY <3>1, <3>2, BackFits
  <2> QED
    BY <2>1, <2>2
<1>8. CASE StartNumber
  BY <1>0, <1>8 DEF StartNumber, Begin, Fits, Modes
<1>9. CASE NumberChar
  <2>1. <<Here>> \in Seq(Chars)
    BY <1>e, ShortSeqs
  <2> QED
    BY <1>9, <2>1, KeepFits DEF NumberChar
<1>10. CASE StartExponent
  <2>1. <<"-">> \in Seq(Chars)
    BY ParserAssumption, ShortSeqs
  <2>2. exp' \in {<<"-">>, <<>>}
    BY <1>10, Zenon DEF StartExponent
  <2> QED
    BY <1>0, <1>10, <2>1, <2>2 DEF StartExponent, Fits, Modes
<1>11. CASE ExponentChar
  <2>1. Append(exp, Here) \in Seq(Chars)
    BY <1>0, <1>e, SeqOfOne
  <2> QED
    BY <1>0, <1>11, <2>1 DEF ExponentChar, Fits
<1>12. CASE NumberEnds
  <2>1. CASE Converts(buf) /\ (mode = "number" \/ Converts(exp))
    <3>1. ValueOK(Num(Converted(buf), exp))
      <4>1. Len(buf) \in Nat
        BY <1>0 DEF Typed
      <4> QED
        BY <2>1, <4>1, ConvertedIsNumeral, ValuesOK
    <3>2. Back(Num(Converted(buf), exp), offset) /\ UNCHANGED <<doc, text, stack>>
      BY <1>12, <2>1 DEF NumberEnds
    <3> QED
      BY <3>1, <3>2, BackFits
  <2>2. CASE ~ (Converts(buf) /\ (mode = "number" \/ Converts(exp)))
    BY <1>0, <1>12, <2>2 DEF NumberEnds, Fits, Modes
  <2> QED
    BY <2>1, <2>2
<1>13. CASE NumberError
  BY <1>13, BackFits, ValuesOK DEF NumberError, Null
<1>14. CASE ReadWord
  BY <1>14, BackFits, ValuesOK DEF ReadWord
<1>15. CASE UnknownStart
  BY <1>15, BackFits, ValuesOK DEF UnknownStart, Null
<1>16. CASE ItemRead
  <2>1. stack # <<>> /\ UNCHANGED input
    BY <1>16 DEF ItemRead, Answered
  <2>2. FrameOK(Top)
    BY <1>0, <2>1, StackPopped DEF Top
  <2> DEFINE f == [Top EXCEPT !.items = Append(@, value)]
  <2>3. FrameOK(f)
    <3> DEFINE j == Append(Top.items, value)
    <3>1. f = [Top EXCEPT !.items = j]
      OBVIOUS
    <3> HIDE DEF j, f
    <3>2. <<>> \in Seq(Seq(Chars))
      BY EmptySeq
    <3> QED
      BY <2>2, <3>1, <3>2, FrameFilled
  <2>4. \/ Continue(f, Resume + 1)
        \/ Close(Arr(f.items), Resume + 1)
        \/ Close(Arr(<<>>), Resume)
    BY <1>16 DEF ItemRead, Broken
  <2> HIDE DEF f
  <2> QED
    BY <2>1, <2>3, <2>4, ContinueFits, CloseFits, ValuesOK
<1>17. CASE KeyRead
  <2>1. stack # <<>> /\ UNCHANGED input
    BY <1>17 DEF KeyRead, Answered
  <2>2. FrameOK(Top)
    BY <1>0, <2>1, StackPopped DEF Top
  <2> DEFINE f == [Top EXCEPT !.key = <<KeyOf(value)>>]
  <2>3. FrameOK(f)
    BY <1>0, <2>2, KeyOfTyped, FrameFilled
  <2>4. \/ Continue(f, Skip(Resume + 1))
        \/ Close(Obj(Top.items), Resume)
    BY <1>17 DEF KeyRead
  <2> HIDE DEF f
  <2> QED
    BY <2>1, <2>3, <2>4, ContinueFits, CloseFits, ValuesOK
<1>18. CASE PairRead
  <2>1. stack # <<>> /\ UNCHANGED input
    BY <1>18 DEF PairRead, Answered
  <2> DEFINE S == Put(Top.items, Top.key[1], value)
             f == [NewObject EXCEPT !.items = S]
  <2>2. <<>> \in Seq(Seq(Chars))
    BY EmptySeq
  <2>3. \/ Continue(f, Resume + 1)
        \/ Close(Obj(S), Resume + 1)
        \/ Close(Obj(S), Resume)
    BY <1>18 DEF PairRead
  <2> HIDE DEF S
  <2>4. FrameOK(f)
    BY <2>2, NewFrames, FrameFilled
  <2> HIDE DEF f
  <2> QED
    BY <2>1, <2>3, <2>4, ContinueFits, CloseFits, ValuesOK
<1>19. CASE Load
  BY <1>0, <1>19 DEF Load, Fits, Modes
<1> QED
  BY <1>1, <1>2, <1>3, <1>4, <1>5, <1>6, <1>7, <1>8, <1>9, <1>10, <1>11,
     <1>12, <1>13, <1>14, <1>15, <1>16, <1>17, <1>18, <1>19 DEF Next

LEMMA InitTyped == Init => Typed
<1> SUFFICES ASSUME Init PROVE Typed
  OBVIOUS
<1>1. text \in Seq(Chars) /\ doc \in Docs \cup {NoDoc}
  BY ParserAssumption DEF Init
<1>2. StackOK(stack)
  <2>1. stack \in Seq({})
    BY EmptySeq DEF Init
  <2> QED
    BY <2>1 DEF StackOK
<1>3. ValueOK(value)
  BY ValuesOK DEF Init, Null
<1>4. <<>> \in Seq(Chars)
  BY EmptySeq
<1> QED
  BY <1>1, <1>2, <1>3, <1>4 DEF Init, Typed, Modes

LEMMA StepTyped == Typed /\ [Next]_vars => Typed'
<1>1. ASSUME Typed, Next PROVE Typed'
  <2>1. Fits
    BY <1>1, StepFits
  <2>2. offset' \in Nat /\ (offset' > offset \/ offset' = offset)
    BY <1>1, StepForward, TypedIsReadable DEF Forward, Readable
  <2>3. offset' \in Nat \ {0}
    BY <1>1, <2>2 DEF Typed
  <2> QED
    BY <1>1, <2>1, <2>3 DEF Fits, Typed
<1>2. ASSUME Typed, UNCHANGED vars PROVE Typed'
  BY <1>2 DEF Typed, vars
<1> QED
  BY <1>1, <1>2

(***************************************************************************)
(* Whatever the text, right or wrong, each value that DATA::Load makes is  *)
(* one of a kind, and a number is made only where there are digits.        *)
(***************************************************************************)
THEOREM ParserTyped == Spec => []TypeOK
<1>1. Spec => []Typed
  BY InitTyped, StepTyped, PTL DEF Spec
<1> QED
  BY <1>1, TypedIsTypeOK, PTL

-----------------------------------------------------------------------------
(***************************************************************************)
(* What consume_ws finds.  In the text and at its end there is always a    *)
(* character that is not blank, at or after the offset.                    *)
(***************************************************************************)
LEMMA CharAtIsAt ==
  ASSUME text \in Seq(Chars), NEW o \in Nat \ {0}
  PROVE  CharAt(o) = At(text, o)
BY DEF CharAt, At

LEMMA SkipFinds ==
  ASSUME text \in Seq(Chars), NEW o \in 1 .. Len(text) + 1
  PROVE  /\ Skip(o) \in o .. Len(text) + 1
         /\ CharAt(Skip(o)) # Blank
         /\ \A q \in o .. Skip(o) - 1 : CharAt(q) = Blank
<1> DEFINE L == Len(text)
           S == Stops(o, {Blank})
<1>0. L \in Nat /\ o \in Nat
  OBVIOUS
<1>1. CharAt(L + 1) # Blank
  <2>1. ~ (L + 1 <= L)
    BY <1>0
  <2>2. CharAt(L + 1) = End
    BY <2>1 DEF CharAt
  <2>3. End # Blank
    BY DEF End, Blank
  <2> QED
    BY <2>2, <2>3
<1>2. S # {}
  <2> SUFFICES ASSUME S = {} PROVE FALSE
    OBVIOUS
  <2> DEFINE T == {k \in Nat : o + k <= L + 1 => \A q \in o .. o + k : CharAt(q) = Blank}
  <2>1. ASSUME NEW p \in o .. L + 1, \A q \in o .. p - 1 : CharAt(q) = Blank
        PROVE  CharAt(p) = Blank
    <3> SUFFICES ASSUME CharAt(p) # Blank PROVE FALSE
      OBVIOUS
    <3>1. p \in o .. L + 2
      BY <1>0, <2>1
    <3>2. p \in S
      BY <2>1, <3>1 DEF Stops
    <3> QED
      BY <3>2
  <2>2. 0 \in T
    <3>1. CharAt(o) = Blank
      BY <1>0, <2>1
    <3> QED
      BY <1>0, <3>1
  <2>3. ASSUME NEW k \in Nat, k \in T PROVE k + 1 \in T
    <3> SUFFICES ASSUME o + (k + 1) <= L + 1
                 PROVE  \A q \in o .. o + (k + 1) : CharAt(q) = Blank
      OBVIOUS
    <3>1. \A q \in o .. o + k : CharAt(q) = Blank
      BY <1>0, <2>3
    <3>2. CharAt(o + (k + 1)) = Blank
      <4>1. o + (k + 1) \in o .. L + 1 /\ (o + (k + 1)) - 1 = o + k
        BY <1>0
      <4> QED
        BY <2>1, <3>1, <4>1
    <3> QED
      BY <1>0, <3>1, <3>2
  <2> HIDE DEF T
  <2>4. Nat \subseteq T
    BY <2>2, <2>3, AllNaturals
  <2>5. L + 1 - o \in T /\ o + (L + 1 - o) = L + 1 /\ L + 1 - o \in Nat
    BY <1>0, <2>4
  <2>6. CharAt(L + 1) = Blank
    BY <1>0, <2>5 DEF T
  <2> QED
    BY <1>1, <2>6
<1>3. Skip(o) \in S
  BY <1>2 DEF Skip, Past
<1>4. /\ Skip(o) \in o .. L + 2 /\ CharAt(Skip(o)) # Blank
      /\ \A q \in o .. Skip(o) - 1 : CharAt(q) = Blank
  BY <1>3 DEF Stops
<1>5. Skip(o) # L + 2
  <2> SUFFICES ASSUME Skip(o) = L + 2 PROVE FALSE
    OBVIOUS
  <2>1. L + 1 \in o .. Skip(o) - 1
    BY <1>0
  <2> QED
    BY <1>1, <1>4, <2>1
<1> QED
  BY <1>0, <1>4, <1>5

-----------------------------------------------------------------------------
(***************************************************************************)
(* A text in which the tokens end is not read beyond its end, whatever its *)
(* structure: the parser is always where scanning may be.                  *)
(***************************************************************************)
Scanned(P) ==
  /\ ClosedScan(text, P)
  /\ mode \in {"next", "back"} => <<"between", offset>> \in P
  /\ mode \in {"string", "number", "exponent"} => <<mode, offset>> \in P

LEMMA ScanStep ==
  ASSUME NEW t, NEW P, ClosedScan(t, P), NEW m, NEW p, <<m, p>> \in P
  PROVE  /\ p \in 1 .. Len(t) + 1
         /\ Scans(t, m, p) \subseteq P
BY DEF ClosedScan

LEMMA ScansOver ==
  ASSUME NEW t, NEW p, At(t, p) \in {Blank, "[", "{", ":"} \cup Closers \cup Words
  PROVE  <<"between", p + 1>> \in Scans(t, "between", p)
<1>1. At(t, p) # Quote /\ At(t, p) \notin Digits \cup {"-"}
  BY DEF Blank, Closers, Words, Quote, Digits
<1> QED
  BY <1>1 DEF Scans

(* The blanks between two tokens are scanned one by one. *)
LEMMA ScanSkips ==
  ASSUME text \in Seq(Chars), NEW P, ClosedScan(text, P),
         NEW o, <<"between", o>> \in P
  PROVE  /\ <<"between", Skip(o)>> \in P
         /\ o \in 1 .. Len(text) + 1 /\ Skip(o) \in o .. Len(text) + 1
<1>1. o \in 1 .. Len(text) + 1 /\ Len(text) \in Nat
  BY ScanStep
<1>2. Skip(o) \in o .. Len(text) + 1 /\ \A q \in o .. Skip(o) - 1 : CharAt(q) = Blank
  BY <1>1, SkipFinds
<1> DEFINE T == {k \in Nat : o + k <= Skip(o) => <<"between", o + k>> \in P}
<1>3. 0 \in T
  BY <1>1
<1>4. ASSUME NEW k \in Nat, k \in T PROVE k + 1 \in T
  <2> SUFFICES ASSUME o + (k + 1) <= Skip(o) PROVE <<"between", o + (k + 1)>> \in P
    OBVIOUS
  <2>1. <<"between", o + k>> \in P
    BY <1>1, <1>2, <1>4
  <2>2. o + k \in o .. Skip(o) - 1 /\ o + k \in Nat \ {0}
    BY <1>1, <1>2
  <2>3. At(text, o + k) = Blank
    BY <1>2, <2>2, CharAtIsAt
  <2>4. <<"between", (o + k) + 1>> \in Scans(text, "between", o + k)
    <3>1. At(text, o + k) \in {Blank, "[", "{", ":"} \cup Closers \cup Words
      BY <2>3
    <3> QED
      BY <3>1, ScansOver
  <2>5. (o + k) + 1 = o + (k + 1)
    BY <1>1
  <2> QED
    BY <2>1, <2>4, <2>5, ScanStep
<1> HIDE DEF T
<1>5. Nat \subseteq T
  BY <1>3, <1>4, AllNaturals
<1>6. Skip(o) - o \in T /\ Skip(o) - o \in Nat /\ o + (Skip(o) - o) = Skip(o)
  BY <1>1, <1>2, <1>5
<1>7. <<"between", o + (Skip(o) - o)>> \in P
  BY <1>1, <1>2, <1>6 DEF T
<1> QED
  BY <1>1, <1>2, <1>6, <1>7

(* Where a token begins, or a separator stands. *)
LEMMA ScanBetween ==
  ASSUME text \in Seq(Chars), NEW P, ClosedScan(text, P), NEW o, <<"between", o>> \in P
  PROVE  /\ CharAt(o) \in {"[", "{", ":"} \cup Closers \cup Words => <<"between", o + 1>> \in P
         /\ CharAt(o) = Quote => <<"string", o + 1>> \in P
         /\ CharAt(o) \in Digits \cup {"-"} => <<"number", o>> \in P
<1>1. o \in Nat \ {0}
  BY ScanStep
<1>2. CharAt(o) = At(text, o)
  BY <1>1, CharAtIsAt
<1>3. Scans(text, "between", o) \subseteq P
  BY ScanStep
<1> DEFINE c == At(text, o)
<1>4. CASE c \in {"[", "{", ":"} \cup Closers \cup Words
  <2>1. <<"between", o + 1>> \in Scans(text, "between", o)
    <3>1. c \in {Blank, "[", "{", ":"} \cup Closers \cup Words
      BY <1>4
    <3> QED
      BY <3>1, ScansOver
  <2>2. c # Quote /\ c \notin Digits \cup {"-"}
    BY <1>4 DEF Closers, Words, Quote, Digits
  <2> QED
    BY <1>2, <1>3, <2>1, <2>2
<1>5. CASE c = Quote
  <2>1. c \notin {Blank, "[", "{", ":"} \cup Closers \cup Words /\ c \notin Digits \cup {"-"}
    BY <1>5 DEF Closers, Words, Quote, Digits, Blank
  <2>2. <<"string", o + 1>> \in Scans(text, "between", o)
    BY <1>5, <2>1 DEF Scans
  <2> QED
    BY <1>2, <1>3, <2>1, <2>2
<1>6. CASE c \in Digits \cup {"-"}
  <2>1. c \notin {Blank, "[", "{", ":"} \cup Closers \cup Words /\ c # Quote
    BY <1>6 DEF Closers, Words, Quote, Digits, Blank
  <2>2. <<"number", o>> \in Scans(text, "between", o)
    BY <1>6, <2>1 DEF Scans
  <2> QED
    BY <1>2, <1>3, <2>1, <2>2
<1> QED
  BY <1>2, <1>4, <1>5, <1>6

(* Inside a string, and inside a number. *)
LEMMA ScanString ==
  ASSUME text \in Seq(Chars), NEW P, ClosedScan(text, P), NEW o, <<"string", o>> \in P
  PROVE  /\ CharAt(o) = Quote => <<"between", o + 1>> \in P
         /\ CharAt(o) \notin {Quote, Escape} => <<"string", o + 1>> \in P
         /\ CharAt(o) = Escape /\ CharAt(o + 1) # "u" => <<"string", o + 2>> \in P
         /\ CharAt(o) = Escape /\ CharAt(o + 1) = "u" =>
              <<"string", o + 6>> \in P /\ <<"between", o + 1>> \in P
<1>1. o \in Nat \ {0} /\ o + 1 \in Nat \ {0}
  BY ScanStep
<1>2. CharAt(o) = At(text, o) /\ CharAt(o + 1) = At(text, o + 1)
  BY <1>1, CharAtIsAt
<1>3. Scans(text, "string", o) \subseteq P
  BY ScanStep
<1>4. Quote # Escape /\ "string" # "between"
  BY DEF Quote, Escape
<1>5. /\ At(text, o) = Quote => <<"between", o + 1>> \in Scans(text, "string", o)
      /\ At(text, o) \notin {Quote, Escape} => <<"string", o + 1>> \in Scans(text, "string", o)
      /\ At(text, o) = Escape /\ At(text, o + 1) # "u" =>
           <<"string", o + 2>> \in Scans(text, "string", o)
      /\ At(text, o) = Escape /\ At(text, o + 1) = "u" =>
           /\ <<"string", o + 6>> \in Scans(text, "string", o)
           /\ <<"between", o + 1>> \in Scans(text, "string", o)
  BY <1>4 DEF Scans
<1> QED
  BY <1>2, <1>3, <1>5

LEMMA ScanNumber ==
  ASSUME text \in Seq(Chars), NEW P, ClosedScan(text, P),
         NEW m \in {"number", "exponent"}, NEW o, <<m, o>> \in P
  PROVE  /\ CharAt(o) \in Closers \cup {Blank} => <<"between", o>> \in P
         /\ CharAt(o) \in Digits => <<m, o + 1>> \in P
         /\ m = "number" /\ CharAt(o) \in {"-", "."} => <<m, o + 1>> \in P
         /\ m = "number" /\ CharAt(o) = "e" =>
              <<"exponent", IF CharAt(o + 1) = "-" THEN o + 3 ELSE o + 2>> \in P
         /\ /\ CharAt(o) \notin Closers \cup {Blank} \cup Digits
            /\ m = "number" => CharAt(o) \notin {"-", ".", "e"}
            => <<"between", o + 1>> \in P
<1>1. o \in Nat \ {0} /\ o + 1 \in Nat \ {0}
  BY ScanStep
<1>2. CharAt(o) = At(text, o) /\ CharAt(o + 1) = At(text, o + 1)
  BY <1>1, CharAtIsAt
<1>3. Scans(text, m, o) \subseteq P
  BY ScanStep
<1>4. /\ (Closers \cup {Blank}) \cap (Digits \cup {"-", ".", "e"}) = {}
      /\ Digits \cap {"-", ".", "e"} = {}
  BY DEF Closers, Blank, Digits
<1>5. CASE m = "number"
  <2>1. /\ At(text, o) \in Closers \cup {Blank} => <<"between", o>> \in Scans(text, m, o)
        /\ At(text, o) \in Digits \cup {"-", "."} => <<m, o + 1>> \in Scans(text, m, o)
        /\ At(text, o) = "e" =>
             <<"exponent", IF At(text, o + 1) = "-" THEN o + 3 ELSE o + 2>> \in Scans(text, m, o)
        /\ At(text, o) \notin Closers \cup {Blank} \cup Digits \cup {"-", ".", "e"} =>
             <<"between", o + 1>> \in Scans(text, m, o)
    BY <1>4, <1>5 DEF Scans
  <2> QED
    BY <1>2, <1>3, <1>5, <2>1
<1>6. CASE m = "exponent"
  <2>1. /\ At(text, o) \in Closers \cup {Blank} => <<"between", o>> \in Scans(text, m, o)
        /\ At(text, o) \in Digits => <<m, o + 1>> \in Scans(text, m, o)
        /\ At(text, o) \notin Closers \cup {Blank} \cup Digits =>
             <<"between", o + 1>> \in Scans(text, m, o)
    BY <1>4, <1>6 DEF Scans
  <2> QED
    BY <1>2, <1>3, <1>6, <2>1
<1> QED
  BY <1>5, <1>6

(* Each step of the parser is a step of scanning, or several of them. *)
LEMMA StepScanned ==
  ASSUME Typed, NEW P, Scanned(P), Next
  PROVE  Scanned(P)'
<1>0. text \in Seq(Chars) /\ ClosedScan(text, P) /\ offset \in Nat \ {0}
  BY DEF Typed, Scanned
<1>t. text' = text
  BY StepFits DEF Fits
<1> SUFFICES /\ mode' \in {"next", "back"} => <<"between", offset'>> \in P
             /\ mode' \in {"string", "number", "exponent"} => <<mode', offset'>> \in P
  BY <1>0, <1>t DEF Scanned
<1>s. mode = "next" =>
        /\ <<"between", Start>> \in P
        /\ First \in {"[", "{", ":"} \cup Closers \cup Words => <<"between", Start + 1>> \in P
        /\ First = Quote => <<"string", Start + 1>> \in P
        /\ First \in Digits \cup {"-"} => <<"number", Start>> \in P
  <2> SUFFICES ASSUME mode = "next"
               PROVE  /\ <<"between", Start>> \in P
                      /\ First \in {"[", "{", ":"} \cup Closers \cup Words =>
                           <<"between", Start + 1>> \in P
                      /\ First = Quote => <<"string", Start + 1>> \in P
                      /\ First \in Digits \cup {"-"} => <<"number", Start>> \in P
    OBVIOUS
  <2>1. <<"between", Start>> \in P
    BY <1>0, ScanSkips DEF Start, Scanned
  <2> QED
    BY <1>0, <2>1, ScanBetween DEF First
<1>r. mode = "back" =>
        /\ <<"between", Resume>> \in P
        /\ Follows \in {":"} \cup Closers => <<"between", Resume + 1>> \in P
  <2> SUFFICES ASSUME mode = "back"
               PROVE  /\ <<"between", Resume>> \in P
                      /\ Follows \in {":"} \cup Closers => <<"between", Resume + 1>> \in P
    OBVIOUS
  <2>1. <<"between", Resume>> \in P
    BY <1>0, ScanSkips DEF Resume, Scanned
  <2> QED
    BY <1>0, <2>1, ScanBetween DEF Follows
<1>o. ASSUME mode = "next", NEW f, NEW c \in Closers, NEW v, Open(f, c, v),
             First \in {"[", "{"}
      PROVE  mode' \in {"next", "back"} /\ <<"between", offset'>> \in P
  <2> DEFINE o == Skip(Start + 1)
  <2>1. <<"between", Start + 1>> \in P
    BY <1>o, <1>s
  <2>2. <<"between", o>> \in P
    BY <1>0, <2>1, ScanSkips
  <2>3. CharAt(o) = c => <<"between", o + 1>> \in P
    BY <1>0, <2>2, ScanBetween
  <2>4. CASE CharAt(o) = c
    <3>1. Back(v, o + 1)
      BY <1>o, <2>4 DEF Open
    <3> QED
      BY <2>3, <2>4, <3>1 DEF Back
  <2>5. CASE CharAt(o) # c
    <3>1. Call(o)
      BY <1>o, <2>5 DEF Open
    <3> QED
      BY <2>2, <3>1 DEF Call
  <2> QED
    BY <2>4, <2>5
<1>1. CASE OpenArray
  BY <1>1, <1>o DEF OpenArray, Closers
<1>2. CASE OpenObject
  BY <1>2, <1>o DEF OpenObject, Closers
<1>3. CASE StartString
  BY <1>3, <1>s DEF StartString, Begin
<1>str. mode = "string" => <<"string", offset>> \in P
  BY DEF Scanned
<1>4. CASE StringEnds
  <2>1. <<"between", offset + 1>> \in P
    BY <1>0, <1>4, <1>str, ScanString DEF StringEnds, Here
  <2> QED
    BY <1>4, <2>1 DEF StringEnds, Back
<1>5. CASE PlainChar
  <2>1. <<"string", offset + 1>> \in P
    BY <1>0, <1>5, <1>str, ScanString DEF PlainChar, Here
  <2> QED
    BY <1>5, <2>1 DEF PlainChar, Keep
<1>6. CASE EscapedChar
  <2>1. <<"string", offset + 2>> \in P
    BY <1>0, <1>6, <1>str, ScanString DEF EscapedChar, Here
  <2> QED
    BY <1>6, <2>1 DEF EscapedChar, Keep
<1>7. CASE Unicode
  <2>1. <<"string", offset + 6>> \in P /\ <<"between", offset + 1>> \in P
    BY <1>0, <1>7, <1>str, ScanString DEF Unicode, Here
  <2>2. \/ mode' = mode /\ offset' = offset + 6
        \/ mode' = "back" /\ offset' = offset + 1
    BY <1>7 DEF Unicode, Keep, Back
  <2>3. mode = "string"
    BY <1>7 DEF Unicode
  <2> QED
    BY <2>1, <2>2, <2>3
<1>8. CASE StartNumber
  BY <1>8, <1>s DEF StartNumber, Begin
<1>num. mode \in {"number", "exponent"} => <<mode, offset>> \in P
  BY DEF Scanned
<1>9. CASE NumberChar
  <2>1. <<"number", offset + 1>> \in P
    BY <1>0, <1>9, <1>num, ScanNumber DEF NumberChar, Here
  <2> QED
    BY <1>9, <2>1 DEF NumberChar, Keep
<1>10. CASE StartExponent
  <2>1. <<"exponent", IF CharAt(offset + 1) = "-" THEN offset + 3 ELSE offset + 2>> \in P
    BY <1>0, <1>10, <1>num, ScanNumber DEF StartExponent, Here
  <2>2. /\ mode' = "exponent"
        /\ offset' = IF CharAt(offset + 1) = "-" THEN offset + 3 ELSE offset + 2
    BY <1>10 DEF StartExponent
  <2> QED
    BY <2>1, <2>2
<1>11. CASE ExponentChar
  <2>1. <<"exponent", offset + 1>> \in P
    BY <1>0, <1>11, <1>num, ScanNumber DEF ExponentChar, Here
  <2> QED
    BY <1>11, <2>1 DEF ExponentChar
<1>12. CASE NumberEnds
  <2>1. <<"between", offset>> \in P
    BY <1>0, <1>12, <1>num, ScanNumber DEF NumberEnds, Here
  <2>2. mode' = "thrown" \/ (mode' = "back" /\ offset' = offset)
    BY <1>12 DEF NumberEnds, Back
  <2> QED
    BY <2>1, <2>2
<1>13. CASE NumberError
  <2>1. <<"between", offset + 1>> \in P
    <3>1. /\ mode \in {"number", "exponent"}
          /\ CharAt(offset) \notin Closers \cup {Blank} \cup Digits
          /\ mode = "number" => CharAt(offset) \notin {"-", ".", "e"}
      BY <1>13 DEF NumberError, Here
    <3> QED
      BY <1>0, <1>num, <3>1, ScanNumber
  <2> QED
    BY <1>13, <2>1 DEF NumberError, Back
<1>14. CASE ReadWord
  BY <1>14, <1>s DEF ReadWord, Back
<1>15. CASE UnknownStart
  BY <1>15, <1>s DEF UnknownStart, Back
<1>16. CASE ItemRead
  <2>1. mode = "back" /\ mode' \in {"next", "back"}
    BY <1>16 DEF ItemRead, Answered, Continue, Close, Broken, Call, Back
  <2>2. \/ offset' = Resume
        \/ offset' = Resume + 1 /\ Follows \in {",", "]"}
    BY <1>16 DEF ItemRead, Continue, Close, Broken, Call, Back
  <2> QED
    BY <1>r, <2>1, <2>2 DEF Closers
<1>17. CASE KeyRead
  <2>1. mode = "back" /\ mode' \in {"next", "back"}
    BY <1>17 DEF KeyRead, Answered, Continue, Close, Call, Back
  <2>2. \/ offset' = Resume
        \/ offset' = Skip(Resume + 1) /\ Follows = ":"
    BY <1>17 DEF KeyRead, Continue, Close, Call, Back
  <2>3. Follows = ":" => <<"between", Skip(Resume + 1)>> \in P
    BY <1>0, <1>r, <2>1, ScanSkips
  <2> QED
    BY <1>r, <2>1, <2>2, <2>3
<1>18. CASE PairRead
  <2>1. mode = "back" /\ mode' \in {"next", "back"}
    BY <1>18 DEF PairRead, Answered, Continue, Close, Call, Back
  <2>2. \/ offset' = Resume
        \/ offset' = Resume + 1 /\ Follows \in {",", "}"}
    BY <1>18 DEF PairRead, Continue, Close, Call, Back
  <2> QED
    BY <1>r, <2>1, <2>2 DEF Closers
<1>19. CASE Load
  BY <1>19 DEF Load
<1> QED
  BY <1>1, <1>2, <1>3, <1>4, <1>5, <1>6, <1>7, <1>8, <1>9, <1>10, <1>11,
     <1>12, <1>13, <1>14, <1>15, <1>16, <1>17, <1>18, <1>19 DEF Next

(* Where scanning may be, the next character is one of the text or its end. *)
LEMMA ScannedReadsText ==
  ASSUME Typed, NEW P, Scanned(P)
  PROVE  ReadsText
<1> SUFFICES ASSUME mode \notin {"done", "thrown"} PROVE Skip(offset) <= Len(text) + 1
  BY DEF ReadsText
<1>1. \E m : <<m, offset>> \in P
  BY DEF Scanned, Typed, Modes
<1>2. offset \in 1 .. Len(text) + 1
  BY <1>1, ScanStep DEF Scanned
<1>3. Skip(offset) \in offset .. Len(text) + 1
  BY <1>2, SkipFinds DEF Typed
<1>4. Len(text) \in Nat
  BY DEF Typed
<1> QED
  BY <1>2, <1>3, <1>4

(* The tokens of every text that may be sent end in it. *)
AllTokensEnd ==
  /\ \A d \in Docs : \A t \in Written[d] : TokensEnd(t)
  /\ \A t \in Typos : TokensEnd(t)

SomeScan == \E P : Scanned(P)

(***************************************************************************)
(* A text whose strings are closed, and whose numbers are followed by      *)
(* something, is never read beyond the character after its last one,       *)
(* however wrong its structure is and however many errors are in it        *)
(* (ReadsText): consume_ws and the parse_ functions test no length.        *)
(***************************************************************************)
THEOREM TextIsNotOverrun ==
  ASSUME AllTokensEnd
  PROVE  Spec => []ReadsText
<1>1. Init => SomeScan
  <2> SUFFICES ASSUME Init PROVE SomeScan
    OBVIOUS
  <2>1. TokensEnd(text)
    BY AllTokensEnd DEF Init, AllTokensEnd
  <2>2. PICK P : ClosedScan(text, P)
    BY <2>1 DEF TokensEnd
  <2>3. Scanned(P)
    BY <2>2 DEF Scanned, Init, ClosedScan
  <2> QED
    BY <2>3 DEF SomeScan
<1>2. Typed /\ SomeScan /\ [Next]_vars => SomeScan'
  <2> SUFFICES ASSUME Typed, SomeScan, [Next]_vars PROVE SomeScan'
    OBVIOUS
  <2> PICK P : Scanned(P)
    BY DEF SomeScan
  <2>1. CASE Next
    BY <2>1, StepScanned DEF SomeScan
  <2>2. CASE UNCHANGED vars
    BY <2>2 DEF SomeScan, Scanned, vars
  <2> QED
    BY <2>1, <2>2
<1>3. Typed /\ SomeScan => ReadsText
  BY ScannedReadsText DEF SomeScan
<1>4. Spec => []Typed
  BY InitTyped, StepTyped, PTL DEF Spec
<1> QED
  BY <1>1, <1>2, <1>3, <1>4, PTL DEF Spec

-----------------------------------------------------------------------------
(***************************************************************************)
(* A document is read back as it was written.  While it is read, each open *)
(* container is filled with what comes before the node being read in it,   *)
(* and the parser stands in the node that is innermost, or just after it.  *)
(***************************************************************************)
(* The node m of D is being read into the frame f of the node n.           *)
InArray(t, D, f, n, m) ==
  /\ IsArray(t, D, n)
  /\ \E k \in 1 .. Len(n.items) :
       /\ m = n.items[k]
       /\ f = Frame("array", [i \in 1 .. k - 1 |-> n.items[i].value], <<>>)

AsKey(t, D, f, n, m) ==
  /\ IsObject(t, D, n)
  /\ \E k \in 1 .. Len(n.items) :
       m = n.keys[k] /\ f = Frame("object", PairsTo(n, k - 1), <<>>)

AsItem(t, D, f, n, m) ==
  /\ IsObject(t, D, n)
  /\ \E k \in 1 .. Len(n.items) :
       m = n.items[k] /\ f = Frame("object", PairsTo(n, k - 1), <<KeyAt(n, k)>>)

Filling(t, D, f, n, m) ==
  InArray(t, D, f, n, m) \/ AsKey(t, D, f, n, m) \/ AsItem(t, D, f, n, m)

(* G: the nodes that are being read into one another, innermost first.     *)
Nested(t, v, D, G, s) ==
  /\ G \in Seq(D)
  /\ \E S : s \in Seq(S)
  /\ Len(G) = Len(s) + 1
  /\ \A i \in 1 .. Len(s) : Filling(t, D, s[i], G[i + 1], G[i])
  /\ Root(t, G[Len(G)], v)

LEMMA NestedPush ==
  ASSUME NEW t, NEW v, NEW D, NEW G, NEW s, Nested(t, v, D, G, s),
         NEW f, NEW m \in D, Filling(t, D, f, G[1], m)
  PROVE  /\ Nested(t, v, D, <<m>> \o G, <<f>> \o s)
         /\ (<<m>> \o G)[1] = m
<1> PICK S : s \in Seq(S)
  BY DEF Nested
<1> DEFINE H == <<m>> \o G
           r == <<f>> \o s
<1>1. G \in Seq(D) /\ Len(G) = Len(s) + 1 /\ Len(s) \in Nat
  BY DEF Nested
<1>2. /\ H \in Seq(D) /\ Len(H) = Len(G) + 1
      /\ H[1] = m /\ \A i \in 1 .. Len(G) : H[i + 1] = G[i]
  <2>1. <<m>> \in Seq(D) /\ Len(<<m>>) = 1 /\ <<m>>[1] = m
    OBVIOUS
  <2>2. /\ H \in Seq(D) /\ Len(H) = 1 + Len(G)
        /\ \A i \in 1 .. 1 + Len(G) : H[i] = IF i <= 1 THEN <<m>>[i] ELSE G[i - 1]
    BY <1>1, <2>1, ConcatProperties
  <2> QED
    BY <1>1, <2>1, <2>2
<1>3. /\ r \in Seq(S \cup {f}) /\ Len(r) = Len(s) + 1
      /\ r[1] = f /\ \A i \in 1 .. Len(s) : r[i + 1] = s[i]
  <2>1. <<f>> \in Seq(S \cup {f}) /\ Len(<<f>>) = 1 /\ <<f>>[1] = f
    OBVIOUS
  <2>2. s \in Seq(S \cup {f})
    BY SeqMonotonic
  <2>3. /\ r \in Seq(S \cup {f}) /\ Len(r) = 1 + Len(s)
        /\ \A i \in 1 .. 1 + Len(s) : r[i] = IF i <= 1 THEN <<f>>[i] ELSE s[i - 1]
    BY <2>1, <2>2, ConcatProperties
  <2> QED
    BY <1>1, <2>1, <2>3
<1> HIDE DEF H, r
<1>4. ASSUME NEW i \in 1 .. Len(r)
      PROVE  Filling(t, D, r[i], H[i + 1], H[i])
  <2>1. CASE i = 1
    <3>1. H[2] = G[1]
      BY <1>1, <1>2
    <3> QED
      BY <1>2, <1>3, <2>1, <3>1
  <2>2. CASE i # 1
    <3>1. i - 1 \in 1 .. Len(s) /\ i \in 1 .. Len(G)
      BY <1>1, <1>3, <2>2
    <3>0. (i - 1) + 1 = i /\ i - 1 \in 1 .. Len(G)
      BY <1>1, <3>1
    <3>2. r[(i - 1) + 1] = s[i - 1] /\ H[i + 1] = G[i] /\ H[(i - 1) + 1] = G[i - 1]
      BY <1>2, <1>3, <3>1, <3>0
    <3>3. Filling(t, D, s[i - 1], G[(i - 1) + 1], G[i - 1])
      BY <3>1 DEF Nested
    <3> QED
      BY <3>0, <3>2, <3>3
  <2> QED
    BY <2>1, <2>2
<1>5. H[Len(H)] = G[Len(G)]
  BY <1>1, <1>2
<1>6. Root(t, G[Len(G)], v)
  BY DEF Nested
<1>7. Nested(t, v, D, H, r)
  BY <1>1, <1>2, <1>3, <1>4, <1>5, <1>6 DEF Nested
<1> QED
  BY <1>2, <1>7 DEF H, r

LEMMA NestedPop ==
  ASSUME NEW t, NEW v, NEW D, NEW G, NEW s, Nested(t, v, D, G, s), s # <<>>
  PROVE  /\ Nested(t, v, D, Tail(G), Tail(s))
         /\ Tail(G)[1] = G[2] /\ G[2] \in D
         /\ Filling(t, D, Head(s), G[2], G[1])
<1> PICK S : s \in Seq(S)
  BY DEF Nested
<1>1. G \in Seq(D) /\ Len(G) = Len(s) + 1 /\ Len(s) \in Nat \ {0}
  BY EmptySeq DEF Nested
<1>2. /\ Tail(G) \in Seq(D) /\ Len(Tail(G)) = Len(G) - 1
      /\ \A i \in 1 .. Len(G) - 1 : Tail(G)[i] = G[i + 1]
  BY <1>1, HeadTailProperties, EmptySeq
<1>3. /\ Tail(s) \in Seq(S) /\ Len(Tail(s)) = Len(s) - 1
      /\ \A i \in 1 .. Len(s) - 1 : Tail(s)[i] = s[i + 1]
  BY HeadTailProperties
<1>4. ASSUME NEW i \in 1 .. Len(Tail(s))
      PROVE  Filling(t, D, Tail(s)[i], Tail(G)[i + 1], Tail(G)[i])
  <2>1. i + 1 \in 1 .. Len(s) /\ i \in 1 .. Len(G) - 1 /\ i + 1 \in 1 .. Len(G) - 1
    BY <1>1, <1>3
  <2>2. Filling(t, D, s[i + 1], G[(i + 1) + 1], G[i + 1])
    BY <2>1 DEF Nested
  <2> QED
    BY <1>2, <1>3, <2>1, <2>2
<1>5. Tail(G)[Len(Tail(G))] = G[Len(G)]
  BY <1>1, <1>2
<1>6. Root(t, G[Len(G)], v)
  BY DEF Nested
<1>7. Nested(t, v, D, Tail(G), Tail(s))
  BY <1>1, <1>2, <1>3, <1>4, <1>5, <1>6 DEF Nested
<1>8. Tail(G)[1] = G[2] /\ G[2] \in D
  BY <1>1, <1>2
<1>9. Filling(t, D, s[1], G[2], G[1])
  <2>1. 1 \in 1 .. Len(s) /\ 1 + 1 = 2
    BY <1>1
  <2>2. Filling(t, D, s[1], G[1 + 1], G[1])
    BY <2>1 DEF Nested
  <2> QED
    BY <2>1, <2>2
<1>10. Head(s) = s[1]
  OBVIOUS
<1> QED
  BY <1>7, <1>8, <1>9, <1>10

(* The innermost container goes on with another node of its own. *)
LEMMA NestedSwap ==
  ASSUME NEW t, NEW v, NEW D, NEW G, NEW s, Nested(t, v, D, G, s), s # <<>>,
         NEW f, NEW m \in D, Filling(t, D, f, G[2], m)
  PROVE  /\ Nested(t, v, D, <<m>> \o Tail(G), <<f>> \o Tail(s))
         /\ (<<m>> \o Tail(G))[1] = m
<1> DEFINE H == Tail(G)
           r == Tail(s)
<1>1. Nested(t, v, D, H, r) /\ H[1] = G[2]
  BY NestedPop
<1>2. Filling(t, D, f, H[1], m)
  BY <1>1
<1> HIDE DEF H, r
<1>3. Nested(t, v, D, <<m>> \o H, <<f>> \o r) /\ (<<m>> \o H)[1] = m
  BY <1>1, <1>2, NestedPush
<1> QED
  BY <1>3 DEF H, r

-----------------------------------------------------------------------------
(* The first character of a node tells what it is, as in parse_next. *)
LEMMA NodeStarts ==
  ASSUME NEW t \in Seq(Chars), NEW D, Derivation(t, D), NEW n \in D
  PROVE  /\ n.from \in 1 .. Len(t) /\ n.to \in n.from + 1 .. Len(t) + 1
         /\ \/ At(t, n.from) = Quote /\ IsString(t, n)
            \/ At(t, n.from) \in Digits \cup {"-"} /\ IsNumber(t, n)
            \/ At(t, n.from) \in Words /\ IsWord(t, n)
            \/ At(t, n.from) = "[" /\ IsArray(t, D, n)
            \/ At(t, n.from) = "{" /\ IsObject(t, D, n)
<1>1. /\ n.from \in 1 .. Len(t) /\ n.to \in n.from + 1 .. Len(t) + 1
      /\ \/ IsString(t, n) \/ IsNumber(t, n) \/ IsWord(t, n)
         \/ IsArray(t, D, n) \/ IsObject(t, D, n)
  BY DEF Derivation
<1>2. IsString(t, n) => At(t, n.from) = Quote
  BY DEF IsString
<1>3. ASSUME IsNumber(t, n) PROVE At(t, n.from) \in Digits \cup {"-"}
  <2> DEFINE b == n.value[2]
  <2>0. Numeral(b) /\ (\A i \in DOMAIN b : b[i] = "." => i \in 2 .. Len(b) - 1)
        /\ \A i \in 1 .. Len(b) : At(t, n.from + i - 1) = b[i]
    BY <1>3 DEF IsNumber
  <2> HIDE DEF b
  <2>a. b \in Seq(Digits \cup {"-", "."}) /\ b # <<>>
    BY <2>0, NumeralIsConverted DEF Numeral
  <2>2. Len(b) \in Nat \ {0}
    BY <2>a, EmptySeq
  <2>1. /\ b \in Seq(Digits \cup {"-", "."}) /\ b # <<>> /\ b[1] # "."
        /\ \A i \in 1 .. Len(b) : At(t, n.from + i - 1) = b[i]
    BY <2>0, <2>a, <2>2
  <2>3. 1 \in 1 .. Len(b) /\ n.from + 1 - 1 = n.from
    BY <1>1, <2>2
  <2>4. At(t, n.from) = b[1] /\ b[1] \in Digits \cup {"-", "."}
    BY <2>1, <2>2, <2>3
  <2> QED
    BY <2>1, <2>4
<1>4. IsWord(t, n) => At(t, n.from) \in Words
  BY DEF IsWord
<1>5. IsArray(t, D, n) => At(t, n.from) = "["
  BY DEF IsArray, Listed
<1>6. IsObject(t, D, n) => At(t, n.from) = "{"
  BY DEF IsObject, Listed
<1> QED
  BY <1>1, <1>2, <1>3, <1>4, <1>5, <1>6

StartsOf == {Quote, "[", "{", "-"} \cup Digits \cup Words

LEMMA StartsApart ==
  /\ Quote \notin Digits \cup {"-", "[", "{"} \cup Words
  /\ "[" \notin Digits \cup {"-", Quote, "{"} \cup Words
  /\ "{" \notin Digits \cup {"-", Quote, "["} \cup Words
  /\ (Digits \cup {"-"}) \cap Words = {}
  /\ StartsOf \cap ({Blank, ":"} \cup Closers) = {}
BY DEF Quote, Digits, Words, StartsOf, Blank, Closers

LEMMA NodeNotBlank ==
  ASSUME NEW t \in Seq(Chars), NEW D, Derivation(t, D), NEW n \in D
  PROVE  At(t, n.from) \notin {Blank, ":"} \cup Closers
<1>1. At(t, n.from) \in StartsOf
  BY NodeStarts DEF StartsOf
<1> QED
  BY <1>1, StartsApart

(* consume_ws finds what stands after the blanks. *)
LEMMA SkipTo ==
  ASSUME text \in Seq(Chars), NEW o \in 1 .. Len(text) + 1,
         NEW q \in 1 .. Len(text) + 1, Blanks(text, o, q), At(text, q) # Blank
  PROVE  Skip(o) = q /\ CharAt(q) = At(text, q)
<1>1. o <= q /\ \A i \in o .. q - 1 : At(text, i) = Blank
  BY DEF Blanks
<1>2. /\ Skip(o) \in o .. Len(text) + 1 /\ CharAt(Skip(o)) # Blank
      /\ \A i \in o .. Skip(o) - 1 : CharAt(i) = Blank
  BY SkipFinds
<1>3. Len(text) \in Nat
  OBVIOUS
<1>4. CharAt(Skip(o)) = At(text, Skip(o)) /\ CharAt(q) = At(text, q)
  BY <1>2, <1>3, CharAtIsAt
<1>5. ~ (Skip(o) < q)
  <2> SUFFICES ASSUME Skip(o) < q PROVE FALSE
    OBVIOUS
  <2>1. Skip(o) \in o .. q - 1
    BY <1>2, <1>3
  <2> QED
    BY <1>1, <1>2, <1>4, <2>1
<1>6. ~ (q < Skip(o))
  <2> SUFFICES ASSUME q < Skip(o) PROVE FALSE
    OBVIOUS
  <2>1. q \in o .. Skip(o) - 1
    BY <1>1, <1>2, <1>3
  <2> QED
    BY <1>2, <1>4, <2>1
<1> QED
  BY <1>2, <1>3, <1>4, <1>5, <1>6

(* It finds a separator, and what stands behind it. *)
LEMMA SkipApart ==
  ASSUME text \in Seq(Chars), NEW o \in 1 .. Len(text) + 1,
         NEW q \in 1 .. Len(text) + 1, NEW c, c # Blank, Apart(text, o, c, q),
         At(text, q) # Blank
  PROVE  /\ Skip(o) \in o .. Len(text)
         /\ CharAt(Skip(o)) = c
         /\ Skip(Skip(o) + 1) = q /\ Skip(o) + 1 \in 1 .. Len(text) + 1
<1>0. Len(text) \in Nat
  OBVIOUS
<1>1. PICK m \in o .. q - 1 :
        Blanks(text, o, m) /\ At(text, m) = c /\ Blanks(text, m + 1, q)
  BY DEF Apart
<1>2. m \in 1 .. Len(text) + 1 /\ m + 1 \in 1 .. Len(text) + 1 /\ m \in o .. Len(text)
  BY <1>0, <1>1
<1>3. Skip(o) = m /\ CharAt(m) = c
  BY <1>1, <1>2, SkipTo
<1>4. Skip(m + 1) = q
  BY <1>1, <1>2, SkipTo
<1> QED
  BY <1>2, <1>3, <1>4

-----------------------------------------------------------------------------
(* Where the parser is in the node n, by what it is doing. *)
Reads(n) ==
  /\ mode \notin {"done", "thrown"}
  /\ mode = "next" => offset \in 1 .. Len(text) + 1 /\ Skip(offset) = n.from
  /\ mode = "string" =>
       /\ IsString(text, n)
       /\ \E i \in 1 .. Len(n.value[2]) + 1 :
            offset = n.at[i] /\ buf = SubSeq(n.value[2], 1, i - 1)
  /\ mode = "number" =>
       /\ IsNumber(text, n) /\ exp = <<>>
       /\ \E k \in 0 .. Len(n.value[2]) :
            offset = n.from + k /\ buf = SubSeq(n.value[2], 1, k)
  /\ mode = "exponent" =>
       /\ IsNumber(text, n) /\ buf = n.value[2] /\ n.value[3] # <<>>
       /\ \E k \in 0 .. Len(n.value[3]) :
            /\ offset = n.from + Len(n.value[2]) + 2 + k
            /\ exp = SubSeq(n.value[3], 1, k)
  /\ mode = "back" => value = n.value /\ offset = n.to

(* What stands where a character of a string, or its end, is written. *)
LEMMA StringChar ==
  ASSUME NEW t, NEW n, IsString(t, n), NEW i \in 1 .. Len(n.value[2]) + 1
  PROVE  /\ i = Len(n.value[2]) + 1 => At(t, n.at[i]) = Quote /\ n.at[i] = n.to - 1
         /\ i # Len(n.value[2]) + 1 /\ n.value[2][i] \in Escaped =>
              /\ At(t, n.at[i]) = Escape /\ At(t, n.at[i] + 1) = n.value[2][i]
              /\ n.at[i + 1] = n.at[i] + 2
         /\ i # Len(n.value[2]) + 1 /\ n.value[2][i] \notin Escaped =>
              /\ At(t, n.at[i]) = n.value[2][i] /\ At(t, n.at[i]) \notin {Quote, Escape}
              /\ n.at[i + 1] = n.at[i] + 1
<1> DEFINE s == n.value[2]
<1>1. /\ s \in Seq(Chars) /\ At(t, n.to - 1) = Quote /\ n.at[Len(s) + 1] = n.to - 1
      /\ \A j \in 1 .. Len(s) :
           IF s[j] \in Escaped
             THEN /\ At(t, n.at[j]) = Escape /\ At(t, n.at[j] + 1) = s[j]
                  /\ n.at[j + 1] = n.at[j] + 2
             ELSE At(t, n.at[j]) = s[j] /\ n.at[j + 1] = n.at[j] + 1
  BY DEF IsString
<1> HIDE DEF s
<1>2. i \in 1 .. Len(s) + 1 /\ Len(s) \in Nat
  BY <1>1 DEF s
<1>3. CASE i = Len(s) + 1
  BY <1>1, <1>3 DEF s
<1>4. CASE i # Len(s) + 1
  <2>1. i \in 1 .. Len(s)
    BY <1>2, <1>4
  <2>2. s[i] \notin Escaped => s[i] \notin {Quote, Escape}
    BY DEF Escaped
  <2> QED
    BY <1>1, <1>4, <2>1, <2>2 DEF s
<1> QED
  BY <1>3, <1>4

LEMMA PrefixGrows ==
  ASSUME NEW S, NEW s \in Seq(S), NEW i \in 1 .. Len(s)
  PROVE  /\ SubSeq(s, 1, i) = SubSeq(s, 1, i - 1) \o <<s[i]>>
         /\ SubSeq(s, 1, i) = Append(SubSeq(s, 1, i - 1), s[i])
<1> DEFINE a == SubSeq(s, 1, i)
           b == SubSeq(s, 1, i - 1)
<1>0. Len(s) \in Nat /\ i \in Int /\ 1 \in Int /\ i - 1 \in Int
      /\ \A j \in 1 .. Len(s) : s[j] \in S
  OBVIOUS
<1>1. a \in Seq(S) /\ Len(a) = i /\ \A j \in 1 .. i : a[j] = s[j]
  <2>1. \A j \in 1 .. i : s[j] \in S
    BY <1>0
  <2>2. /\ a \in Seq(S) /\ Len(a) = (IF 1 <= i THEN i - 1 + 1 ELSE 0)
        /\ \A j \in 1 .. i - 1 + 1 : a[j] = s[1 + j - 1]
    BY <1>0, <2>1, SubSeqProperties
  <2> QED
    BY <1>0, <2>2
<1>2. b \in Seq(S) /\ Len(b) = i - 1 /\ \A j \in 1 .. i - 1 : b[j] = s[j]
  <2>1. \A j \in 1 .. i - 1 : s[j] \in S
    BY <1>0
  <2>2. /\ b \in Seq(S) /\ Len(b) = (IF 1 <= i - 1 THEN (i - 1) - 1 + 1 ELSE 0)
        /\ \A j \in 1 .. (i - 1) - 1 + 1 : b[j] = s[1 + j - 1]
    BY <1>0, <2>1, SubSeqProperties
  <2> QED
    BY <1>0, <2>2
<1> HIDE DEF a, b
<1>3. Append(b, s[i]) = b \o <<s[i]>>
  BY <1>0, <1>2, AppendIsConcat
<1>4. /\ Append(b, s[i]) \in Seq(S) /\ Len(Append(b, s[i])) = i
      /\ \A j \in 1 .. i : Append(b, s[i])[j] = s[j]
  BY <1>0, <1>2, AppendProperties
<1>5. a = Append(b, s[i])
  BY <1>1, <1>4, SeqEqual
<1> QED
  BY <1>3, <1>5 DEF a, b

LEMMA PrefixAll ==
  ASSUME NEW S, NEW s \in Seq(S)
  PROVE  SubSeq(s, 1, Len(s)) = s /\ SubSeq(s, 1, 0) = <<>>
BY SubSeqFull, SubSeqEmpty

(* parse_string, in a string that was written. *)
LEMMA StringStep ==
  ASSUME Typed, NEW n, n.to \in Nat, Reads(n), mode = "string", text' = text,
         StringEnds \/ PlainChar \/ EscapedChar \/ Unicode
  PROVE  Reads(n)'
<1> DEFINE s == n.value[2]
<1>1. IsString(text, n)
  BY DEF Reads
<1>2. PICK i \in 1 .. Len(s) + 1 : offset = n.at[i] /\ buf = SubSeq(s, 1, i - 1)
  BY DEF Reads
<1>3. s \in Seq(Chars) /\ n.value = Str(s)
  BY <1>1 DEF IsString
<1>4. Here = At(text, offset) /\ CharAt(offset + 1) = At(text, offset + 1)
      /\ offset \in Nat \ {0}
  <2>1. offset \in Nat \ {0} /\ offset + 1 \in Nat \ {0} /\ text \in Seq(Chars)
    BY DEF Typed
  <2> QED
    BY <2>1, CharAtIsAt DEF Here
<1>5. Quote # Escape /\ Escape \in Escaped /\ "u" \notin Escaped
  BY DEF Quote, Escape, Escaped
<1>c. /\ i = Len(s) + 1 => Here = Quote /\ offset = n.to - 1
      /\ i # Len(s) + 1 /\ s[i] \in Escaped =>
           Here = Escape /\ CharAt(offset + 1) = s[i] /\ n.at[i + 1] = offset + 2
      /\ i # Len(s) + 1 /\ s[i] \notin Escaped =>
           Here = s[i] /\ Here \notin {Quote, Escape} /\ n.at[i + 1] = offset + 1
  BY <1>1, <1>2, <1>4, StringChar
<1> HIDE DEF s
<1>l. Len(s) \in Nat
  BY <1>3
<1>6. CASE StringEnds
  <2>1. Here = Quote
    BY <1>6 DEF StringEnds
  <2>2. i = Len(s) + 1
    BY <1>5, <1>c, <2>1
  <2>3. buf = s
    <3>1. i - 1 = Len(s)
      BY <1>l, <2>2
    <3> QED
      BY <1>2, <1>3, <3>1, PrefixAll
  <2>4. mode' = "back" /\ value' = Str(buf) /\ offset' = offset + 1
    BY <1>6 DEF StringEnds, Back
  <2>5. offset + 1 = n.to
    BY <1>4, <1>c, <2>2
  <2> QED
    BY <1>3, <2>3, <2>4, <2>5 DEF Reads
<1>s. ASSUME i # Len(s) + 1, mode' = mode, offset' = n.at[i + 1], buf' = buf \o <<s[i]>>
      PROVE  Reads(n)'
  <2>1. i \in 1 .. Len(s) /\ i + 1 \in 1 .. Len(s) + 1 /\ (i + 1) - 1 = i
    BY <1>l, <1>s
  <2>2. buf' = SubSeq(s, 1, (i + 1) - 1)
    BY <1>2, <1>3, <1>s, <2>1, PrefixGrows
  <2>3. \E j \in 1 .. Len(s) + 1 : offset' = n.at[j] /\ buf' = SubSeq(s, 1, j - 1)
    BY <1>s, <2>1, <2>2
  <2> QED
    BY <1>1, <1>s, <2>3 DEF Reads, s
<1>7. CASE PlainChar
  <2>1. Here \notin {Quote, Escape} /\ buf' = buf \o <<Here>> /\ offset' = offset + 1
        /\ mode' = mode
    BY <1>7 DEF PlainChar, Keep
  <2>2. i # Len(s) + 1 /\ s[i] \notin Escaped
    BY <1>c, <2>1
  <2> QED
    BY <1>c, <1>s, <2>1, <2>2
<1>8. CASE EscapedChar
  <2> DEFINE c == CharAt(offset + 1)
  <2>1. Here = Escape /\ buf' = buf \o Unescaped(c) /\ offset' = offset + 2 /\ mode' = mode
    BY <1>8 DEF EscapedChar, Keep
  <2>2. i # Len(s) + 1 /\ s[i] \in Escaped /\ c = s[i]
    BY <1>5, <1>c, <2>1
  <2>3. Unescaped(c) = <<s[i]>>
    BY <2>2 DEF Unescaped
  <2> QED
    BY <1>c, <1>s, <2>1, <2>2, <2>3
<1>9. CASE Unicode
  <2>1. Here = Escape /\ CharAt(offset + 1) = "u"
    BY <1>9 DEF Unicode
  <2> QED
    BY <1>5, <1>c, <2>1
<1> QED
  BY <1>6, <1>7, <1>8, <1>9

(* parse_number, in a number that was written. *)
LEMMA NumberParts ==
  ASSUME NEW t, NEW n, IsNumber(t, n)
  PROVE  /\ n.value = Num(n.value[2], n.value[3])
         /\ n.value[2] \in Seq(Digits \cup {"-", "."}) /\ n.value[3] \in Seq(Digits)
         /\ Converts(n.value[2]) /\ Converted(n.value[2]) = n.value[2]
         /\ n.value[3] # <<>> => Converts(n.value[3])
<1>0. /\ n.value = Num(n.value[2], n.value[3])
      /\ Numeral(n.value[2]) /\ n.value[3] \in Seq(Digits)
  BY DEF IsNumber
<1>1. /\ n.value = Num(n.value[2], n.value[3])
      /\ n.value[2] \in Seq(Digits \cup {"-", "."}) /\ n.value[3] \in Seq(Digits)
      /\ Converts(n.value[2]) /\ Converted(n.value[2]) = n.value[2]
  BY <1>0, NumeralIsConverted DEF Numeral
<1>2. ASSUME n.value[3] # <<>> PROVE Converts(n.value[3])
  BY <1>0, <1>2, DigitsAreNumeral, NumeralIsConverted
<1> QED
  BY <1>1, <1>2

LEMMA NumberChars ==
  ASSUME Typed, NEW n, n.from \in Nat, Reads(n), mode = "number"
  PROVE  \E k \in 0 .. Len(n.value[2]) :
           /\ offset = n.from + k /\ buf = SubSeq(n.value[2], 1, k)
           /\ k # Len(n.value[2]) =>
                Here = n.value[2][k + 1] /\ Here \in Digits \cup {"-", "."}
           /\ k = Len(n.value[2]) /\ n.value[3] = <<>> =>
                Here \in Closers \cup {Blank} /\ offset = n.to
           /\ k = Len(n.value[2]) /\ n.value[3] # <<>> =>
                Here = "e" /\ CharAt(offset + 1) = "+"
<1> DEFINE b == n.value[2]
           e == n.value[3]
<1>1. IsNumber(text, n)
  BY DEF Reads
<1>2. PICK k \in 0 .. Len(b) : offset = n.from + k /\ buf = SubSeq(b, 1, k)
  BY DEF Reads
<1>3. Here = At(text, offset) /\ CharAt(offset + 1) = At(text, offset + 1)
      /\ offset \in Nat \ {0}
  <2>1. offset \in Nat \ {0} /\ offset + 1 \in Nat \ {0} /\ text \in Seq(Chars)
    BY DEF Typed
  <2> QED
    BY <2>1, CharAtIsAt DEF Here
<1>4. /\ b \in Seq(Digits \cup {"-", "."})
      /\ \A i \in 1 .. Len(b) : At(text, n.from + i - 1) = b[i]
      /\ e # <<>> => /\ At(text, n.from + Len(b)) = "e"
                     /\ At(text, n.from + Len(b) + 1) = "+"
      /\ n.to = IF e = <<>> THEN n.from + Len(b) ELSE n.from + Len(b) + 2 + Len(e)
      /\ At(text, n.to) \in Closers \cup {Blank}
  BY <1>1, NumberParts DEF IsNumber
<1> HIDE DEF b, e
<1>5. Len(b) \in Nat
  BY <1>4
<1>6. ASSUME k # Len(b) PROVE Here = b[k + 1] /\ Here \in Digits \cup {"-", "."}
  <2>1. k + 1 \in 1 .. Len(b) /\ n.from + (k + 1) - 1 = offset
    BY <1>2, <1>5, <1>6
  <2> QED
    BY <1>3, <1>4, <2>1
<1>7. ASSUME k = Len(b), e = <<>> PROVE Here \in Closers \cup {Blank} /\ offset = n.to
  BY <1>2, <1>3, <1>4, <1>7
<1>8. ASSUME k = Len(b), e # <<>> PROVE Here = "e" /\ CharAt(offset + 1) = "+"
  BY <1>2, <1>3, <1>4, <1>8
<1> QED
  BY <1>2, <1>6, <1>7, <1>8 DEF b, e

LEMMA ExponentChars ==
  ASSUME Typed, NEW n, n.from \in Nat, Reads(n), mode = "exponent"
  PROVE  \E k \in 0 .. Len(n.value[3]) :
           /\ offset = n.from + Len(n.value[2]) + 2 + k
           /\ exp = SubSeq(n.value[3], 1, k)
           /\ k # Len(n.value[3]) => Here = n.value[3][k + 1] /\ Here \in Digits
           /\ k = Len(n.value[3]) => Here \in Closers \cup {Blank} /\ offset = n.to
<1> DEFINE b == n.value[2]
           e == n.value[3]
<1>1. IsNumber(text, n) /\ e # <<>>
  BY DEF Reads
<1>2. PICK k \in 0 .. Len(e) :
        offset = n.from + Len(b) + 2 + k /\ exp = SubSeq(e, 1, k)
  BY DEF Reads
<1>3. Here = At(text, offset) /\ offset \in Nat \ {0}
  BY CharAtIsAt DEF Here, Typed
<1>4. /\ b \in Seq(Digits \cup {"-", "."}) /\ e \in Seq(Digits)
      /\ \A i \in 1 .. Len(e) : At(text, n.from + Len(b) + 1 + i) = e[i]
      /\ n.to = IF e = <<>> THEN n.from + Len(b) ELSE n.from + Len(b) + 2 + Len(e)
      /\ At(text, n.to) \in Closers \cup {Blank}
  BY <1>1, NumberParts DEF IsNumber
<1> HIDE DEF b, e
<1>5. Len(b) \in Nat /\ Len(e) \in Nat
  BY <1>4
<1>6. ASSUME k # Len(e) PROVE Here = e[k + 1] /\ Here \in Digits
  <2>1. k + 1 \in 1 .. Len(e) /\ n.from + Len(b) + 1 + (k + 1) = offset
    BY <1>2, <1>5, <1>6
  <2> QED
    BY <1>3, <1>4, <2>1
<1>7. ASSUME k = Len(e) PROVE Here \in Closers \cup {Blank} /\ offset = n.to
  BY <1>1, <1>2, <1>3, <1>4, <1>7
<1> QED
  BY <1>2, <1>6, <1>7 DEF b, e

LEMMA NumberStep ==
  ASSUME Typed, NEW n, n.from \in Nat, Reads(n), text' = text,
         NumberChar \/ StartExponent \/ ExponentChar \/ NumberEnds \/ NumberError
  PROVE  Reads(n)'
<1> DEFINE b == n.value[2]
           e == n.value[3]
<1>0. mode \in {"number", "exponent"}
  BY DEF NumberChar, StartExponent, ExponentChar, NumberEnds, NumberError
<1>1. IsNumber(text, n)
  BY <1>0 DEF Reads
<1>2. /\ n.value = Num(b, e) /\ b \in Seq(Digits \cup {"-", "."}) /\ e \in Seq(Digits)
      /\ Converts(b) /\ Converted(b) = b /\ (e # <<>> => Converts(e))
  BY <1>1, NumberParts
<1>3. /\ (Closers \cup {Blank}) \cap (Digits \cup {"-", ".", "e"}) = {}
      /\ "e" \notin Digits \cup {"-", "."}
  BY DEF Closers, Blank, Digits
<1>4. Len(b) \in Nat /\ Len(e) \in Nat
  BY <1>2
<1>n. CASE mode = "number"
  <2>1. PICK k \in 0 .. Len(b) :
          /\ offset = n.from + k /\ buf = SubSeq(b, 1, k)
          /\ k # Len(b) => Here = b[k + 1] /\ Here \in Digits \cup {"-", "."}
          /\ k = Len(b) /\ e = <<>> => Here \in Closers \cup {Blank} /\ offset = n.to
          /\ k = Len(b) /\ e # <<>> => Here = "e" /\ CharAt(offset + 1) = "+"
    BY <1>n, NumberChars
  <2>2. exp = <<>>
    BY <1>n DEF Reads
  <2> HIDE DEF b, e
  <2>3. CASE NumberChar
    <3>1. /\ mode' = mode /\ exp' = exp /\ buf' = buf \o <<Here>> /\ offset' = offset + 1
          /\ Here \in Digits \cup {"-", "."}
      BY <2>3 DEF NumberChar, Keep
    <3>2. k # Len(b)
      BY <1>3, <2>1, <3>1
    <3>3. k + 1 \in 1 .. Len(b) /\ (k + 1) - 1 = k /\ offset' = n.from + (k + 1)
      <4>1. k + 1 \in 1 .. Len(b) /\ (k + 1) - 1 = k
        BY <1>4, <3>2
      <4>2. offset' = (n.from + k) + 1
        BY <2>1, <3>1, Zenon
      <4>3. (n.from + k) + 1 = n.from + (k + 1)
        BY <1>4
      <4> QED
        BY <4>1, <4>2, <4>3
    <3>4. buf' = SubSeq(b, 1, k + 1)
      BY <1>2, <2>1, <3>1, <3>2, <3>3, PrefixGrows
    <3>5. \E j \in 0 .. Len(b) : offset' = n.from + j /\ buf' = SubSeq(b, 1, j)
      BY <3>3, <3>4
    <3> QED
      BY <1>n, <1>1, <2>2, <3>1, <3>5 DEF Reads, b
  <2>4. CASE StartExponent
    <3>1. Here = "e" /\ mode' = "exponent" /\ buf' = buf
      BY <2>4 DEF StartExponent
    <3>2. k = Len(b) /\ e # <<>> /\ CharAt(offset + 1) = "+"
      BY <1>3, <2>1, <3>1
    <3>3. exp' = <<>> /\ offset' = offset + 2
      BY <2>4, <3>2 DEF StartExponent
    <3>4. buf' = b
      BY <1>2, <2>1, <3>1, <3>2, PrefixAll
    <3>5. exp' = SubSeq(e, 1, 0) /\ 0 \in 0 .. Len(e)
      BY <1>2, <1>4, <3>3, PrefixAll
    <3>6. offset' = n.from + Len(b) + 2 + 0
      BY <1>4, <2>1, <3>2, <3>3
    <3> QED
      BY <1>1, <3>1, <3>2, <3>4, <3>5, <3>6 DEF Reads, b, e
  <2>5. CASE NumberEnds
    <3>1. Here \in Closers \cup {Blank}
      BY <2>5 DEF NumberEnds
    <3>2. k = Len(b) /\ e = <<>>
      BY <1>3, <2>1, <3>1
    <3>3. buf = b
      BY <1>2, <2>1, <3>2, PrefixAll
    <3>4. mode' = "back" /\ value' = Num(Converted(buf), exp) /\ offset' = offset
      BY <1>n, <1>2, <2>5, <3>3 DEF NumberEnds, Back
    <3> QED
      BY <1>2, <2>1, <2>2, <3>2, <3>3, <3>4 DEF Reads
  <2>6. CASE ExponentChar
    BY <1>n, <2>6 DEF ExponentChar
  <2>7. CASE NumberError
    <3>1. Here \notin Closers \cup {Blank} \cup Digits \cup {"-", ".", "e"}
      BY <1>n, <2>7 DEF NumberError
    <3> QED
      BY <2>1, <3>1
  <2> QED
    BY <2>3, <2>4, <2>5, <2>6, <2>7
<1>e. CASE mode = "exponent"
  <2>1. PICK k \in 0 .. Len(e) :
          /\ offset = n.from + Len(b) + 2 + k /\ exp = SubSeq(e, 1, k)
          /\ k # Len(e) => Here = e[k + 1] /\ Here \in Digits
          /\ k = Len(e) => Here \in Closers \cup {Blank} /\ offset = n.to
    BY <1>e, ExponentChars
  <2>2. buf = b /\ e # <<>>
    BY <1>e DEF Reads
  <2> HIDE DEF b, e
  <2>3. CASE ExponentChar
    <3>1. /\ mode' = mode /\ buf' = buf /\ exp' = Append(exp, Here) /\ offset' = offset + 1
          /\ Here \in Digits
      BY <2>3 DEF ExponentChar
    <3>2. k # Len(e)
      BY <1>3, <2>1, <3>1
    <3>3. /\ k + 1 \in 1 .. Len(e) /\ (k + 1) - 1 = k
          /\ offset' = n.from + Len(b) + 2 + (k + 1)
      <4>1. k + 1 \in 1 .. Len(e) /\ (k + 1) - 1 = k
        BY <1>4, <3>2
      <4>2. offset' = (n.from + Len(b) + 2 + k) + 1
        BY <2>1, <3>1, Zenon
      <4>3. (n.from + Len(b) + 2 + k) + 1 = n.from + Len(b) + 2 + (k + 1)
        BY <1>4
      <4> QED
        BY <4>1, <4>2, <4>3
    <3>4. exp' = SubSeq(e, 1, k + 1)
      BY <1>2, <2>1, <3>1, <3>2, <3>3, PrefixGrows
    <3>5. \E j \in 0 .. Len(e) :
            offset' = n.from + Len(b) + 2 + j /\ exp' = SubSeq(e, 1, j)
      BY <3>3, <3>4
    <3> QED
      BY <1>e, <1>1, <2>2, <3>1, <3>5 DEF Reads, b, e
  <2>4. CASE NumberEnds
    <3>1. Here \in Closers \cup {Blank}
      BY <2>4 DEF NumberEnds
    <3>2. k = Len(e)
      BY <1>3, <2>1, <3>1
    <3>3. exp = e
      BY <1>2, <2>1, <3>2, PrefixAll
    <3>4. mode' = "back" /\ value' = Num(Converted(buf), exp) /\ offset' = offset
      BY <1>2, <2>2, <2>4, <3>3 DEF NumberEnds, Back
    <3> QED
      BY <1>2, <2>1, <2>2, <3>2, <3>3, <3>4 DEF Reads
  <2>5. CASE NumberError
    BY <2>1, <2>5 DEF NumberError
  <2>6. CASE NumberChar \/ StartExponent
    BY <1>e, <2>6 DEF NumberChar, StartExponent
  <2> QED
    BY <2>3, <2>4, <2>5, <2>6
<1> QED
  BY <1>0, <1>n, <1>e

-----------------------------------------------------------------------------
(* What parse_next does with the first character of a string, a number or  *)
(* a word.                                                                 *)
LEMMA StartIs ==
  ASSUME Typed, NEW D, Derivation(text, D), NEW n \in D, Reads(n), mode = "next"
  PROVE  Start = n.from /\ First = At(text, n.from) /\ n.from \in Nat \ {0}
<1>1. Start = n.from
  BY DEF Reads, Start
<1>2. n.from \in 1 .. Len(text) /\ text \in Seq(Chars)
  BY NodeStarts DEF Typed
<1>3. n.from \in Nat \ {0}
  BY <1>2
<1> QED
  BY <1>1, <1>2, <1>3, CharAtIsAt DEF First

LEMMA StartStep ==
  ASSUME Typed, NEW D, Derivation(text, D), NEW n \in D, Reads(n), text' = text,
         StartString \/ StartNumber \/ ReadWord \/ UnknownStart
  PROVE  Reads(n)'
<1>0. mode = "next"
  BY DEF StartString, StartNumber, ReadWord, UnknownStart
<1>1. Start = n.from /\ First = At(text, n.from) /\ n.from \in Nat \ {0}
  BY <1>0, StartIs
<1>2. \/ First = Quote /\ IsString(text, n)
      \/ First \in Digits \cup {"-"} /\ IsNumber(text, n)
      \/ First \in Words /\ IsWord(text, n)
      \/ First = "[" /\ IsArray(text, D, n)
      \/ First = "{" /\ IsObject(text, D, n)
  BY <1>1, NodeStarts DEF Typed
<1>3. CASE StartString
  <2>1. IsString(text, n)
    <3>1. First = Quote
      BY <1>3 DEF StartString
    <3> QED
      BY <1>2, <3>1, StartsApart
  <2>2. mode' = "string" /\ offset' = Start + 1 /\ buf' = <<>>
    BY <1>3 DEF StartString, Begin
  <2> DEFINE s == n.value[2]
  <2>3. s \in Seq(Chars) /\ n.at[1] = n.from + 1
    BY <2>1 DEF IsString
  <2> HIDE DEF s
  <2>4. 1 \in 1 .. Len(s) + 1 /\ SubSeq(s, 1, 1 - 1) = <<>>
    BY <2>3, PrefixAll
  <2>5. offset' = n.at[1] /\ buf' = SubSeq(s, 1, 1 - 1)
    BY <1>1, <2>2, <2>3, <2>4
  <2>6. \E i \in 1 .. Len(s) + 1 : offset' = n.at[i] /\ buf' = SubSeq(s, 1, i - 1)
    BY <2>4, <2>5
  <2> QED
    BY <2>1, <2>2, <2>6 DEF Reads, s
<1>4. CASE StartNumber
  <2>1. IsNumber(text, n)
    <3>1. First \in Digits \cup {"-"}
      BY <1>4 DEF StartNumber
    <3> QED
      BY <1>2, <3>1, StartsApart
  <2>2. mode' = "number" /\ offset' = Start /\ buf' = <<>> /\ exp' = <<>>
    BY <1>4 DEF StartNumber, Begin
  <2> DEFINE b == n.value[2]
  <2>3. b \in Seq(Digits \cup {"-", "."})
    BY <2>1, NumberParts
  <2> HIDE DEF b
  <2>4. 0 \in 0 .. Len(b) /\ SubSeq(b, 1, 0) = <<>> /\ n.from + 0 = n.from
    BY <1>1, <2>3, PrefixAll
  <2>5. offset' = n.from + 0 /\ buf' = SubSeq(b, 1, 0)
    BY <1>1, <2>2, <2>4
  <2>6. \E k \in 0 .. Len(b) : offset' = n.from + k /\ buf' = SubSeq(b, 1, k)
    BY <2>4, <2>5
  <2> QED
    BY <2>1, <2>2, <2>6 DEF Reads, b
<1>5. CASE ReadWord
  <2>1. IsWord(text, n)
    <3>1. First \in Words
      BY <1>5 DEF ReadWord
    <3> QED
      BY <1>2, <3>1, StartsApart
  <2>2. mode' = "back" /\ value' = Word(First) /\ offset' = Start + 1
    BY <1>5 DEF ReadWord, Back
  <2> QED
    BY <1>1, <2>1, <2>2 DEF Reads, IsWord
<1>6. CASE UnknownStart
  BY <1>2, <1>6 DEF UnknownStart
<1> QED
  BY <1>3, <1>4, <1>5, <1>6

(* What comes after the opening of a container, and after a node in it.    *)
LEMMA OpenList ==
  ASSUME text \in Seq(Chars), NEW D, Derivation(text, D), NEW n \in D,
         NEW firsts \in Seq(D), NEW open, NEW close, open # Blank, close # Blank,
         Listed(text, n, firsts, open, close),
         n.items \in Seq(D), Len(firsts) = Len(n.items)
  PROVE  /\ n.items = <<>> =>
              /\ CharAt(Skip(n.from + 1)) = close
              /\ Skip(n.from + 1) + 1 = n.to
         /\ n.items # <<>> =>
              /\ Skip(n.from + 1) = firsts[1].from
              /\ CharAt(Skip(n.from + 1)) \notin {Blank, ":"} \cup Closers
              /\ Skip(n.from + 1) \in 1 .. Len(text) + 1
              /\ Skip(Skip(n.from + 1)) = firsts[1].from
              /\ firsts[1] \in D /\ 1 \in 1 .. Len(n.items)
<1>0. Len(text) \in Nat
  OBVIOUS
<1>1. n.from \in 1 .. Len(text) /\ n.to \in n.from + 1 .. Len(text) + 1
  BY NodeStarts
<1>2. CASE n.items = <<>>
  <2>1. Blanks(text, n.from + 1, n.to - 1) /\ At(text, n.to - 1) = close
    BY <1>2 DEF Listed
  <2>2. n.from + 1 <= n.to - 1
    BY <2>1 DEF Blanks
  <2>3. n.from + 1 \in 1 .. Len(text) + 1 /\ n.to - 1 \in 1 .. Len(text) + 1
        /\ (n.to - 1) + 1 = n.to
    <3>1. n.from + 1 \in 1 .. Len(text) + 1
      BY <1>0, <1>1
    <3>2. n.to \in Nat /\ n.to - 1 >= 1 /\ n.to - 1 <= Len(text) + 1
      BY <1>0, <1>1
    <3> QED
      BY <1>0, <3>1, <3>2
  <2>4. Skip(n.from + 1) = n.to - 1 /\ CharAt(n.to - 1) = close
    BY <2>1, <2>3, SkipTo
  <2> QED
    BY <1>2, <2>3, <2>4
<1>3. CASE n.items # <<>>
  <2>1. 1 \in 1 .. Len(n.items) /\ firsts[1] \in D
    <3>1. Len(n.items) \in Nat \ {0}
      BY <1>3, EmptySeq
    <3> QED
      BY <3>1
  <2> DEFINE q == firsts[1].from
  <2>2. Apart(text, n.from, open, q) /\ At(text, n.from) = open
    BY <1>3 DEF Listed
  <2>3. q \in 1 .. Len(text) /\ At(text, q) \notin {Blank, ":"} \cup Closers
    BY <2>1, NodeStarts, NodeNotBlank
  <2> HIDE DEF q
  <2>4. n.from \in 1 .. Len(text) + 1 /\ q \in 1 .. Len(text) + 1 /\ q \in Nat \ {0}
    BY <1>0, <1>1, <2>3
  <2>5. Blanks(text, n.from, n.from) /\ Blanks(text, q, q)
    BY <2>4 DEF Blanks
  <2>6. Skip(n.from) = n.from
    BY <2>2, <2>4, <2>5, SkipTo
  <2>7. Skip(n.from + 1) = q
    BY <2>2, <2>3, <2>4, <2>6, SkipApart
  <2>8. Skip(q) = q /\ CharAt(q) = At(text, q)
    BY <2>3, <2>4, <2>5, SkipTo
  <2> QED
    BY <1>3, <2>1, <2>3, <2>4, <2>7, <2>8 DEF q
<1> QED
  BY <1>2, <1>3

LEMMA EndsWithin ==
  ASSUME NEW l \in Nat, NEW a \in 1 .. l, NEW b \in a + 1 .. l + 1
  PROVE  b \in 1 .. l + 1 /\ b - 1 \in 1 .. l + 1 /\ (b - 1) + 1 = b
OBVIOUS

LEMMA NextInList ==
  ASSUME text \in Seq(Chars), NEW D, Derivation(text, D), NEW n \in D,
         NEW firsts \in Seq(D), NEW open, NEW close, close # Blank,
         Listed(text, n, firsts, open, close),
         n.items \in Seq(D), Len(firsts) = Len(n.items),
         NEW k \in 1 .. Len(n.items)
  PROVE  /\ k = Len(n.items) =>
              CharAt(Skip(n.items[k].to)) = close /\ Skip(n.items[k].to) + 1 = n.to
         /\ k # Len(n.items) =>
              /\ CharAt(Skip(n.items[k].to)) = ","
              /\ Skip(n.items[k].to) + 1 \in 1 .. Len(text) + 1
              /\ Skip(Skip(n.items[k].to) + 1) = firsts[k + 1].from
              /\ firsts[k + 1] \in D
<1> DEFINE o == n.items[k].to
<1>0. Len(text) \in Nat /\ Len(n.items) \in Nat /\ n.items[k] \in D
      /\ k \in 1 .. Len(firsts)
  OBVIOUS
<1>1. /\ n.from \in 1 .. Len(text) /\ n.to \in n.from + 1 .. Len(text) + 1
      /\ n.items[k].from \in 1 .. Len(text)
      /\ o \in n.items[k].from + 1 .. Len(text) + 1
  BY <1>0, NodeStarts
<1> HIDE DEF o
<1>2. o \in 1 .. Len(text) + 1 /\ n.to - 1 \in 1 .. Len(text) + 1 /\ (n.to - 1) + 1 = n.to
  BY <1>0, <1>1, EndsWithin
<1>3. CASE k = Len(n.items)
  <2>1. n.items # <<>>
    BY <1>0, <1>3, EmptySeq
  <2>2. Blanks(text, o, n.to - 1) /\ At(text, n.to - 1) = close
    BY <1>3, <2>1 DEF Listed, o
  <2>3. Skip(o) = n.to - 1 /\ CharAt(n.to - 1) = close
    BY <1>2, <2>2, SkipTo
  <2> QED
    BY <1>2, <1>3, <2>3 DEF o
<1>4. CASE k # Len(n.items)
  <2>1. k \in 1 .. Len(n.items) - 1 /\ k + 1 \in 1 .. Len(n.items)
        /\ k + 1 \in 1 .. Len(firsts)
    BY <1>0, <1>4
  <2>2. firsts[k + 1] \in D
    BY <2>1
  <2> DEFINE q == firsts[k + 1].from
  <2>3. Apart(text, o, ",", q)
    BY <2>1 DEF Listed, o
  <2>4. q \in 1 .. Len(text) /\ At(text, q) # Blank
    BY <2>2, NodeStarts, NodeNotBlank
  <2> HIDE DEF q
  <2>5. q \in 1 .. Len(text) + 1
    BY <1>0, <2>4
  <2>c. "," # Blank
    BY DEF Blank
  <2>6. /\ Skip(o) \in o .. Len(text) /\ CharAt(Skip(o)) = ","
        /\ Skip(Skip(o) + 1) = q /\ Skip(o) + 1 \in 1 .. Len(text) + 1
    BY <1>2, <2>3, <2>4, <2>5, <2>c, SkipApart
  <2> QED
    BY <1>4, <2>1, <2>2, <2>6 DEF q, o
<1> QED
  BY <1>3, <1>4

-----------------------------------------------------------------------------
(* ToString adds nothing to a key that needs no escapes. *)
LEMMA DumpPlain ==
  ASSUME NEW s \in Seq(Chars), \A i \in DOMAIN s : s[i] \notin Escaped
  PROVE  Dump(s) = s
<1>0. Len(s) \in Nat
  OBVIOUS
<1>1. PICK u : DumpTo(u, s, Len(s)) /\ Dump(s) = u[Len(s)]
  BY <1>0, DumpIs
<1>2. \A n \in 0 .. Len(s) :
        u[n] = IF n = 0 THEN <<>> ELSE u[n - 1] \o Dumped(s[n])
  BY <1>1 DEF DumpTo
<1> DEFINE T == {k \in Nat : k <= Len(s) => u[k] = SubSeq(s, 1, k)}
<1>3. 0 \in T
  <2>1. u[0] = <<>>
    BY <1>0, <1>2
  <2>2. SubSeq(s, 1, 0) = <<>>
    BY PrefixAll
  <2> QED
    BY <2>1, <2>2
<1>4. ASSUME NEW k \in Nat, k \in T PROVE k + 1 \in T
  <2> SUFFICES ASSUME k + 1 <= Len(s) PROVE u[k + 1] = SubSeq(s, 1, k + 1)
    OBVIOUS
  <2>1. u[k] = SubSeq(s, 1, k)
    BY <1>0, <1>4
  <2>2. k + 1 \in 0 .. Len(s) /\ k + 1 # 0 /\ (k + 1) - 1 = k /\ k + 1 \in 1 .. Len(s)
    BY <1>0
  <2>3. u[k + 1] = u[(k + 1) - 1] \o Dumped(s[k + 1])
    BY <1>2, <2>2, Zenon
  <2>4. Dumped(s[k + 1]) = <<s[k + 1]>>
    BY <2>2 DEF Dumped
  <2>5. SubSeq(s, 1, k + 1) = SubSeq(s, 1, (k + 1) - 1) \o <<s[k + 1]>>
    BY <2>2, PrefixGrows
  <2> QED
    BY <2>1, <2>2, <2>3, <2>4, <2>5
<1> HIDE DEF T
<1>5. Nat \subseteq T
  BY <1>3, <1>4, AllNaturals
<1>6. u[Len(s)] = SubSeq(s, 1, Len(s))
  BY <1>0, <1>5 DEF T
<1> QED
  BY <1>1, <1>6, PrefixAll

(* The values of the items before the k-th. *)
ItemsTo(n, k) == [i \in 1 .. k |-> n.items[i].value]

LEMMA NoItems ==
  ASSUME NEW n
  PROVE  ItemsTo(n, 0) = <<>> /\ PairsTo(n, 0) = {}
<1>1. 1 .. 0 = {}
  OBVIOUS
<1>2. ItemsTo(n, 0) \in Seq({}) /\ Len(ItemsTo(n, 0)) = 0
  BY DEF ItemsTo
<1>3. ItemsTo(n, 0) = <<>>
  BY <1>2, EmptySeq
<1> QED
  BY <1>1, <1>3 DEF PairsTo

LEMMA ItemsGrow ==
  ASSUME NEW n, NEW k \in Nat \ {0}
  PROVE  ItemsTo(n, k) = Append(ItemsTo(n, k - 1), n.items[k].value)
<1> DEFINE S == {n.items[i].value : i \in 1 .. k}
           a == ItemsTo(n, k)
           b == ItemsTo(n, k - 1)
           v == n.items[k].value
<1>1. a \in Seq(S) /\ Len(a) = k /\ \A i \in 1 .. k : a[i] = n.items[i].value
  BY DEF ItemsTo
<1>2. /\ b \in Seq(S) /\ Len(b) = k - 1
      /\ \A i \in 1 .. k - 1 : b[i] = n.items[i].value
  BY DEF ItemsTo
<1>3. v \in S
  OBVIOUS
<1> HIDE DEF S, a, b
<1>4. /\ Append(b, v) \in Seq(S) /\ Len(Append(b, v)) = k
      /\ \A i \in 1 .. k : Append(b, v)[i] = a[i]
  BY <1>1, <1>2, <1>3, AppendProperties
<1>5. a = Append(b, v)
  BY <1>1, <1>4, SeqEqual
<1> QED
  BY <1>5 DEF a, b

(* A key that was not there before adds a pair. *)
LEMMA PairsGrow ==
  ASSUME NEW n, NEW k \in Nat \ {0}, \A j \in 1 .. k - 1 : KeyAt(n, j) # KeyAt(n, k)
  PROVE  Put(PairsTo(n, k - 1), KeyAt(n, k), n.items[k].value) = PairsTo(n, k)
<1> DEFINE pair(i) == <<KeyAt(n, i), n.items[i].value>>
<1>1. 1 .. k = (1 .. k - 1) \cup {k}
  OBVIOUS
<1>2. PairsTo(n, k) = PairsTo(n, k - 1) \cup {pair(k)}
  BY <1>1 DEF PairsTo
<1>3. \A p \in PairsTo(n, k - 1) : p[1] # KeyAt(n, k)
  BY DEF PairsTo
<1>4. {p \in PairsTo(n, k - 1) : p[1] # KeyAt(n, k)} = PairsTo(n, k - 1)
  BY <1>3
<1> QED
  BY <1>2, <1>4 DEF Put

-----------------------------------------------------------------------------
(* The parser is in the node G[1] of a derivation of the document. *)
InDocument(D, G) ==
  Derivation(text, D) /\ Nested(text, doc, D, G, stack) /\ Reads(G[1])

LEMMA SkipSame == UNCHANGED text => Skip(offset)' = Skip(offset')
BY DEF Skip, Past, Stops, CharAt

(* It is sent to the first character of the node m, or comes to its end. *)
LEMMA CallReads ==
  ASSUME UNCHANGED text, NEW m, NEW o \in 1 .. Len(text) + 1, Call(o), Skip(o) = m.from
  PROVE  Reads(m)'
<1>1. mode' = "next" /\ offset' = o
  BY DEF Call
<1>2. Skip(offset)' = m.from
  BY <1>1, SkipSame
<1> QED
  BY <1>1, <1>2 DEF Reads

LEMMA BackReads ==
  ASSUME NEW m, NEW v, NEW o, Back(v, o), m.value = v, m.to = o
  PROVE  Reads(m)'
BY DEF Back, Reads

(* Within a node, into a node inside it, and out of it again. *)
LEMMA StaysIn ==
  ASSUME UNCHANGED <<doc, text, stack>>, NEW D, NEW G, InDocument(D, G), Reads(G[1])'
  PROVE  InDocument(D, G)'
BY DEF InDocument

LEMMA GoesIn ==
  ASSUME UNCHANGED input, NEW D, NEW G, InDocument(D, G),
         NEW f, NEW m \in D, Filling(text, D, f, G[1], m),
         NEW o \in 1 .. Len(text) + 1, Skip(o) = m.from,
         Call(o), stack' = <<f>> \o stack
  PROVE  \E H : InDocument(D, H)'
<1>1. Nested(text, doc, D, G, stack) /\ Derivation(text, D)
  BY DEF InDocument
<1> DEFINE H == <<m>> \o G
<1>2. Nested(text, doc, D, H, <<f>> \o stack) /\ H[1] = m
  BY <1>1, NestedPush
<1> HIDE DEF H
<1>3. UNCHANGED <<text, doc>>
  BY DEF input
<1>4. Reads(m)'
  BY <1>3, CallReads
<1>5. Reads(H[1])'
  BY <1>2, <1>4
<1>6. InDocument(D, H)'
  BY <1>1, <1>2, <1>3, <1>5 DEF InDocument
<1> QED
  BY <1>6

LEMMA GoesOn ==
  ASSUME UNCHANGED input, NEW D, NEW G, InDocument(D, G), stack # <<>>,
         NEW f, NEW m \in D, Filling(text, D, f, G[2], m),
         NEW o \in 1 .. Len(text) + 1, Skip(o) = m.from,
         Continue(f, o)
  PROVE  \E H : InDocument(D, H)'
<1>1. Nested(text, doc, D, G, stack) /\ Derivation(text, D)
  BY DEF InDocument
<1> DEFINE H == <<m>> \o Tail(G)
<1>2. Nested(text, doc, D, H, <<f>> \o Tail(stack)) /\ H[1] = m
  BY <1>1, NestedSwap
<1> HIDE DEF H
<1>3. UNCHANGED <<text, doc>> /\ Call(o) /\ stack' = <<f>> \o Tail(stack)
  BY DEF input, Continue
<1>4. Reads(m)'
  BY <1>3, CallReads
<1>5. Reads(H[1])'
  BY <1>2, <1>4
<1>6. InDocument(D, H)'
  BY <1>1, <1>2, <1>3, <1>5 DEF InDocument
<1> QED
  BY <1>6

LEMMA GoesOut ==
  ASSUME UNCHANGED input, NEW D, NEW G, InDocument(D, G), stack # <<>>,
         NEW v, v = G[2].value, NEW o, o = G[2].to, Close(v, o)
  PROVE  \E H : InDocument(D, H)'
<1>1. Nested(text, doc, D, G, stack) /\ Derivation(text, D)
  BY DEF InDocument
<1> DEFINE H == Tail(G)
<1>2. Nested(text, doc, D, H, Tail(stack)) /\ H[1] = G[2]
  BY <1>1, NestedPop
<1> HIDE DEF H
<1>3. UNCHANGED <<text, doc>> /\ Back(v, o) /\ stack' = Tail(stack)
  BY DEF input, Close
<1>4. Reads(G[2])'
  BY <1>3, BackReads
<1>5. Reads(H[1])'
  BY <1>2, <1>4
<1>6. InDocument(D, H)'
  BY <1>1, <1>2, <1>3, <1>5 DEF InDocument
<1> QED
  BY <1>6

-----------------------------------------------------------------------------
(* The node that is innermost, and the one around it. *)
LEMMA InnerNode ==
  ASSUME NEW D, NEW G, InDocument(D, G)
  PROVE  G[1] \in D /\ Derivation(text, D) /\ Reads(G[1])
<1>1. G \in Seq(D) /\ Len(G) = Len(stack) + 1 /\ Len(stack) \in Nat
  BY DEF InDocument, Nested
<1> QED
  BY <1>1 DEF InDocument

LEMMA OuterNode ==
  ASSUME NEW D, NEW G, InDocument(D, G), stack # <<>>
  PROVE  G[2] \in D /\ Filling(text, D, Top, G[2], G[1])
<1>1. Nested(text, doc, D, G, stack)
  BY DEF InDocument
<1> QED
  BY <1>1, NestedPop DEF Top

(* parse_array and parse_object, up to their first call. *)
LEMMA OpenStep ==
  ASSUME Typed, UNCHANGED input, NEW D, NEW G, InDocument(D, G), mode = "next",
         NEW firsts \in Seq(D), NEW open, NEW close, open # Blank, close # Blank,
         Listed(text, G[1], firsts, open, close),
         G[1].items \in Seq(D), Len(firsts) = Len(G[1].items),
         NEW f, NEW v, Open(f, close, v), close \in Closers,
         G[1].items = <<>> => G[1].value = v,
         G[1].items # <<>> => Filling(text, D, f, G[1], firsts[1])
  PROVE  \E H : InDocument(D, H)'
<1> DEFINE n == G[1]
<1>1. n \in D /\ Derivation(text, D) /\ Reads(n) /\ text \in Seq(Chars)
  BY InnerNode DEF Typed
<1>2. Start = n.from
  BY <1>1, StartIs
<1>3. /\ n.items = <<>> =>
           /\ CharAt(Skip(n.from + 1)) = close
           /\ Skip(n.from + 1) + 1 = n.to
      /\ n.items # <<>> =>
           /\ CharAt(Skip(n.from + 1)) \notin {Blank, ":"} \cup Closers
           /\ Skip(n.from + 1) \in 1 .. Len(text) + 1
           /\ Skip(Skip(n.from + 1)) = firsts[1].from
           /\ firsts[1] \in D
  <2> HIDE DEF n
  <2>1. Listed(text, n, firsts, open, close) /\ n.items \in Seq(D)
        /\ Len(firsts) = Len(n.items)
    BY DEF n
  <2> QED
    BY <1>1, <2>1, OpenList
<1>4. CASE n.items = <<>>
  <2>1. Back(v, Skip(Start + 1) + 1) /\ UNCHANGED stack
    BY <1>2, <1>3, <1>4 DEF Open
  <2>2. Reads(n)'
    BY <1>2, <1>3, <1>4, <2>1, BackReads
  <2> QED
    BY <2>1, <2>2, StaysIn DEF input
<1>5. CASE n.items # <<>>
  <2> DEFINE o == Skip(Start + 1)
             m == firsts[1]
  <2>1. Call(o) /\ stack' = <<f>> \o stack
    BY <1>2, <1>3, <1>5 DEF Open
  <2>2. o \in 1 .. Len(text) + 1 /\ Skip(o) = m.from /\ m \in D
    BY <1>2, <1>3, <1>5
  <2>3. Filling(text, D, f, G[1], m)
    BY <1>5
  <2> HIDE DEF o, m
  <2> QED
    BY <2>1, <2>2, <2>3, GoesIn
<1> QED
  BY <1>4, <1>5

LEMMA ArrayStep ==
  ASSUME Typed, NEW D, NEW G, InDocument(D, G), OpenArray
  PROVE  \E H : InDocument(D, H)'
<1> DEFINE n == G[1]
<1>0. mode = "next" /\ First = "[" /\ Open(NewArray, "]", Arr(<<>>)) /\ UNCHANGED input
  BY DEF OpenArray
<1>1. n \in D /\ Derivation(text, D) /\ Reads(n) /\ text \in Seq(Chars)
  BY InnerNode DEF Typed
<1>2. IsArray(text, D, n)
  <2>1. At(text, n.from) = "["
    BY <1>0, <1>1, StartIs
  <2> QED
    BY <1>1, <2>1, NodeStarts, StartsApart
<1> HIDE DEF n
<1>3. /\ n.items \in Seq(D) /\ n.value = Arr(ItemsTo(n, Len(n.items)))
      /\ Listed(text, n, n.items, "[", "]")
  BY <1>2 DEF IsArray, ItemsTo
<1>4. ASSUME n.items = <<>> PROVE n.value = Arr(<<>>)
  <2>1. Len(n.items) = 0
    BY <1>4
  <2> QED
    BY <1>3, <2>1, NoItems
<1>5. ASSUME n.items # <<>> PROVE Filling(text, D, NewArray, n, n.items[1])
  <2>0. Len(n.items) \in Nat \ {0}
    BY <1>3, <1>5, EmptySeq
  <2>1. 1 \in 1 .. Len(n.items) /\ 1 - 1 = 0
    BY <2>0
  <2>2. NewArray = Frame("array", ItemsTo(n, 1 - 1), <<>>)
    BY <2>1, NoItems DEF NewArray, Frame
  <2>3. InArray(text, D, NewArray, n, n.items[1])
    BY <1>2, <2>1, <2>2 DEF InArray, ItemsTo
  <2> QED
    BY <2>3 DEF Filling
<1>6. "[" # Blank /\ "]" # Blank /\ "]" \in Closers
  BY DEF Blank, Closers
<1> QED
  BY <1>0, <1>3, <1>4, <1>5, <1>6, OpenStep DEF n

LEMMA ObjectStep ==
  ASSUME Typed, NEW D, NEW G, InDocument(D, G), OpenObject
  PROVE  \E H : InDocument(D, H)'
<1> DEFINE n == G[1]
<1>0. mode = "next" /\ First = "{" /\ Open(NewObject, "}", Obj({})) /\ UNCHANGED input
  BY DEF OpenObject
<1>1. n \in D /\ Derivation(text, D) /\ Reads(n) /\ text \in Seq(Chars)
  BY InnerNode DEF Typed
<1>2. IsObject(text, D, n)
  <2>1. At(text, n.from) = "{"
    BY <1>0, <1>1, StartIs
  <2> QED
    BY <1>1, <2>1, NodeStarts, StartsApart
<1> HIDE DEF n
<1>3. /\ n.items \in Seq(D) /\ n.keys \in Seq(D) /\ Len(n.keys) = Len(n.items)
      /\ n.value = Obj(PairsTo(n, Len(n.items)))
      /\ Listed(text, n, n.keys, "{", "}")
  BY <1>2 DEF IsObject
<1>4. ASSUME n.items = <<>> PROVE n.value = Obj({})
  <2>1. Len(n.items) = 0
    BY <1>4
  <2> QED
    BY <1>3, <2>1, NoItems
<1>5. ASSUME n.items # <<>> PROVE Filling(text, D, NewObject, n, n.keys[1])
  <2>0. Len(n.items) \in Nat \ {0}
    BY <1>3, <1>5, EmptySeq
  <2>1. 1 \in 1 .. Len(n.items) /\ 1 - 1 = 0
    BY <2>0
  <2>2. NewObject = Frame("object", PairsTo(n, 1 - 1), <<>>)
    BY <2>1, NoItems DEF NewObject, Frame
  <2>3. AsKey(text, D, NewObject, n, n.keys[1])
    BY <1>2, <2>1, <2>2 DEF AsKey
  <2> QED
    BY <2>3 DEF Filling
<1>6. "{" # Blank /\ "}" # Blank /\ "}" \in Closers
  BY DEF Blank, Closers
<1> QED
  BY <1>0, <1>3, <1>4, <1>5, <1>6, OpenStep DEF n

-----------------------------------------------------------------------------
(* What parse_array and parse_object do with a node that was read. *)
LEMMA NodeRead ==
  ASSUME Typed, NEW D, NEW G, InDocument(D, G), mode = "back"
  PROVE  value = G[1].value /\ offset = G[1].to
BY InnerNode DEF Reads

LEMMA FrameTells ==
  ASSUME NEW t, NEW D, NEW f, NEW n, NEW m, Filling(t, D, f, n, m)
  PROVE  \/ InArray(t, D, f, n, m) /\ f.of = "array"
         \/ AsKey(t, D, f, n, m) /\ f.of = "object" /\ f.key = <<>>
         \/ AsItem(t, D, f, n, m) /\ f.of = "object" /\ f.key # <<>>
<1>1. ASSUME NEW o, NEW i, NEW k, f = Frame(o, i, k)
      PROVE  f.of = o /\ f.key = k
  BY <1>1 DEF Frame
<1>2. InArray(t, D, f, n, m) => f.of = "array"
  BY <1>1 DEF InArray
<1>3. AsKey(t, D, f, n, m) => f.of = "object" /\ f.key = <<>>
  BY <1>1 DEF AsKey
<1>4. AsItem(t, D, f, n, m) => f.of = "object" /\ f.key # <<>>
  <2>1. ASSUME NEW c PROVE <<c>> # <<>>
    <3>1. Len(<<c>>) = 1 /\ Len(<<>>) = 0
      OBVIOUS
    <3> QED
      BY <3>1
  <2>2. ASSUME AsItem(t, D, f, n, m) PROVE f.of = "object" /\ f.key # <<>>
    <3>1. PICK k \in 1 .. Len(n.items) :
            f = Frame("object", PairsTo(n, k - 1), <<KeyAt(n, k)>>)
      BY <2>2 DEF AsItem
    <3>2. f.of = "object" /\ f.key = <<KeyAt(n, k)>>
      BY <1>1, <3>1
    <3> QED
      BY <2>1, <3>2
  <2> QED
    BY <2>2
<1> QED
  BY <1>2, <1>3, <1>4 DEF Filling

LEMMA Positions ==
  ASSUME NEW S, NEW s \in Seq(S), NEW k \in 1 .. Len(s)
  PROVE  /\ k \in Nat \ {0} /\ Len(s) \in Nat
         /\ (k + 1) - 1 = k
         /\ k # Len(s) => k + 1 \in 1 .. Len(s)
OBVIOUS

LEMMA FrameGrows ==
  ASSUME NEW o, NEW i, NEW k, NEW v
  PROVE  /\ [Frame(o, i, k) EXCEPT !.items = v] = Frame(o, v, k)
         /\ [Frame(o, i, k) EXCEPT !.key = v] = Frame(o, i, v)
         /\ Frame(o, i, k).items = i /\ Frame(o, i, k).key = k
BY DEF Frame

LEMMA ItemStep ==
  ASSUME Typed, NEW D, NEW G, InDocument(D, G), ItemRead
  PROVE  \E H : InDocument(D, H)'
<1> DEFINE n == G[2]
           f == [Top EXCEPT !.items = Append(@, value)]
<1>0. /\ mode = "back" /\ stack # <<>> /\ Top.of = "array" /\ UNCHANGED input
      /\ Follows = "," => Continue(f, Resume + 1)
      /\ Follows = "]" => Close(Arr(f.items), Resume + 1)
  BY DEF ItemRead, Answered
<1>1. /\ n \in D /\ Derivation(text, D) /\ text \in Seq(Chars)
      /\ Filling(text, D, Top, n, G[1])
      /\ value = G[1].value /\ offset = G[1].to
  BY <1>0, InnerNode, OuterNode, NodeRead DEF Typed
<1>2. InArray(text, D, Top, n, G[1])
  BY <1>0, <1>1, FrameTells
<1> HIDE DEF n
<1>3. PICK k \in 1 .. Len(n.items) :
        G[1] = n.items[k] /\ Top = Frame("array", ItemsTo(n, k - 1), <<>>)
  BY <1>2 DEF InArray, ItemsTo
<1>4. /\ IsArray(text, D, n) /\ n.items \in Seq(D)
      /\ n.value = Arr(ItemsTo(n, Len(n.items)))
      /\ Listed(text, n, n.items, "[", "]")
  BY <1>2 DEF InArray, IsArray, ItemsTo
<1>p. PICK i, w : i = ItemsTo(n, k - 1) /\ w = Append(i, value)
  OBVIOUS
<1>q. f = [Top EXCEPT !.items = Append(Top.items, value)]
  OBVIOUS
<1> HIDE DEF f
<1>5. f = Frame("array", ItemsTo(n, k), <<>>) /\ f.items = ItemsTo(n, k)
  <2>2. k \in Nat \ {0}
    BY <1>4, Positions
  <2>3. ItemsTo(n, k) = Append(ItemsTo(n, k - 1), value)
    BY <1>1, <1>3, <2>2, ItemsGrow
  <2>4. Top = Frame("array", i, <<>>) /\ w = ItemsTo(n, k)
    BY <1>3, <1>p, <2>3
  <2>5. Top.items = i
    BY <2>4, FrameGrows
  <2>6. f = [Frame("array", i, <<>>) EXCEPT !.items = w]
    BY <1>p, <1>q, <2>4, <2>5, Zenon
  <2>7. f = Frame("array", w, <<>>)
    BY <2>6, FrameGrows
  <2> QED
    BY <2>4, <2>7, FrameGrows
<1>6. "]" # Blank /\ offset = n.items[k].to
  BY <1>1, <1>3 DEF Blank
<1>7. /\ k = Len(n.items) => CharAt(Skip(offset)) = "]" /\ Skip(offset) + 1 = n.to
      /\ k # Len(n.items) =>
           /\ CharAt(Skip(offset)) = ","
           /\ Skip(offset) + 1 \in 1 .. Len(text) + 1
           /\ Skip(Skip(offset) + 1) = n.items[k + 1].from
           /\ n.items[k + 1] \in D
  <2> DEFINE open == "["
             close == "]"
  <2>1. close # Blank /\ Listed(text, n, n.items, open, close)
        /\ Len(n.items) = Len(n.items)
    BY <1>4, <1>6
  <2>2. n \in D /\ n.items \in Seq(D) /\ text \in Seq(Chars) /\ Derivation(text, D)
    BY <1>1, <1>4
  <2> HIDE DEF open, close
  <2> DEFINE o == Skip(n.items[k].to)
  <2>3. /\ k = Len(n.items) => CharAt(o) = close /\ o + 1 = n.to
        /\ k # Len(n.items) =>
             /\ CharAt(o) = ","
             /\ o + 1 \in 1 .. Len(text) + 1
             /\ Skip(o + 1) = n.items[k + 1].from
             /\ n.items[k + 1] \in D
    BY <2>1, <2>2, NextInList
  <2>4. Skip(offset) = o
    BY <1>6
  <2> HIDE DEF o
  <2> QED
    BY <2>3, <2>4 DEF close
<1>8. CASE k = Len(n.items)
  <2>1. Close(Arr(f.items), Resume + 1)
    BY <1>0, <1>7, <1>8 DEF Follows, Resume
  <2>2. Arr(f.items) = n.value /\ Resume + 1 = n.to
    BY <1>4, <1>5, <1>7, <1>8 DEF Resume
  <2>3. Arr(f.items) = G[2].value /\ Resume + 1 = G[2].to
    BY <2>2 DEF n
  <2> DEFINE v == Arr(f.items)
             o == Resume + 1
  <2>4. Close(v, o) /\ v = G[2].value /\ o = G[2].to
    BY <2>1, <2>3
  <2> HIDE DEF v, o
  <2> QED
    BY <1>0, <2>4, GoesOut
<1>9. CASE k # Len(n.items)
  <2> DEFINE o == Resume + 1
             m == n.items[k + 1]
  <2>1. Continue(f, o)
    BY <1>0, <1>7, <1>9 DEF Follows, Resume
  <2>2. o \in 1 .. Len(text) + 1 /\ Skip(o) = m.from /\ m \in D
    BY <1>7, <1>9 DEF Resume
  <2>3. Filling(text, D, f, n, m)
    <3>1. (k + 1) - 1 = k /\ k + 1 \in 1 .. Len(n.items)
      BY <1>4, <1>9, Positions
    <3>2. f = Frame("array", ItemsTo(n, (k + 1) - 1), <<>>)
      BY <1>5, <3>1
    <3>3. InArray(text, D, f, n, m)
      BY <1>4, <3>1, <3>2 DEF InArray, ItemsTo
    <3> QED
      BY <3>3 DEF Filling
  <2> HIDE DEF o, m
  <2> QED
    BY <1>0, <2>1, <2>2, <2>3, GoesOn DEF n
<1> QED
  BY <1>8, <1>9

LEMMA KeyStep ==
  ASSUME Typed, NEW D, NEW G, InDocument(D, G), KeyRead
  PROVE  \E H : InDocument(D, H)'
<1> DEFINE n == G[2]
           f == [Top EXCEPT !.key = <<KeyOf(value)>>]
<1>0. /\ mode = "back" /\ stack # <<>> /\ Top.of = "object" /\ Top.key = <<>>
      /\ UNCHANGED input
      /\ Follows = ":" => Continue(f, Skip(Resume + 1))
  BY DEF KeyRead, Answered
<1>1. /\ n \in D /\ Derivation(text, D) /\ text \in Seq(Chars)
      /\ Filling(text, D, Top, n, G[1])
      /\ G[1] \in D /\ value = G[1].value /\ offset = G[1].to
  BY <1>0, InnerNode, OuterNode, NodeRead DEF Typed
<1>2. AsKey(text, D, Top, n, G[1])
  BY <1>0, <1>1, FrameTells
<1> HIDE DEF n
<1>3. PICK k \in 1 .. Len(n.items) :
        G[1] = n.keys[k] /\ Top = Frame("object", PairsTo(n, k - 1), <<>>)
  BY <1>2 DEF AsKey
<1>4. /\ IsObject(text, D, n) /\ n.items \in Seq(D) /\ n.items[k] \in D
      /\ IsString(text, n.keys[k])
      /\ \A c \in DOMAIN KeyAt(n, k) : KeyAt(n, k)[c] \notin Escaped
      /\ Apart(text, n.keys[k].to, ":", n.items[k].from)
  <2>1. IsObject(text, D, n)
    BY <1>2 DEF AsKey
  <2>2. /\ n.items \in Seq(D)
        /\ \A i \in 1 .. Len(n.items) :
             /\ IsString(text, n.keys[i])
             /\ \A c \in DOMAIN KeyAt(n, i) : KeyAt(n, i)[c] \notin Escaped
             /\ Apart(text, n.keys[i].to, ":", n.items[i].from)
    BY <2>1 DEF IsObject
  <2> QED
    BY <2>1, <2>2
<1>5. f = Frame("object", PairsTo(n, k - 1), <<KeyAt(n, k)>>)
  <2>1. value = Str(KeyAt(n, k)) /\ KeyAt(n, k) \in Seq(Chars)
    BY <1>1, <1>3, <1>4 DEF IsString, KeyAt
  <2>2. KeyOf(value) = KeyAt(n, k)
    BY <1>4, <2>1, DumpPlain DEF KeyOf, Str
  <2> QED
    BY <1>3, <2>2 DEF Frame
<1> HIDE DEF f
<1> DEFINE q == n.items[k].from
<1>6. q \in 1 .. Len(text) /\ At(text, q) # Blank
  BY <1>1, <1>4, NodeStarts, NodeNotBlank
<1>7. offset \in 1 .. Len(text) + 1 /\ q \in 1 .. Len(text) + 1
  <2>1. G[1].to \in G[1].from + 1 .. Len(text) + 1 /\ G[1].from \in 1 .. Len(text)
    BY <1>1, NodeStarts
  <2>2. Len(text) \in Nat
    BY <1>1
  <2>3. offset \in 1 .. Len(text) + 1
    BY <1>1, <2>1, <2>2
  <2> QED
    BY <1>6, <2>2, <2>3
<1>8. Apart(text, offset, ":", q)
  BY <1>1, <1>3, <1>4
<1> HIDE DEF q
<1>9. /\ CharAt(Skip(offset)) = ":" /\ Skip(Skip(offset) + 1) = q
  <2>1. ":" # Blank
    BY DEF Blank
  <2> QED
    BY <1>1, <1>6, <1>7, <1>8, <2>1, SkipApart
<1>10. Skip(q) = q
  <2>1. Blanks(text, q, q)
    BY <1>7 DEF Blanks
  <2> QED
    BY <1>1, <1>6, <1>7, <2>1, SkipTo
<1>11. Continue(f, q)
  BY <1>0, <1>9 DEF Follows, Resume
<1>12. Filling(text, D, f, n, n.items[k])
  <2>1. AsItem(text, D, f, n, n.items[k])
    BY <1>4, <1>5 DEF AsItem
  <2> QED
    BY <2>1 DEF Filling
<1>13. Filling(text, D, f, G[2], n.items[k]) /\ Skip(q) = n.items[k].from
  BY <1>10, <1>12 DEF n, q
<1> QED
  BY <1>0, <1>4, <1>7, <1>11, <1>13, GoesOn

LEMMA PairStep ==
  ASSUME Typed, NEW D, NEW G, InDocument(D, G), PairRead
  PROVE  \E H : InDocument(D, H)'
<1> DEFINE n == G[2]
           S == Put(Top.items, Top.key[1], value)
           f == [NewObject EXCEPT !.items = S]
<1>0. /\ mode = "back" /\ stack # <<>> /\ Top.of = "object" /\ Top.key # <<>>
      /\ UNCHANGED input
      /\ Follows = "," => Continue(f, Resume + 1)
      /\ Follows = "}" => Close(Obj(S), Resume + 1)
  BY DEF PairRead, Answered
<1>1. /\ n \in D /\ Derivation(text, D) /\ text \in Seq(Chars)
      /\ Filling(text, D, Top, n, G[1])
      /\ value = G[1].value /\ offset = G[1].to
  BY <1>0, InnerNode, OuterNode, NodeRead DEF Typed
<1>2. AsItem(text, D, Top, n, G[1])
  BY <1>0, <1>1, FrameTells
<1> HIDE DEF n
<1>3. PICK k \in 1 .. Len(n.items) :
        /\ G[1] = n.items[k]
        /\ Top = Frame("object", PairsTo(n, k - 1), <<KeyAt(n, k)>>)
  BY <1>2 DEF AsItem
<1>4. /\ n.items \in Seq(D) /\ n.keys \in Seq(D) /\ Len(n.keys) = Len(n.items)
      /\ n.value = Obj(PairsTo(n, Len(n.items)))
      /\ Listed(text, n, n.keys, "{", "}")
  <2>1. IsObject(text, D, n)
    BY <1>2 DEF AsItem
  <2> QED
    BY <2>1 DEF IsObject
<1>o. IsObject(text, D, n) /\ \A j \in 1 .. k - 1 : KeyAt(n, j) # KeyAt(n, k)
  BY <1>2 DEF AsItem, IsObject
<1>5. S = PairsTo(n, k)
  <2>2. k \in Nat \ {0}
    BY <1>4, Positions
  <2>3. Put(PairsTo(n, k - 1), KeyAt(n, k), n.items[k].value) = PairsTo(n, k)
    BY <1>o, <2>2, PairsGrow
  <2>4. Top.items = PairsTo(n, k - 1) /\ Top.key[1] = KeyAt(n, k)
    BY <1>3 DEF Frame
  <2> QED
    BY <1>1, <1>3, <2>3, <2>4
<1> HIDE DEF S
<1>6. f = Frame("object", PairsTo(n, k), <<>>)
  BY <1>5 DEF NewObject, Frame
<1> HIDE DEF f
<1>7. "}" # Blank /\ offset = n.items[k].to
  BY <1>1, <1>3 DEF Blank
<1>8. /\ k = Len(n.items) => CharAt(Skip(offset)) = "}" /\ Skip(offset) + 1 = n.to
      /\ k # Len(n.items) =>
           /\ CharAt(Skip(offset)) = ","
           /\ Skip(offset) + 1 \in 1 .. Len(text) + 1
           /\ Skip(Skip(offset) + 1) = n.keys[k + 1].from
           /\ n.keys[k + 1] \in D
  <2> DEFINE open == "{"
             close == "}"
  <2>1. close # Blank /\ Listed(text, n, n.keys, open, close)
        /\ n.keys \in Seq(D) /\ Len(n.keys) = Len(n.items)
    BY <1>4, <1>7
  <2>2. n \in D /\ n.items \in Seq(D) /\ text \in Seq(Chars) /\ Derivation(text, D)
    BY <1>1, <1>4
  <2> HIDE DEF open, close
  <2> DEFINE o == Skip(n.items[k].to)
  <2>3. /\ k = Len(n.items) => CharAt(o) = close /\ o + 1 = n.to
        /\ k # Len(n.items) =>
             /\ CharAt(o) = ","
             /\ o + 1 \in 1 .. Len(text) + 1
             /\ Skip(o + 1) = n.keys[k + 1].from
             /\ n.keys[k + 1] \in D
    BY <2>1, <2>2, NextInList
  <2>4. Skip(offset) = o
    BY <1>7
  <2> HIDE DEF o
  <2> QED
    BY <2>3, <2>4 DEF close
<1>9. CASE k = Len(n.items)
  <2> DEFINE v == Obj(S)
             o == Resume + 1
  <2>1. Close(v, o)
    BY <1>0, <1>8, <1>9 DEF Follows, Resume
  <2>2. v = n.value /\ o = n.to
    BY <1>4, <1>5, <1>8, <1>9 DEF Resume
  <2> HIDE DEF v, o
  <2> QED
    BY <1>0, <2>1, <2>2, GoesOut DEF n
<1>10. CASE k # Len(n.items)
  <2> DEFINE o == Resume + 1
             m == n.keys[k + 1]
  <2>1. Continue(f, o)
    BY <1>0, <1>8, <1>10 DEF Follows, Resume
  <2>2. o \in 1 .. Len(text) + 1 /\ Skip(o) = m.from /\ m \in D
    BY <1>8, <1>10 DEF Resume
  <2>3. Filling(text, D, f, n, m)
    <3>1. (k + 1) - 1 = k /\ k + 1 \in 1 .. Len(n.items)
      BY <1>4, <1>10, Positions
    <3>2. f = Frame("object", PairsTo(n, (k + 1) - 1), <<>>)
      BY <1>6, <3>1
    <3>3. AsKey(text, D, f, n, m)
      BY <1>o, <3>1, <3>2 DEF AsKey
    <3> QED
      BY <3>3 DEF Filling
  <2> HIDE DEF o, m
  <2> QED
    BY <1>0, <2>1, <2>2, <2>3, GoesOn DEF n
<1> QED
  BY <1>9, <1>10

-----------------------------------------------------------------------------
(* Every text that a value may be written as writes it by the grammar. *)
AllWritten == \A d \in Docs : \A t \in Written[d] : Writes(t, d)

(* The inductive invariant. *)
DocumentIsRead ==
  doc # NoDoc =>
    /\ mode = "done" => value = doc /\ offset = Len(text) + 1
    /\ mode # "done" => \E D, G : InDocument(D, G)

LEMMA InitInDocument ==
  ASSUME AllWritten, Init
  PROVE  DocumentIsRead
<1> SUFFICES ASSUME doc # NoDoc PROVE \E D, G : InDocument(D, G)
  BY DEF DocumentIsRead, Init
<1>1. doc \in Docs /\ text \in Written[doc] /\ text \in Seq(Chars)
  BY InitTyped DEF Init, Typed
<1>2. PICK D, n : n \in D /\ Derivation(text, D) /\ Root(text, n, doc)
  BY <1>1 DEF AllWritten, Writes
<1> DEFINE G == <<n>>
<1>3. Nested(text, doc, D, G, stack)
  <2>1. G \in Seq(D) /\ Len(G) = 1 /\ G[1] = n
    BY <1>2
  <2>2. stack = <<>> /\ stack \in Seq({}) /\ Len(stack) = 0
    BY EmptySeq DEF Init
  <2> HIDE DEF G
  <2>3. Root(text, G[Len(G)], doc)
    BY <1>2, <2>1
  <2>4. \A i \in 1 .. Len(stack) : Filling(text, D, stack[i], G[i + 1], G[i])
    BY <2>2
  <2> QED
    BY <2>1, <2>2, <2>3, <2>4 DEF Nested
<1>4. Reads(n)
  <2>1. n.from \in 1 .. Len(text) /\ At(text, n.from) # Blank
    BY <1>1, <1>2, NodeStarts, NodeNotBlank
  <2> DEFINE q == n.from
  <2>2. Len(text) \in Nat
    BY <1>1
  <2> HIDE DEF q
  <2>3. q \in 1 .. Len(text) + 1 /\ 1 \in 1 .. Len(text) + 1
    BY <2>1, <2>2 DEF q
  <2>4. Blanks(text, 1, q)
    BY <1>2 DEF Root, q
  <2>5. Skip(1) = q
    BY <1>1, <2>1, <2>3, <2>4, SkipTo DEF q
  <2>6. offset = 1 /\ mode = "next"
    BY DEF Init
  <2> QED
    BY <2>3, <2>5, <2>6 DEF Reads, q
<1>5. InDocument(D, G)
  BY <1>2, <1>3, <1>4 DEF InDocument
<1> QED
  BY <1>5

(* Each step within the document; at its end Load has the value of it.     *)
LEMMA LoadStep ==
  ASSUME Typed, NEW D, NEW G, InDocument(D, G), Load
  PROVE  value' = doc' /\ offset' = Len(text') + 1
<1>1. mode = "back" /\ stack = <<>> /\ UNCHANGED <<doc, text, offset, value>>
  BY DEF Load
<1>2. value = G[1].value /\ offset = G[1].to
  BY <1>1, NodeRead
<1>3. Len(G) = 1 /\ Root(text, G[Len(G)], doc)
  <2>1. Len(stack) = 0
    BY <1>1
  <2> QED
    BY <2>1 DEF InDocument, Nested
<1> QED
  BY <1>1, <1>2, <1>3 DEF Root

LEMMA StepInDocument ==
  ASSUME Typed, NEW D, NEW G, InDocument(D, G), Next, ~ Load
  PROVE  \E H : InDocument(D, H)'
<1> DEFINE n == G[1]
<1>1. n \in D /\ Derivation(text, D) /\ Reads(n)
  BY InnerNode
<1>2. n.from \in Nat /\ n.to \in Nat
  <2>1. text \in Seq(Chars) /\ Len(text) \in Nat
    BY DEF Typed
  <2> HIDE DEF n
  <2>2. n.from \in 1 .. Len(text) /\ n.to \in n.from + 1 .. Len(text) + 1
    BY <1>1, <2>1, NodeStarts
  <2>3. n.to \in 1 .. Len(text) + 1
    BY <2>1, <2>2, EndsWithin
  <2> QED
    BY <2>1, <2>2, <2>3
<1>3. ASSUME StringEnds \/ PlainChar \/ EscapedChar \/ Unicode
      PROVE  Reads(n)' /\ UNCHANGED <<doc, text, stack>>
  <2>1. mode = "string" /\ UNCHANGED <<doc, text, stack>>
    BY <1>3 DEF StringEnds, PlainChar, EscapedChar, Unicode, Keep
  <2> HIDE DEF n
  <2> QED
    BY <1>1, <1>2, <1>3, <2>1, StringStep
<1>4. ASSUME NumberChar \/ StartExponent \/ ExponentChar \/ NumberEnds \/ NumberError
      PROVE  Reads(n)' /\ UNCHANGED <<doc, text, stack>>
  <2>1. UNCHANGED <<doc, text, stack>>
    BY <1>4 DEF NumberChar, StartExponent, ExponentChar, NumberEnds, NumberError, Keep
  <2> HIDE DEF n
  <2> QED
    BY <1>1, <1>2, <1>4, <2>1, NumberStep
<1>5. ASSUME StartString \/ StartNumber \/ ReadWord \/ UnknownStart
      PROVE  Reads(n)' /\ UNCHANGED <<doc, text, stack>>
  <2>1. UNCHANGED <<doc, text, stack>>
    BY <1>5 DEF StartString, StartNumber, ReadWord, UnknownStart, Begin
  <2> HIDE DEF n
  <2> QED
    BY <1>1, <1>2, <1>5, <2>1, StartStep
<1>6. \/ StringEnds \/ PlainChar \/ EscapedChar \/ Unicode
      \/ NumberChar \/ StartExponent \/ ExponentChar \/ NumberEnds \/ NumberError
      \/ StartString \/ StartNumber \/ ReadWord \/ UnknownStart
      \/ OpenArray \/ OpenObject \/ ItemRead \/ KeyRead \/ PairRead
  BY DEF Next
<1>7. ASSUME Reads(n)', UNCHANGED <<doc, text, stack>>
      PROVE  \E H : InDocument(D, H)'
  BY <1>7, StaysIn
<1> QED
  BY <1>3, <1>4, <1>5, <1>6, <1>7, ArrayStep, ObjectStep, ItemStep, KeyStep, PairStep

LEMMA StepReadsDocument ==
  Typed /\ DocumentIsRead /\ [Next]_vars => DocumentIsRead'
<1> SUFFICES ASSUME Typed, DocumentIsRead, [Next]_vars, doc' # NoDoc
             PROVE  /\ mode' = "done" => value' = doc' /\ offset' = Len(text') + 1
                    /\ mode' # "done" => \E D, G : InDocument(D, G)'
  BY DEF DocumentIsRead
<1>1. CASE Next
  <2>1. doc # NoDoc /\ mode # "done"
    <3>1. doc' = doc
      BY <1>1, StepFits DEF Fits
    <3>2. mode # "done"
      BY <1>1 DEF Next, OpenArray, OpenObject, StringEnds, PlainChar, EscapedChar, Unicode,
                  NumberChar, StartExponent, ExponentChar, NumberEnds, NumberError,
                  StartString, StartNumber, ReadWord, UnknownStart,
                  ItemRead, KeyRead, PairRead, Load, Answered
    <3> QED
      BY <3>1, <3>2
  <2>2. PICK D, G : InDocument(D, G)
    BY <2>1 DEF DocumentIsRead
  <2>3. CASE Load
    <3>1. mode' = "done"
      BY <2>3 DEF Load
    <3> QED
      BY <2>2, <2>3, <3>1, LoadStep
  <2>4. CASE ~ Load
    <3>1. PICK H : InDocument(D, H)'
      BY <1>1, <2>2, <2>4, StepInDocument
    <3>2. mode' # "done"
      BY <3>1 DEF InDocument, Reads
    <3> QED
      BY <3>1, <3>2
  <2> QED
    BY <2>3, <2>4
<1>2. CASE UNCHANGED vars
  <2>1. UNCHANGED <<doc, text, offset, mode, stack, buf, exp, value>>
    BY <1>2 DEF vars
  <2>2. doc # NoDoc
    BY <2>1
  <2>3. CASE mode = "done"
    BY <2>1, <2>2, <2>3 DEF DocumentIsRead
  <2>4. CASE mode # "done"
    <3>1. PICK D, G : InDocument(D, G)
      BY <2>2, <2>4 DEF DocumentIsRead
    <3>2. Skip(offset)' = Skip(offset)
      BY <2>1 DEF Skip, Past, Stops, CharAt
    <3>3. Reads(G[1])'
      BY <2>1, <3>1, <3>2 DEF InDocument, Reads
    <3>4. InDocument(D, G)'
      BY <2>1, <3>1, <3>3 DEF InDocument
    <3> QED
      BY <2>1, <2>4, <3>4
  <2> QED
    BY <2>3, <2>4
<1> QED
  BY <1>1, <1>2

(***************************************************************************)
(* A document is read back as the value that was written, and to its last  *)
(* character, whatever it is nested of and however it is spaced, if it is  *)
(* written by the grammar (DATA::Load).                                    *)
(***************************************************************************)
THEOREM DocumentIsReadBack ==
  ASSUME AllWritten
  PROVE  Spec => []ParsedIsDocument
<1>1. Init => DocumentIsRead
  BY InitInDocument
<1>2. Typed /\ DocumentIsRead /\ [Next]_vars => DocumentIsRead'
  BY StepReadsDocument
<1>3. DocumentIsRead => ParsedIsDocument
  BY DEF DocumentIsRead, ParsedIsDocument
<1>4. Spec => []Typed
  BY InitTyped, StepTyped, PTL DEF Spec
<1> QED
  BY <1>1, <1>2, <1>3, <1>4, PTL DEF Spec
=============================================================================
