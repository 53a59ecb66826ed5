------------------------------ MODULE JsonTexts ------------------------------
(***************************************************************************)
(* The texts that DATA::Load is to read, said without the parser: which of *)
(* them write a value, and in which of them each string and number that is *)
(* begun also ends.  Both are stated by a certificate, a set that contains *)
(* all that follows from its own elements, and not by recursion.           *)
(***************************************************************************)
EXTENDS DataParser

At(t, p) == IF p \in DOMAIN t THEN t[p] ELSE End

Blanks(t, p, q) == p <= q /\ \A i \in p .. q - 1 : At(t, i) = Blank

\* From p to q there is the separator c with blanks around it.
Apart(t, p, c, q) ==
  \E m \in p .. q - 1 : Blanks(t, p, m) /\ At(t, m) = c /\ Blanks(t, m + 1, q)

(***************************************************************************)
(* The value of a node is written from its character "from" up to "to".    *)
(* keys and items are the nodes inside it; at says where each character of *)
(* a string begins.                                                        *)
(***************************************************************************)
IsString(t, n) ==
  LET s == n.value[2]
  IN  /\ n.value = Str(s) /\ s \in Seq(Chars)
      /\ At(t, n.from) = Quote /\ At(t, n.to - 1) = Quote
      /\ n.at \in [1 .. Len(s) + 1 -> Nat]
      /\ n.at[1] = n.from + 1 /\ n.at[Len(s) + 1] = n.to - 1
      /\ \A i \in 1 .. Len(s) :
           IF s[i] \in Escaped
             THEN /\ At(t, n.at[i]) = Escape /\ At(t, n.at[i] + 1) = s[i]
                  /\ n.at[i + 1] = n.at[i] + 2
             ELSE At(t, n.at[i]) = s[i] /\ n.at[i + 1] = n.at[i] + 1

\* A number is followed by something, and its exponent has a plus sign.
IsNumber(t, n) ==
  LET b == n.value[2]
      e == n.value[3]
      mark == n.from + Len(b)
  IN  /\ n.value[1] = "number" /\ n.value = Num(b, e)
      /\ Numeral(b)
      /\ \A i \in DOMAIN b : b[i] = "." =>
           i \in 2 .. Len(b) - 1 /\ {b[i - 1], b[i + 1]} \subseteq Digits
      /\ \A i \in 1 .. Len(b) : At(t, n.from + i - 1) = b[i]
      /\ e \in Seq(Digits)
      /\ e # <<>> => At(t, mark) = "e" /\ At(t, mark + 1) = "+"
      /\ \A i \in 1 .. Len(e) : At(t, mark + 1 + i) = e[i]
      /\ n.to = IF e = <<>> THEN mark ELSE mark + 2 + Len(e)
      /\ At(t, n.to) \in Closers \cup {Blank}

IsWord(t, n) ==
  /\ At(t, n.from) \in Words /\ n.value = Word(At(t, n.from))
  /\ n.to = n.from + 1

\* What the nodes inside stand between: the first of them, all, and the last.
Listed(t, n, firsts, open, close) ==
  /\ At(t, n.from) = open /\ At(t, n.to - 1) = close
  /\ n.items = <<>> => Blanks(t, n.from + 1, n.to - 1)
  /\ n.items # <<>> =>
       /\ Apart(t, n.from, open, firsts[1].from)
       /\ Blanks(t, n.items[Len(n.items)].to, n.to - 1)
  /\ \A i \in 1 .. Len(n.items) - 1 : Apart(t, n.items[i].to, ",", firsts[i + 1].from)

IsArray(t, D, n) ==
  /\ n.items \in Seq(D)
  /\ n.value = Arr([i \in 1 .. Len(n.items) |-> n.items[i].value])
  /\ Listed(t, n, n.items, "[", "]")

\* No key is there twice, and none needs an escape.
KeyAt(n, i) == n.keys[i].value[2]

PairsTo(n, k) == {<<KeyAt(n, i), n.items[i].value>> : i \in 1 .. k}

IsObject(t, D, n) ==
  /\ n.items \in Seq(D) /\ n.keys \in Seq(D) /\ Len(n.keys) = Len(n.items)
  /\ n.value = Obj(PairsTo(n, Len(n.items)))
  /\ Listed(t, n, n.keys, "{", "}")
  /\ \A i \in 1 .. Len(n.items) :
       /\ IsString(t, n.keys[i])
       /\ \A c \in DOMAIN KeyAt(n, i) : KeyAt(n, i)[c] \notin Escaped
       /\ \A j \in 1 .. i - 1 : KeyAt(n, j) # KeyAt(n, i)
       /\ Apart(t, n.keys[i].to, ":", n.items[i].from)

Derivation(t, D) ==
  \A n \in D :
    /\ n.from \in 1 .. Len(t) /\ n.to \in n.from + 1 .. Len(t) + 1
    /\ \/ IsString(t, n) \/ IsNumber(t, n) \/ IsWord(t, n)
       \/ IsArray(t, D, n) \/ IsObject(t, D, n)

\* The whole text, after some blanks, is the node n.
Root(t, n, v) == n.value = v /\ n.to = Len(t) + 1 /\ Blanks(t, 1, n.from)

Writes(t, v) == \E D : Derivation(t, D) /\ \E n \in D : Root(t, n, v)

(***************************************************************************)
(* Where scanning goes from the position p, between two tokens or inside   *)
(* one; what is open around it does not matter.  An error lets it go on    *)
(* somewhere between tokens.                                               *)
(***************************************************************************)
Scans(t, m, p) ==
  LET c == At(t, p)
      d == At(t, p + 1)
  IN  CASE m = "between" ->
             CASE c \in {Blank, "[", "{", ":"} \cup Closers \cup Words -> {<<m, p + 1>>}
               [] c = Quote -> {<<"string", p + 1>>}
               [] c \in Digits \cup {"-"} -> {<<"number", p>>}
               [] OTHER -> {}
        [] m = "string" ->
             CASE c = Quote -> {<<"between", p + 1>>}
               [] c = Escape /\ d = "u" -> {<<m, p + 6>>, <<"between", p + 1>>}
               [] c = Escape /\ d # "u" -> {<<m, p + 2>>}
               [] OTHER -> {<<m, p + 1>>}
        [] m = "number" ->
             CASE c \in Digits \cup {"-", "."} -> {<<m, p + 1>>}
               [] c = "e" -> {<<"exponent", IF d = "-" THEN p + 3 ELSE p + 2>>}
               [] c \in Closers \cup {Blank} -> {<<"between", p>>}
               [] OTHER -> {<<"between", p + 1>>}
        [] m = "exponent" ->
             CASE c \in Digits -> {<<m, p + 1>>}
               [] c \in Closers \cup {Blank} -> {<<"between", p>>}
               [] OTHER -> {<<"between", p + 1>>}

ClosedScan(t, P) ==
  /\ <<"between", 1>> \in P
  /\ \A x \in P : x[2] \in 1 .. Len(t) + 1 /\ Scans(t, x[1], x[2]) \subseteq P

\* No string and no number goes on after the end of the text.
TokensEnd(t) == \E P : ClosedScan(t, P)
=============================================================================
