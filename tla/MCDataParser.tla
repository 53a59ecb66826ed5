---------------------------- MODULE MCDataParser ----------------------------
(***************************************************************************)
(* Small documents as JSON.stringify writes them, with and without blanks. *)
(* Left out is what DATA::Load is known to read as something else: numbers *)
(* at the end of the text, negative exponents, \u, and keys with escapes.  *)
(***************************************************************************)
EXTENDS JsonTexts, FiniteSets

MCChars ==
  {Quote, Escape, Blank, End, "[", "]", "{", "}", ",", ":", "-", "+", ".", "7",
   "a", "b", "e", "u", "x", "?"} \cup Words

MCStrings == {<<>>, <<"a">>, <<Quote>>, <<Escape>>}
MCNumbers == {Num(<<"7">>, <<>>), Num(<<"-", "7", ".", "7">>, <<>>),
              Num(<<"7">>, <<"7">>)}
Atoms == {Str(s) : s \in MCStrings} \cup MCNumbers \cup {Word("true")}
Keys == {<<"a">>, <<"b">>}

UpTo(n, S) == UNION {[1 .. k -> S] : k \in 0 .. n}
Arrays(n, S) == {Arr(s) : s \in UpTo(n, S)}
Objects(ks, S) ==
  {Obj({<<k, f[k]>> : k \in DOMAIN f}) : f \in UNION {[K -> S] : K \in SUBSET ks}}

Flat == Arrays(2, Atoms) \cup Objects(Keys, Atoms)
Few == Arrays(1, {Str(<<"a">>), Num(<<"7">>, <<>>)})
         \cup Objects({<<"a">>}, {Num(<<"7">>, <<>>)})
Nested == Arrays(2, Few) \cup Objects(Keys, Few)

MCDocs == (Atoms \ MCNumbers) \cup Flat \cup Nested

\* gap: what stands around the separators
RECURSIVE Joined(_, _), WrittenAs(_, _)

Joined(s, gap) ==
  IF Len(s) <= 1 THEN IF s = <<>> THEN <<>> ELSE s[1]
  ELSE s[1] \o gap \o <<",">> \o gap \o Joined(Tail(s), gap)

Quoted(s) == <<Quote>> \o Dump(s) \o <<Quote>>

InOrder(S) ==
  CHOOSE s \in [1 .. Cardinality(S) -> S] : \A p \in S : \E i \in DOMAIN s : s[i] = p

WrittenAs(v, gap) ==
  CASE v[1] = "string" -> Quoted(v[2])
    [] v[1] = "number" -> v[2] \o (IF v[3] = <<>> THEN <<>> ELSE <<"e", "+">> \o v[3])
    [] v[1] = "word" -> <<v[2]>>
    [] v[1] = "array" ->
         <<"[">> \o gap \o Joined([i \in DOMAIN v[2] |-> WrittenAs(v[2][i], gap)], gap)
           \o gap \o <<"]">>
    [] v[1] = "object" ->
         LET s == InOrder(v[2])
             pair(i) == Quoted(s[i][1]) \o gap \o <<":">> \o gap \o WrittenAs(s[i][2], gap)
         IN  <<"{">> \o gap \o Joined([i \in DOMAIN s |-> pair(i)], gap) \o gap \o <<"}">>

MCWritten == [d \in MCDocs |-> {WrittenAs(d, gap) : gap \in {<<>>, <<Blank>>}}]

\* One character, but no quote or backslash, is mistyped; and wrong escapes.
Mistyped(s) ==
  {[s EXCEPT ![i] = "?"] : i \in {j \in DOMAIN s : s[j] \notin {Quote, Escape}}}

MCTypos ==
  UNION {Mistyped(WrittenAs(d, <<>>)) : d \in Nested \cup Arrays(2, MCNumbers)
                                                  \cup Objects(Keys, MCNumbers)}
    \cup {<<"[", Quote, Escape, "u", "7", "7", "7">> \o s \o <<Quote, "]">> :
            s \in {<<"7">>, <<"?">>}}
    \cup {<<"{", "7", ":", "7", "}">>, <<"[", Quote, Escape, "x", Quote, "]">>,
          <<"[", "-", "]">>, <<"[", "7", "e", "-", "7", "]">>,
          <<"[", "-", "-", "7", "]">>, <<"[", "7", "-", "7", "]">>,
          <<"[", "-", ".", "7", "]">>, <<"[", "7", ".", "7", ".", "]">>}
-----------------------------------------------------------------------------
(***************************************************************************)
(* The two certificates that JsonTexts asks for exist for these texts.     *)
(***************************************************************************)
RECURSIVE Node(_, _, _), Inside(_), Reached(_, _, _)

Node(v, gap, p) ==
  LET \* where the i-th of the texts in s begins, written after an opening
      Place(s, i) ==
        p + 1 + Len(gap)
          + IF i = 1 THEN 0 ELSE Len(Joined(SubSeq(s, 1, i - 1), gap)) + 2 * Len(gap) + 1
      n == [from |-> p, to |-> p + Len(WrittenAs(v, gap)), value |-> v]
  IN  CASE v[1] \in {"number", "word"} -> n
        [] v[1] = "string" ->
             [from |-> n.from, to |-> n.to, value |-> v,
              at |-> [i \in 1 .. Len(v[2]) + 1 |-> p + 1 + Len(Dump(SubSeq(v[2], 1, i - 1)))]]
        [] v[1] = "array" ->
             LET s == [i \in DOMAIN v[2] |-> WrittenAs(v[2][i], gap)]
             IN  [from |-> n.from, to |-> n.to, value |-> v,
                  items |-> [i \in DOMAIN s |-> Node(v[2][i], gap, Place(s, i))]]
        [] v[1] = "object" ->
             LET f == InOrder(v[2])
                 colon(i) == Quoted(f[i][1]) \o gap \o <<":">> \o gap
                 s == [i \in DOMAIN f |-> colon(i) \o WrittenAs(f[i][2], gap)]
             IN  [from |-> n.from, to |-> n.to, value |-> v,
                  keys |-> [i \in DOMAIN f |-> Node(Str(f[i][1]), gap, Place(s, i))],
                  items |-> [i \in DOMAIN f |->
                               Node(f[i][2], gap, Place(s, i) + Len(colon(i)))]]

Elements(s) == {s[i] : i \in DOMAIN s}

Inside(n) ==
  {n} \cup (IF n.value[1] \in {"array", "object"}
              THEN UNION {Inside(m) : m \in Elements(n.items)} ELSE {})
      \cup (IF n.value[1] = "object" THEN Elements(n.keys) ELSE {})

Reached(t, P, new) ==
  IF new = {} THEN P
  ELSE Reached(t, P \cup new, UNION {Scans(t, x[1], x[2]) : x \in new} \ (P \cup new))

ASSUME DocumentsAreWritten ==
  \A d \in MCDocs, gap \in {<<>>, <<Blank>>} :
    LET n == Node(d, gap, 1)
    IN  Derivation(WrittenAs(d, gap), Inside(n)) /\ Root(WrittenAs(d, gap), n, d)

ASSUME TokensOfTextsEnd ==
  \A t \in MCTypos \cup UNION {MCWritten[d] : d \in MCDocs} :
    ClosedScan(t, Reached(t, {}, {<<"between", 1>>}))
=============================================================================
