----------------------------- MODULE DataParser -----------------------------
(***************************************************************************)
(* DATA::Load reads the JSON that EngineCommand is given: parse_next and   *)
(* the parse_ functions it calls, which call it again, share one offset    *)
(* into the text.  Nothing tells the caller that the text was wrong: each  *)
(* error ends the innermost function with some value, and its caller goes  *)
(* on from wherever the offset was left.                                   *)
(*                                                                         *)
(* The calls that are open are a stack of the containers being filled.     *)
(* Words (true, false, null) and runs of digits are single characters; the *)
(* value of a number is its digits and its exponent's, not computed.       *)
(***************************************************************************)
EXTENDS Integers, Sequences

CONSTANTS Chars,    \* the characters there are
          Docs,     \* the values that are sent
          Written,  \* the texts each may be written as
          Typos     \* texts that stand for no value

VARIABLES doc,     \* the value that was written, if any
          text,    \* str
          offset,  \* the next character, counted from 1
          mode,    \* what the innermost function is doing
          stack,   \* the arrays and objects that are open, innermost first
          buf,     \* val: the characters of a string or a number so far
          exp,     \* exp_str
          value    \* the value last returned

input == <<doc, text>>
vars == <<doc, text, offset, mode, stack, buf, exp, value>>

Quote == "\""
Escape == "\\"
Blank == " "
End == "NUL"                     \* the character after the last
Words == {"true", "false", "null"}
Digits == {"7"}                  \* a run of them, few enough for a long
Closers == {",", "]", "}"}
Escaped == {Quote, Escape, "n"}  \* "n" stands for all of \/ \b \f \n \r \t

ASSUME ParserAssumption ==
  /\ {Escape, End, "-", "u"} \subseteq Chars
  /\ Written \in [Docs -> SUBSET Seq(Chars)]
  /\ Typos \subseteq Seq(Chars)

\* Values; the pairs of an object are a set.
Str(s) == <<"string", s>>
Num(s, e) == <<"number", s, e>>
Word(w) == <<"word", w>>
Arr(s) == <<"array", s>>
Obj(S) == <<"object", S>>
Null == Word("null")
NoDoc == <<"none">>

Kinds == {"string", "number", "word", "array", "object"}

Given(s) == s # <<>>

\* What std::stol and std::stod convert as a whole; only stod is given points.
Numeral(s) ==
  /\ s \in Seq(Digits \cup {"-", "."})
  /\ \A i \in DOMAIN s : s[i] = "-" => i = 1
  /\ \A i, j \in DOMAIN s : s[i] = "." /\ s[j] = "." => i = j
  /\ \E i \in DOMAIN s : s[i] \in Digits

\* They convert the longest numeral that s begins with, and leave the rest.
Numerals(s) == {0} \cup {k \in 1 .. Len(s) : Numeral(SubSeq(s, 1, k))}

Longest(s) == CHOOSE k \in Numerals(s) : \A j \in Numerals(s) : j <= k

Converted(s) == SubSeq(s, 1, Longest(s))

\* They find something to convert.
Converts(s) == Longest(s) > 0

\* key: <<k>> while the value of the key k is being read
NewArray == [of |-> "array", items |-> <<>>, key |-> <<>>]
NewObject == [of |-> "object", items |-> {}, key |-> <<>>]

TypeOK ==
  /\ doc \in Docs \cup {NoDoc}
  /\ text \in Seq(Chars)
  /\ offset \in Nat \ {0}
  /\ mode \in {"next", "string", "number", "exponent", "back", "done",
               "thrown"}
  /\ \A i \in DOMAIN stack :
       /\ stack[i].of \in {"array", "object"}
       /\ stack[i].key \in Seq(Seq(Chars))
  /\ buf \in Seq(Chars) /\ exp \in Seq(Chars)
  /\ value[1] \in Kinds
  /\ value[1] = "number" => Numeral(value[2])

Init ==
  /\ \/ doc \in Docs /\ text \in Written[doc]
     \/ doc = NoDoc /\ text \in Typos
  /\ offset = 1
  /\ mode = "next"
  /\ stack = <<>>
  /\ buf = <<>> /\ exp = <<>>
  /\ value = Null
-----------------------------------------------------------------------------
CharAt(o) == IF o <= Len(text) THEN text[o] ELSE End

\* consume_ws: past what comes of blanks at o.
Stops(o, blanks) ==
  {p \in o .. Len(text) + 2 :
     CharAt(p) \notin blanks /\ \A q \in o .. p - 1 : CharAt(q) \in blanks}

Past(o, blanks) ==
  LET S == Stops(o, blanks)
  IN  IF S = {} THEN o + Len(text) + 2   \* out of the text: nothing stops it
      ELSE CHOOSE p \in S : TRUE

\* In the manner of "while (str[offset] <= ' ')".
SkipControl(o) == Past(o, {Blank, End})

Skip(o) == Past(o, {Blank})

\* The innermost function ends with the value v at o.
Back(v, o) ==
  /\ mode' = "back" /\ value' = v /\ offset' = o
  /\ UNCHANGED <<buf, exp>>

\* It calls parse_next at o.
Call(o) ==
  /\ mode' = "next" /\ offset' = o
  /\ UNCHANGED <<buf, exp, value>>
-----------------------------------------------------------------------------
(***************************************************************************)
(* parse_next, and the first characters of what it calls.                  *)
(***************************************************************************)
Start == Skip(offset)
First == CharAt(Start)

Open(frame, closer, empty) ==
  LET o == Skip(Start + 1)
  IN  IF CharAt(o) = closer
        THEN Back(empty, o + 1) /\ UNCHANGED stack
        ELSE Call(o) /\ stack' = <<frame>> \o stack

OpenArray ==
  /\ mode = "next" /\ First = "["
  /\ Open(NewArray, "]", Arr(<<>>))
  /\ UNCHANGED input

OpenObject ==
  /\ mode = "next" /\ First = "{"
  /\ Open(NewObject, "}", Obj({}))
  /\ UNCHANGED input

Begin(m, o) ==
  /\ mode' = m /\ offset' = o
  /\ buf' = <<>> /\ exp' = <<>>
  /\ UNCHANGED <<doc, text, stack, value>>

StartString ==
  /\ mode = "next" /\ First = Quote
  /\ Begin("string", Start + 1)

StartNumber ==
  /\ mode = "next" /\ First \in Digits \cup {"-"}
  /\ Begin("number", Start)

\* parse_bool, parse_null
ReadWord ==
  /\ mode = "next" /\ First \in Words
  /\ Back(Word(First), Start + 1)
  /\ UNCHANGED <<doc, text, stack>>

UnknownStart ==
  /\ mode = "next"
  /\ First \notin {"[", "{", Quote, "-"} \cup Digits \cup Words
  /\ Back(Null, Start)
  /\ UNCHANGED <<doc, text, stack>>
-----------------------------------------------------------------------------
Here == CharAt(offset)

\* The loop goes on, n characters further.
Keep(s, n) ==
  /\ buf' = buf \o s /\ offset' = offset + n
  /\ UNCHANGED <<doc, text, mode, stack, exp, value>>

(***************************************************************************)
(* parse_string.  A \u keeps its six characters; any other character that  *)
(* is not one of the escapes is dropped, and its backslash kept.           *)
(***************************************************************************)
StringEnds ==
  /\ mode = "string" /\ Here = Quote
  /\ Back(Str(buf), offset + 1)
  /\ UNCHANGED <<doc, text, stack>>

PlainChar ==
  /\ mode = "string" /\ Here \notin {Quote, Escape}
  /\ Keep(<<Here>>, 1)

EscapeDropped(c) == <<Escape>>

Unescaped(c) == IF c \in Escaped THEN <<c>> ELSE <<Escape>>

EscapedChar ==
  /\ mode = "string" /\ Here = Escape /\ CharAt(offset + 1) # "u"
  /\ Keep(Unescaped(CharAt(offset + 1)), 2)

Unicode ==
  /\ mode = "string" /\ Here = Escape /\ CharAt(offset + 1) = "u"
  /\ LET hex == [i \in 1 .. 4 |-> CharAt(offset + 1 + i)]
     IN  IF \A i \in 1 .. 4 : hex[i] \in Digits
           THEN Keep(<<Escape, "u">> \o hex, 6)
           ELSE Back(Str(<<>>), offset + 1) /\ UNCHANGED <<doc, text, stack>>
-----------------------------------------------------------------------------
(***************************************************************************)
(* parse_number.  Both loops read one character too many and step back     *)
(* over it, unless it is an error.  After an e one character is taken for  *)
(* a plus sign, and after a minus one more is skipped.  std::stol, given   *)
(* nothing that begins with a number, throws: the exception ends every     *)
(* call there is.                                                          *)
(***************************************************************************)
NumberChar ==
  /\ mode = "number" /\ Here \in Digits \cup {"-", "."}
  /\ Keep(<<Here>>, 1)

StartExponent ==
  /\ mode = "number" /\ Here = "e"
  /\ LET minus == CharAt(offset + 1) = "-"
     IN  /\ exp' = IF minus THEN <<"-">> ELSE <<>>
         /\ offset' = offset + (IF minus THEN 3 ELSE 2)
  /\ mode' = "exponent"
  /\ UNCHANGED <<doc, text, stack, buf, value>>

ExponentChar ==
  /\ mode = "exponent" /\ Here \in Digits
  /\ exp' = Append(exp, Here) /\ offset' = offset + 1
  /\ UNCHANGED <<doc, text, mode, stack, buf, value>>

NumberEnds ==
  /\ mode \in {"number", "exponent"} /\ Here \in Closers \cup {Blank}
  /\ IF Converts(buf) /\ (mode = "number" \/ Converts(exp))
       THEN Back(Num(Converted(buf), exp), offset)
       ELSE mode' = "thrown" /\ UNCHANGED <<offset, buf, exp, value>>
  /\ UNCHANGED <<doc, text, stack>>

NumberError ==
  /\ mode \in {"number", "exponent"}
  /\ Here \notin Closers \cup {Blank} \cup Digits
  /\ mode = "number" => Here \notin {"-", ".", "e"}
  /\ Back(Null, offset + 1)
  /\ UNCHANGED <<doc, text, stack>>
-----------------------------------------------------------------------------
(***************************************************************************)
(* What the caller does with the value, by the character that follows it:  *)
(* parse_array and parse_object after their call of parse_next.            *)
(***************************************************************************)
Resume == Skip(offset)
Follows == CharAt(Resume)
Top == Head(stack)

Answered(kind) == mode = "back" /\ stack # <<>> /\ Top.of = kind

\* The function ends, but its container stays open.
CloseKept(v, o) == Back(v, o) /\ UNCHANGED stack

\* The container at the top ends with the value v at o.
Close(v, o) == Back(v, o) /\ stack' = Tail(stack)

\* Its loop goes on at o, with the frame f.
Continue(f, o) == Call(o) /\ stack' = <<f>> \o Tail(stack)

\* An error that drops the item and leaves the loop running.
BrokenKept(f) == Continue(Top, Resume)

\* An array with an error in it comes back empty.
Broken(f) == Close(Arr(<<>>), Resume)

ItemRead ==
  /\ Answered("array")
  /\ LET f == [Top EXCEPT !.items = Append(@, value)]
     IN  CASE Follows = "," -> Continue(f, Resume + 1)
           [] Follows = "]" -> Close(Arr(f.items), Resume + 1)
           [] OTHER -> Broken(f)
  /\ UNCHANGED input

\* DATA::ToString: nothing but strings have one.
Dump(s) ==
  LET esc(c) == IF c \in Escaped THEN <<Escape, c>> ELSE <<c>>
      upto[n \in 0 .. Len(s)] == IF n = 0 THEN <<>> ELSE upto[n - 1] \o esc(s[n])
  IN  upto[Len(s)]

KeyOf(v) == IF v[1] = "string" THEN Dump(v[2]) ELSE <<>>

KeyRead ==
  /\ Answered("object") /\ Top.key = <<>>
  /\ IF Follows = ":"
       THEN Continue([Top EXCEPT !.key = <<KeyOf(value)>>], Skip(Resume + 1))
       ELSE Close(Obj(Top.items), Resume)
  /\ UNCHANGED input

\* Object[k] = v: a key that is given twice keeps the last value.
Put(S, k, v) == {p \in S : p[1] # k} \cup {<<k, v>>}

PairRead ==
  /\ Answered("object") /\ Top.key # <<>>
  /\ LET S == Put(Top.items, Top.key[1], value)
     IN  CASE Follows = "," -> Continue([NewObject EXCEPT !.items = S], Resume + 1)
           [] Follows = "}" -> Close(Obj(S), Resume + 1)
           [] OTHER -> Close(Obj(S), Resume)
  /\ UNCHANGED input

Load ==
  /\ mode = "back" /\ stack = <<>>
  /\ mode' = "done"
  /\ UNCHANGED <<doc, text, offset, stack, buf, exp, value>>

Next ==
  \/ OpenArray \/ OpenObject
  \/ StartString \/ StringEnds \/ PlainChar \/ EscapedChar \/ Unicode
  \/ StartNumber \/ NumberChar \/ StartExponent \/ ExponentChar
  \/ NumberEnds \/ NumberError
  \/ ReadWord \/ UnknownStart
  \/ ItemRead \/ KeyRead \/ PairRead
  \/ Load

\* One thread runs, and it does not stop in the middle of a call.
Spec == Init /\ [][Next]_vars /\ WF_vars(Next)
-----------------------------------------------------------------------------
(***************************************************************************)
(* A document is read back as the value that was written, to its last      *)
(* character (DATA::Load).                                                 *)
(***************************************************************************)
ParsedIsDocument ==
  mode = "done" /\ doc # NoDoc => value = doc /\ offset = Len(text) + 1

(***************************************************************************)
(* As long as something is still to be read, the offset is at a character  *)
(* of the text or at its terminator, also in a text that is wrong and      *)
(* after the errors in it (consume_ws, parse_number).                      *)
(***************************************************************************)
ReadsText ==
  mode \notin {"done", "thrown"} /\ ~(mode = "back" /\ stack = <<>>)
    => Skip(offset) <= Len(text) + 1

(***************************************************************************)
(* Every step goes forward in the text; or stays where it is and ends the  *)
(* innermost function, or begins a number.  This is why the functions that *)
(* call one another come to an end, whatever the text.                     *)
(***************************************************************************)
Rank == CASE mode = "next" -> 3
          [] mode \in {"string", "number", "exponent"} -> 2
          [] mode = "back" -> 1
          [] OTHER -> 0

Left == 4 * Len(stack) + Rank

Progresses == [][offset' > offset \/ (offset' = offset /\ Left' < Left)]_vars

(***************************************************************************)
(* Every text is done with some time, or the parser throws: no error       *)
(* leaves one of the loops that call one another running (parse_array and  *)
(* parse_object: while (true)).                                            *)
(***************************************************************************)
ParseEnds == <>(mode \in {"done", "thrown"})
=============================================================================
