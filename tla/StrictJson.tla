----------------------------- MODULE StrictJson -----------------------------
(***************************************************************************)
(* parse_strict_json (src/src/json.cpp), the scanner every document passes *)
(* before anything else looks at it, and sanitize_unpaired_surrogates      *)
(* (src/src/signed_document.cpp), which verify puts before the scanner to  *)
(* report unpaired surrogates at a later stage than other faults.          *)
(*                                                                         *)
(* The scanner is a recursive descent; here it reads one symbol a step and *)
(* its recursion is the stack.  It is held to the grammar of RFC 8259,     *)
(* which derives a text in any way it can.                                 *)
(*                                                                         *)
(* A symbol is a character, or several that are only looked at together:   *)
(* a literal, the four digits of an escape, a code point of many bytes.    *)
(***************************************************************************)
EXTENDS Naturals, Sequences

CONSTANTS
  Families,     \* sets of texts, as below
  MaximumDepth  \* containers around a value, 512 in the code

Quote == "\""
Escape == "\\"
Digits == {"0", "1"}
Structure == {"{", "}", "[", "]", ",", ":", " ", Quote}

\* 004a is the letter J, D800 and DC00 are the halves of the code point that
\* "wide" is the UTF-8 of, E000 is a code point of private use.
Quads == {"004a", "D800", "DC00", "E000"}

\* "bad" is a control character, or bytes that are no UTF-8.
Strings == {Escape, "J", "n", "u", "wide", "bad"} \cup Quads

Escapes == Structure \cup Strings
Numbers == Structure \cup Digits \cup {"-", "+", ".", "e", "null", "J"}

\* A family of texts is how they begin, the symbols they are made of, and its
\* bounds: the symbols added, the code points of a string, and the symbols
\* added once the scanner has failed.  Texts with escapes have no digits and no
\* literals, so that no quad is put together from other symbols and no literal
\* begins in an escape.
ASSUME TextAssumption ==
  /\ MaximumDepth \in Nat
  /\ \A f \in Families :
       /\ f.symbols \subseteq Escapes \/ f.symbols \subseteq Numbers
       /\ f.begins \in Seq(f.symbols)
       /\ f.length \in Nat /\ f.decoded \in Nat /\ f.beyond \in Nat

-----------------------------------------------------------------------------
VARIABLES
  text,     \* what has been read
  family,   \* the one it belongs to
  at,       \* what the scanner expects next, or "failed"
  stack,    \* the containers it is in: how each closes, and its member names
  decoded,  \* what the string being read means so far
  naming,   \* whether that string is a member name
  beyond    \* the symbols read after failing

vars == <<text, family, at, stack, decoded, naming, beyond>>

\* Where a number may end.
NumberEnds == {"zero", "integer", "fraction", "power"}

InNumber == NumberEnds \cup {"sign", "point", "exponent", "exponentSign"}
InString == {"string", "escape", "quad", "lowEscape", "lowU", "lowQuad"}
Between == {"value", "first", "element", "name", "colon", "after"}

Init ==
  /\ text = <<>>
  /\ family \in Families
  /\ at = "value"
  /\ stack = <<>>
  /\ decoded = <<>>
  /\ naming = FALSE
  /\ beyond = 0

\* A value has ended, or ends before the symbol that comes next.
AfterValue == at \in {"after"} \cup NumberEnds

SkipWhitespace(s) ==
  /\ s = " "
  /\ at \in Between \cup NumberEnds
  /\ at' = IF AfterValue THEN "after" ELSE at
  /\ UNCHANGED <<stack, decoded, naming>>

BeginString(name) ==
  /\ at' = "string"
  /\ decoded' = <<>>
  /\ naming' = name
  /\ UNCHANGED stack

Open(close, expected) ==
  /\ at' = expected
  /\ stack' = Append(stack, [close |-> close, names |-> {}])
  /\ UNCHANGED <<decoded, naming>>

NumberStarts == {<<"-", "sign">>, <<"0", "zero">>, <<"1", "integer">>}

ParseValue(s) ==
  /\ at \in {"value", "element"}
  /\ Len(stack) <= MaximumDepth
  /\ \/ s = "{" /\ Open("}", "first")
     \/ s = "[" /\ Open("]", "element")
     \/ s = Quote /\ BeginString(FALSE)
     \/ /\ s = "null" /\ at' = "after"
        /\ UNCHANGED <<stack, decoded, naming>>
     \/ /\ \E move \in NumberStarts : s = move[1] /\ at' = move[2]
        /\ UNCHANGED <<stack, decoded, naming>>

\* Mutant: a zero may be followed by digits.
NumberMovesZeros ==
  ({"sign"} \X {"0"} \X {"integer"}) \cup ({"sign"} \X {"1"} \X {"integer"})
  \cup ({"integer", "zero"} \X Digits \X {"integer"})
  \cup ({"zero", "integer"} \X {"."} \X {"point"})
  \cup ({"point", "fraction"} \X Digits \X {"fraction"})
  \cup ({"zero", "integer", "fraction"} \X {"e"} \X {"exponent"})
  \cup ({"exponent"} \X {"+", "-"} \X {"exponentSign"})
  \cup ({"exponent", "exponentSign", "power"} \X Digits \X {"power"})

\* <<expected, read, expected next>>
NumberMoves ==
  {<<"sign", "0", "zero">>, <<"sign", "1", "integer">>}
  \cup ({"integer"} \X Digits \X {"integer"})
  \cup ({"zero", "integer"} \X {"."} \X {"point"})
  \cup ({"point", "fraction"} \X Digits \X {"fraction"})
  \cup ({"zero", "integer", "fraction"} \X {"e"} \X {"exponent"})
  \cup ({"exponent"} \X {"+", "-"} \X {"exponentSign"})
  \cup ({"exponent", "exponentSign", "power"} \X Digits \X {"power"})

ParseNumber(s) ==
  /\ \E move \in NumberMoves : at = move[1] /\ s = move[2] /\ at' = move[3]
  /\ UNCHANGED <<stack, decoded, naming>>

\* The rest of parse_object and parse_array.
Close(s) ==
  /\ stack # <<>> /\ s = stack[Len(stack)].close
  /\ at \in {"first", "element"} \/ AfterValue
  /\ at' = "after"
  /\ stack' = SubSeq(stack, 1, Len(stack) - 1)
  /\ UNCHANGED <<decoded, naming>>

Separate(s) ==
  /\ s = "," /\ stack # <<>> /\ AfterValue
  /\ at' = IF stack[Len(stack)].close = "}" THEN "name" ELSE "value"
  /\ UNCHANGED <<stack, decoded, naming>>

MemberName(s) ==
  /\ s = Quote /\ at \in {"first", "name"}
  /\ BeginString(TRUE)

Colon(s) ==
  /\ s = ":" /\ at = "colon"
  /\ at' = "value"
  /\ UNCHANGED <<stack, decoded, naming>>

\* The name of a member has to be new to its object.
EndString(s) ==
  /\ at = "string" /\ s = Quote
  /\ \/ ~naming /\ at' = "after" /\ UNCHANGED stack
     \/ /\ naming
        /\ decoded \notin stack[Len(stack)].names
        /\ stack' = [stack EXCEPT ![Len(stack)].names = @ \cup {decoded}]
        /\ at' = "colon"
  /\ UNCHANGED <<decoded, naming>>

Decode(code, expected) ==
  /\ at' = expected
  /\ decoded' = Append(decoded, code)
  /\ UNCHANGED <<stack, naming>>

Skip(expected) == at' = expected /\ UNCHANGED <<stack, decoded, naming>>

CodeOf(quad) == IF quad = "004a" THEN "J" ELSE quad

ParseString(s) ==
  \/ at = "string" /\ s \notin {Quote, Escape, "bad"} /\ Decode(s, "string")
  \/ at = "string" /\ s = Escape /\ Skip("escape")

ParseEscape(s) ==
  /\ at = "escape"
  /\ \/ s \in {Quote, Escape} /\ Decode(s, "string")
     \/ s = "n" /\ Decode("newline", "string")
     \/ s = "u" /\ Skip("quad")

ParseUnicodeEscape(s) ==
  \/ at = "quad" /\ s \in Quads \ {"D800", "DC00"} /\ Decode(CodeOf(s), "string")
  \/ at = "quad" /\ s = "D800" /\ Skip("lowEscape")
  \/ at = "lowEscape" /\ s = Escape /\ Skip("lowU")
  \/ at = "lowU" /\ s = "u" /\ Skip("lowQuad")
  \/ at = "lowQuad" /\ s = "DC00" /\ Decode("wide", "string")

Scan(s) ==
  \/ SkipWhitespace(s) \/ ParseValue(s) \/ ParseNumber(s)
  \/ Close(s) \/ Separate(s) \/ MemberName(s) \/ Colon(s)
  \/ EndString(s) \/ ParseString(s) \/ ParseEscape(s) \/ ParseUnicodeEscape(s)

\* Every branch that is left ends in fail.
Fail(s) ==
  /\ ~ENABLED Scan(s)
  /\ at' = "failed"
  /\ beyond' = beyond + 1
  /\ UNCHANGED <<stack, decoded, naming>>

Read(s) ==
  /\ Len(text) < Len(family.begins) + family.length /\ beyond <= family.beyond
  /\ Len(text) < Len(family.begins) => s = family.begins[Len(text) + 1]
  /\ at = "string" /\ s # Quote => Len(decoded) < family.decoded
  /\ text' = Append(text, s)
  /\ \/ Scan(s) /\ UNCHANGED beyond
     \/ Fail(s)
  /\ UNCHANGED family

Next == \E s \in family.symbols : Read(s)

Spec == Init /\ [][Next]_vars

\* parse_strict_json returns if the text ends here.
Accepted == AfterValue /\ stack = <<>>

-----------------------------------------------------------------------------
(* sanitize_unpaired_surrogates.                                           *)

\* \uXXXX at the n-th symbol of t.
HexEscape(t, n) ==
  n + 2 <= Len(t) /\ t[n] = Escape /\ t[n + 1] = "u" /\ t[n + 2] \in Quads

\* Mutant: a backslash that begins no \u is passed over by itself.
StringPieceEscape(t, n) ==
  CASE ~HexEscape(t, n) -> [length |-> 1, sane |-> TRUE]
    [] HexEscape(t, n) /\ t[n + 2] = "D800" ->
         LET pair == HexEscape(t, n + 3) /\ t[n + 5] = "DC00"
         IN [length |-> IF pair THEN 6 ELSE 3, sane |-> pair]
    [] HexEscape(t, n) /\ t[n + 2] # "D800" ->
         [length |-> 3, sane |-> t[n + 2] # "DC00"]

\* What is looked at together in a string, and whether it is kept.
StringPiece(t, n) ==
  CASE ~HexEscape(t, n) ->
         [length |-> IF t[n] = Escape /\ n < Len(t) THEN 2 ELSE 1, sane |-> TRUE]
    [] HexEscape(t, n) /\ t[n + 2] = "D800" ->
         LET pair == HexEscape(t, n + 3) /\ t[n + 5] = "DC00"
         IN [length |-> IF pair THEN 6 ELSE 3, sane |-> pair]
    [] HexEscape(t, n) /\ t[n + 2] # "D800" ->
         [length |-> 3, sane |-> t[n + 2] # "DC00"]

\* The text that is scanned; it differs from t exactly if unpaired_surrogate is
\* set, since only what is replaced changes.
Sanitized(t) ==
  LET From[n \in 1..(Len(t) + 1), inString \in BOOLEAN] ==
        LET piece == StringPiece(t, n)
            whole == SubSeq(t, n, n + piece.length - 1)
        IN CASE n > Len(t) -> <<>>
             [] n <= Len(t) /\ (t[n] = Quote \/ ~inString) ->
                  <<t[n]>> \o From[n + 1, IF t[n] = Quote THEN ~inString ELSE FALSE]
             [] n <= Len(t) /\ t[n] # Quote /\ inString ->
                  (IF piece.sane THEN whole ELSE <<Escape, "u", "E000">>)
                    \o From[n + piece.length, TRUE]
  IN From[1, FALSE]

-----------------------------------------------------------------------------
(* The grammar of RFC 8259, with unique names and limited nesting.         *)

Before(t, n) == SubSeq(t, 1, n - 1)
After(t, n) == SubSeq(t, n + 1, Len(t))
Inner(t) == SubSeq(t, 2, Len(t) - 1)
Wraps(t, open, close) == Len(t) >= 2 /\ t[1] = open /\ t[Len(t)] = close
Blank(t) == \A n \in 1..Len(t) : t[n] = " "
AllDigits(t) == t # <<>> /\ \A n \in 1..Len(t) : t[n] \in Digits

\* t without the white space around it.
Stripped(t) ==
  IF Blank(t) THEN <<>>
  ELSE LET inked == {n \in 1..Len(t) : t[n] # " "}
           first == CHOOSE n \in inked : \A m \in inked : n <= m
           last == CHOOSE n \in inked : \A m \in inked : m <= n
       IN SubSeq(t, first, last)

Whole(t) == t = <<"0">> \/ (AllDigits(t) /\ t[1] # "0")
Decimal(t) == \/ Whole(t)
              \/ \E n \in 1..Len(t) : t[n] = "." /\ Whole(Before(t, n))
                                                /\ AllDigits(After(t, n))
Exponent(t) == AllDigits(t) \/ (t # <<>> /\ Head(t) \in {"+", "-"} /\ AllDigits(Tail(t)))
Unsigned(t) == \/ Decimal(t)
               \/ \E n \in 1..Len(t) : t[n] = "e" /\ Decimal(Before(t, n))
                                                 /\ Exponent(After(t, n))
Number(t) == Unsigned(t) \/ (t # <<>> /\ Head(t) = "-" /\ Unsigned(Tail(t)))

\* How one code point of a string may be spelt.
LowEscape == <<Escape, "u", "DC00">>
Spellings ==
  {[spelt |-> <<s>>, code |-> s] : s \in (Escapes \cup Numbers) \ {Quote, Escape, "bad"}}
  \cup {[spelt |-> <<Escape, s>>, code |-> s] : s \in {Quote, Escape}}
  \cup {[spelt |-> <<Escape, "n">>, code |-> "newline"],
        [spelt |-> <<Escape, "u", "004a">>, code |-> "J"],
        [spelt |-> <<Escape, "u", "E000">>, code |-> "E000"],
        [spelt |-> <<Escape, "u", "D800">> \o LowEscape, code |-> "wide"]}

\* Half a code point, where the other half is not next to it.
HalfSpellings ==
  {[spelt |-> <<Escape, "u", "D800">>, code |-> "E000"],
   [spelt |-> LowEscape, code |-> "E000"]}

StartsWith(t, prefix) ==
  Len(prefix) <= Len(t) /\ SubSeq(t, 1, Len(prefix)) = prefix

\* The meanings t has between quotes: one, or none.
RECURSIVE Meanings(_, _)
Meanings(t, halves) ==
  IF t = <<>> THEN {<<>>}
  ELSE UNION {
    LET rest == SubSeq(t, Len(u.spelt) + 1, Len(t))
    IN {<<u.code>> \o meaning : meaning \in Meanings(rest, halves)} :
    u \in {v \in Spellings : StartsWith(t, v.spelt)} \cup
          {v \in HalfSpellings :
             /\ halves /\ StartsWith(t, v.spelt)
             /\ v.spelt # LowEscape => ~StartsWith(t, v.spelt \o LowEscape)}}

Text(t, halves) == Wraps(t, Quote, Quote) /\ Meanings(Inner(t), halves) # {}
Meaning(t, halves) == CHOOSE meaning \in Meanings(Inner(t), halves) : TRUE

RECURSIVE Value(_, _, _)
RECURSIVE Elements(_, _, _)
RECURSIVE Members(_, _, _, _)

Value(t, depth, halves) ==
  LET v == Stripped(t) IN
  /\ depth <= MaximumDepth
  /\ \/ v = <<"null">> \/ Number(v) \/ Text(v, halves)
     \/ /\ Wraps(v, "[", "]")
        /\ Blank(Inner(v)) \/ Elements(Inner(v), depth + 1, halves)
     \/ /\ Wraps(v, "{", "}")
        /\ Blank(Inner(v)) \/ Members(Inner(v), depth + 1, halves, {})

Elements(t, depth, halves) ==
  \/ Value(t, depth, halves)
  \/ \E n \in 1..Len(t) :
       /\ t[n] = "," /\ Value(Before(t, n), depth, halves)
       /\ Elements(After(t, n), depth, halves)

\* Members whose names differ from each other and from those in names.
Members(t, depth, halves, names) ==
  \E n \in 1..Len(t) :
    LET name == Stripped(Before(t, n))
        rest == After(t, n)
    IN /\ t[n] = ":" /\ Text(name, halves)
       /\ Meaning(name, halves) \notin names
       /\ \/ Value(rest, depth, halves)
          \/ \E m \in 1..Len(rest) :
               /\ rest[m] = "," /\ Value(Before(rest, m), depth, halves)
               /\ Members(After(rest, m), depth, halves,
                          names \cup {Meaning(name, halves)})

JsonText(t) == Value(t, 0, FALSE)

\* JSON, but for halves of code points, each of which is read as E000.
NearlyJsonText(t) == Value(t, 0, TRUE)

-----------------------------------------------------------------------------
\* The scanner accepts exactly the texts of the grammar, and what it fails at
\* no text of the grammar begins with: it neither stops early nor lets white
\* space, a number's end, an escaped name or a deep but empty container through
\* that the grammar does not.
ScansTheGrammar == Accepted <=> JsonText(text)

\* Replacing unpaired surrogates before the scan lets through exactly the texts
\* they alone keep from being JSON, and flags exactly these: no document is
\* turned down at parse for them, and none passes canonicalization with one.
SanitizesSurrogates ==
  LET sanitized == Sanitized(text)
      nearly == NearlyJsonText(text)
  IN /\ JsonText(sanitized) <=> nearly
     /\ nearly => (sanitized # text <=> ~JsonText(text))
=============================================================================
