--------------------------- MODULE CanonicalText ---------------------------
(***************************************************************************)
(* The texts of the values that have no parts, numbers and strings, in     *)
(* canonical_json (src/src/canonical.cpp). Digits are put to a number,     *)
(* characters to a string; the text is held to a reader that knows the     *)
(* grammar of JSON and the forms of RFC 8785 and of ECMAScript.            *)
(***************************************************************************)
EXTENDS NumberText

CONSTANTS
  Digits,      \* the significant digits that are put, as characters
  MaxDigits,   \* bound: how many; of a double there are 17
  Places,      \* bound: where a point may stand
  Characters,  \* the characters that are put to a string
  MaxLength    \* bound: how many

ASSUME TextAssumption ==
  /\ Digits \subseteq 49..57
  /\ Places \subseteq -323..309 /\ Characters \subseteq Nat
  /\ MaxDigits \in 0..17 /\ MaxLength \in Nat

Quote == 34
Escape == 92

String(text) == [kind |-> "string", text |-> text]
-----------------------------------------------------------------------------
(* append_escaped_string.                                                  *)

\* What follows the backslash of the escapes of two characters.
Short(c) == CASE c = 34 -> 34 [] c = 92 -> 92
              [] c = 8 -> 98 [] c = 9 -> 116 [] c = 10 -> 110
              [] c = 12 -> 102 [] c = 13 -> 114

Shortened == {34, 92, 8, 9, 10, 12, 13}

Hexadecimal(n) == IF n < 10 THEN 48 + n ELSE 87 + n

\* Mutant: a character below 128 that cannot be printed is escaped as well.
EscapedControl(c) ==
  IF c \in Shortened THEN <<Escape, Short(c)>>
  ELSE IF c < 32 \/ c = 127
    THEN <<Escape, 117, 48, 48, Hexadecimal(c \div 16), Hexadecimal(c % 16)>>
  ELSE <<c>>

Escaped(c) ==
  IF c \in Shortened THEN <<Escape, Short(c)>>
  ELSE IF c < 32
    THEN <<Escape, 117, 48, 48, Hexadecimal(c \div 16), Hexadecimal(c % 16)>>
  ELSE <<c>>

EscapedString(text) ==
  <<Quote>> \o FlattenSeq([i \in DOMAIN text |-> Escaped(text[i])])
  \o <<Quote>>

-----------------------------------------------------------------------------
VARIABLE value   \* what is to be serialised

\* A string is empty, a number is zero with a sign and a place for its point.
InitLeaf ==
  value \in {String(<<>>)}
            \cup {Number(negative, <<>>, n) :
                    negative \in BOOLEAN, n \in Places}

PutDigit(zeros, digit) ==
  /\ value.kind = "number"
  /\ Len(value.digits) + zeros < MaxDigits
  /\ value.digits = <<>> => zeros = 0
  /\ value' = [value EXCEPT !.digits = @ \o Zeros(zeros) \o <<digit>>]

PutCharacter(c) ==
  /\ value.kind = "string"
  /\ Len(value.text) < MaxLength
  /\ value' = String(Append(value.text, c))

NextLeaf ==
  \/ \E zeros \in 0..MaxDigits, digit \in Digits : PutDigit(zeros, digit)
  \/ \E c \in Characters : PutCharacter(c)

SpecLeaf == InitLeaf /\ [][NextLeaf]_value
-----------------------------------------------------------------------------
(* The reader. A number is the weights of its digits, wherever its point   *)
(* and its exponent put them.                                              *)

\* An exponent is a sign and up to three digits, read from the last.
ExponentRead(text) ==
  LET place(k) == IF Len(text) - k > 1 THEN text[Len(text) - k] - Zero ELSE 0
      size == place(0) + 10 * place(1) + 100 * place(2)
  IN IF text = <<>> THEN 0
     ELSE IF text[1] = Minus THEN 0 - size ELSE size

Weights(mantissa, exponent) ==
  LET point == Find(mantissa, Point)
      weight(i) == IF i < point THEN point - i - 1 ELSE point - i
  IN {<<weight(i) + exponent, mantissa[i]>> :
        i \in {j \in DOMAIN mantissa : mantissa[j] \notin {Zero, Point}}}

\* The form ECMAScript gives a number of that mantissa and exponent.
EcmaScriptForm(mantissa, exponent, marked) ==
  LET point == Find(mantissa, Point)
      high == {w[1] : w \in Weights(mantissa, exponent)}
  IN /\ \A i \in DOMAIN mantissa : IsDigit(mantissa[i]) \/ i = point
     /\ point > 1 /\ (mantissa[1] = Zero => point = 2)
     /\ point <= Len(mantissa) =>
          point < Len(mantissa) /\ Last(mantissa) # Zero
     /\ marked => point = 2 \/ Len(mantissa) = 1
     /\ marked <=> high # {} /\ Max(high) \notin -6..20

NumberReads(text, number) ==
  LET unsigned == IF text[1] = Minus THEN Tail(text) ELSE text
      marker == Find(unsigned, Marker)
      mantissa == SubSeq(unsigned, 1, marker - 1)
      written == Drop(unsigned, marker)
      exponent == ExponentRead(written)
  IN /\ text[1] = Minus <=> number.negative /\ number.digits # <<>>
     /\ Weights(mantissa, exponent) =
          {<<number.n - i, number.digits[i]>> :
             i \in {j \in DOMAIN number.digits : number.digits[j] # Zero}}
     /\ EcmaScriptForm(mantissa, exponent, marker <= Len(unsigned))
     /\ written # <<>> =>
          /\ Len(written) \in 2..4 /\ written[1] \in {Plus, Minus}
          /\ written[2] # Zero /\ \A i \in 2..Len(written) : IsDigit(written[i])

(* A string is read one character or escape at a time.                     *)

HexRead(c) == IF c <= 57 THEN c - 48 ELSE c - 87

\* The characters that escapes of two characters stand for.
Unescape ==
  [c \in {34, 92, 47, 98, 102, 110, 114, 116} |->
     CASE c \in {34, 92, 47} -> c [] c = 98 -> 8 [] c = 102 -> 12
       [] c = 110 -> 10 [] c = 114 -> 13 [] c = 116 -> 9]

\* What stands at i: a character, and by how many it is written.
UnitAt(text, i) ==
  IF text[i] # Escape THEN [c |-> text[i], width |-> 1]
  ELSE IF text[i + 1] # 117 THEN [c |-> Unescape[text[i + 1]], width |-> 2]
  ELSE [c |-> HexRead(text[i + 2]) * 4096 + HexRead(text[i + 3]) * 256
              + HexRead(text[i + 4]) * 16 + HexRead(text[i + 5]),
        width |-> 6]

\* No character: the quote that ends the text was taken for part of one.
Overrun == [c |-> -1, width |-> 0]

StringRead(text) ==
  LET read[i \in 2..(Len(text) + 6)] ==
        IF i = Len(text) THEN <<>>
        ELSE IF i > Len(text) THEN <<Overrun>>
        ELSE LET unit == UnitAt(text, i)
             IN <<unit>> \o read[i + unit.width]
  IN read[2]

\* RFC 8785, 3.2.2.2: as short as JSON allows.
StringReads(text, read) ==
  LET units == StringRead(text)
  IN /\ text[1] = Quote /\ Last(text) = Quote
     /\ Len(units) = Len(read)
     /\ \A i \in DOMAIN units :
          /\ units[i].c = read[i]
          /\ units[i].width = 1 <=> read[i] >= 32 /\ read[i] \notin {Quote, Escape}
          /\ units[i].width = 6 => read[i] \notin Range(Unescape)

-----------------------------------------------------------------------------
\* Whichever text std::to_chars writes for a number, it comes out as one: the
\* one that reads as the number and has the form of ECMAScript, with no digit
\* too many, and an exponent from 1e21 and below 1e-6.
NumberIsItsValue ==
  value.kind = "number" =>
    /\ Cardinality(NumberTexts(value)) = 1
    /\ \A text \in NumberTexts(value) : NumberReads(text, value)

\* A string reads back as it was, and is written in as few characters as JSON
\* can: no other text of it is canonical.
StringIsItsText ==
  value.kind = "string" => StringReads(EscapedString(value.text), value.text)
=============================================================================
