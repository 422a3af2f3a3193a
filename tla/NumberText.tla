----------------------------- MODULE NumberText -----------------------------
(***************************************************************************)
(* canonical_number of src/src/canonical.cpp: a double is written by       *)
(* std::to_chars, the text is taken apart into its significant digits and  *)
(* the place of its point, and is laid out anew as ECMAScript would.       *)
(*                                                                         *)
(* A finite number is its sign, its significant digits (neither the first  *)
(* nor the last is a zero; zero has none) and n, the place of its point:   *)
(* 0.d1 d2 ... dk times 10 to the n. A number that is not finite is        *)
(* refused before anything is written. Characters are code points.         *)
(***************************************************************************)
EXTENDS Texts

Plus == 43
Minus == 45
Point == 46
Zero == 48
Marker == 101   \* e

IsDigit(c) == 48 <= c /\ c <= 57

Zeros(count) == [i \in 1..count |-> Zero]

\* std::to_string of an exponent.
Decimal(number) ==
  LET digit(unit) == Zero + ((number \div unit) % 10)
  IN IF number < 10 THEN <<digit(1)>>
     ELSE IF number < 100 THEN <<digit(10), digit(1)>>
     ELSE <<digit(100), digit(10), digit(1)>>

-----------------------------------------------------------------------------
(* std::to_chars: digits with a point among them, or before an exponent of *)
(* two digits or more; which of the two is left open. The buffer ends it.  *)

Number(negative, digits, n) ==
  [kind |-> "number", negative |-> negative, digits |-> digits, n |-> n]

Fixed(number) ==
  LET k == Len(number.digits) IN
  IF number.n <= 0
    THEN <<Zero, Point>> \o Zeros(0 - number.n) \o number.digits
  ELSE IF number.n >= k THEN number.digits \o Zeros(number.n - k)
  ELSE SubSeq(number.digits, 1, number.n) \o <<Point>>
       \o Drop(number.digits, number.n)

Scientific(number) ==
  LET exponent == number.n - 1
      size == IF exponent < 0 THEN 0 - exponent ELSE exponent
  IN <<number.digits[1]>>
     \o (IF Len(number.digits) = 1 THEN <<>>
         ELSE <<Point>> \o Drop(number.digits, 1))
     \o <<Marker, IF exponent < 0 THEN Minus ELSE Plus>>
     \o (IF size < 10 THEN <<Zero>> ELSE <<>>) \o Decimal(size)

BufferSize == 128

ToChars(number) ==
  {text \in {(IF number.negative THEN <<Minus>> ELSE <<>>) \o magnitude :
               magnitude \in {Fixed(number), Scientific(number)}} :
     Len(text) <= BufferSize}

-----------------------------------------------------------------------------
(* The representation is taken apart.                                      *)

\* The number that digits are read as, one after the other.
Magnitude(digits) ==
  LET size[i \in 0..Len(digits)] ==
        IF i = 0 THEN 0 ELSE size[i - 1] * 10 + (digits[i] - Zero)
  IN size[Len(digits)]

ParseExponent(text) ==
  LET signed == text # <<>> /\ text[1] \in {Plus, Minus}
      size == Magnitude(IF signed THEN Tail(text) ELSE text)
  IN IF signed /\ text[1] = Minus THEN 0 - size ELSE size

\* Mutant: a number of 22 digits is still written in full.
PlainAt22(n) == -6 < n /\ n <= 22

\* Whether a number is written without an exponent.
Plain(n) == -6 < n /\ n <= 21

\* The digits with a point n places after the first of them would begin.
Layout(digits, n) ==
  LET k == Len(digits)
      exponent == n - 1
  IN
  IF k <= n /\ Plain(n) THEN digits \o Zeros(n - k)
  ELSE IF 0 < n /\ Plain(n)
    THEN SubSeq(digits, 1, n) \o <<Point>> \o Drop(digits, n)
  ELSE IF Plain(n) THEN <<Zero, Point>> \o Zeros(0 - n) \o digits
  ELSE <<digits[1]>>
       \o (IF k > 1 THEN <<Point>> \o Drop(digits, 1) ELSE <<>>)
       \o (IF exponent < 0 THEN <<Marker, Minus>> \o Decimal(0 - exponent)
           ELSE <<Marker, Plus>> \o Decimal(exponent))

FirstNonzero(digits) == SelectInSeq(digits, LAMBDA c : c # Zero)

\* digits without the zeros at either end, of which there may be many.
Significant(digits) ==
  SubSeq(digits, FirstNonzero(digits),
         SelectLastInSeq(digits, LAMBDA c : c # Zero))

\* The digits of a mantissa, without a point.
DigitsOf(mantissa) ==
  LET kept[i \in 0..Len(mantissa)] ==
        IF i = 0 THEN <<>>
        ELSE IF mantissa[i] = Point THEN kept[i - 1]
        ELSE Append(kept[i - 1], mantissa[i])
  IN kept[Len(mantissa)]

CanonicalNumber(representation) ==
  LET negative == representation[1] = Minus
      text == IF negative THEN Tail(representation) ELSE representation
      marker == Find(text, Marker)
      mantissa == SubSeq(text, 1, marker - 1)
      exponent == IF marker > Len(text) THEN 0
                  ELSE ParseExponent(Drop(text, marker))
      digits == DigitsOf(mantissa)
      decimal == Find(mantissa, Point) - 1 + exponent
      leading == FirstNonzero(digits) - 1
  IN (IF negative THEN <<Minus>> ELSE <<>>)
     \o Layout(Significant(digits), decimal - leading)

\* All that may be written for a number: that it is one text is a property.
NumberTexts(number) ==
  IF number.digits = <<>> THEN {<<Zero>>}
  ELSE {CanonicalNumber(text) : text \in ToChars(number)}
=============================================================================
