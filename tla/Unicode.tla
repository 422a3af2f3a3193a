------------------------------ MODULE Unicode ------------------------------
(***************************************************************************)
(* The decoder and the encoders of Utf at work: bytes arrive one at a time *)
(* and are held to table 3-7 of the Unicode standard; code points are      *)
(* counted up and are encoded and decoded.                                 *)
(***************************************************************************)
EXTENDS Utf

CONSTANTS
  Bytes,      \* the bytes that may arrive
  MaxBytes,   \* bound: how many arrive
  Firsts,     \* the code points that are counted from
  BlockSize   \* bound: how far

Byte == {b \in Nat : b <= 255}

ASSUME UnicodeAssumption ==
  /\ Bytes \subseteq Byte /\ Firsts \subseteq Nat
  /\ MaxBytes \in Nat /\ BlockSize \in Nat \ {0}

-----------------------------------------------------------------------------
VARIABLES
  bytes,   \* the bytes that arrived
  code,    \* the code point counted to
  first    \* the one counted from

vars == <<bytes, code, first>>

Init ==
  /\ bytes = <<>>
  /\ first \in Firsts
  /\ code = first

\* Either bytes arrive, or code points are counted.
Receive(b) ==
  /\ code = 0
  /\ Len(bytes) < MaxBytes
  /\ bytes' = Append(bytes, b)
  /\ UNCHANGED <<code, first>>

Count ==
  /\ bytes = <<>>
  /\ code + 1 < first + BlockSize
  /\ code' = code + 1
  /\ UNCHANGED <<bytes, first>>

Next == (\E b \in Bytes : Receive(b)) \/ Count

Spec == Init /\ [][Next]_vars
-----------------------------------------------------------------------------
\* Table 3-7 of the Unicode standard: well-formed sequences, byte by byte.
Trailing(b) == Within(b, 128, 191)

WellFormed(t) ==
  \/ Len(t) = 1 /\ t[1] <= 127
  \/ Len(t) = 2 /\ Within(t[1], 194, 223) /\ Trailing(t[2])
  \/ /\ Len(t) = 3 /\ Trailing(t[3])
     /\ \/ t[1] = 224 /\ Within(t[2], 160, 191)
        \/ Within(t[1], 225, 236) /\ Trailing(t[2])
        \/ t[1] = 237 /\ Within(t[2], 128, 159)
        \/ Within(t[1], 238, 239) /\ Trailing(t[2])
  \/ /\ Len(t) = 4 /\ Trailing(t[3]) /\ Trailing(t[4])
     /\ \/ t[1] = 240 /\ Within(t[2], 144, 191)
        \/ Within(t[1], 241, 243) /\ Trailing(t[2])
        \/ t[1] = 244 /\ Within(t[2], 128, 143)

Scalar(c) == Within(c, 0, 1114111) /\ ~Within(c, 55296, 57343)

TypeOK ==
  /\ bytes \in Seq(Byte) /\ Len(bytes) <= MaxBytes
  /\ first \in Firsts /\ code \in Nat /\ first <= code

\* The decoder takes exactly the well-formed sequences: no overlong form, no
\* half of a surrogate pair, nothing beyond the last code point.
DecodesWellFormed == Decodes(bytes) <=> WellFormed(bytes)

\* Decoded and encoded again, bytes are what arrived.
EncodesWhatItDecodes ==
  Decodes(bytes) =>
    Scalar(CodePoint(bytes)) /\ AppendUtf8(CodePoint(bytes)) = bytes

\* Encoded and decoded again, a code point is what it was: as UTF-8, or as the
\* escapes its UTF-16 units are spelt with.
SurvivesEncoding ==
  Scalar(code) =>
    /\ Decodes(AppendUtf8(code)) /\ CodePoint(AppendUtf8(code)) = code
    /\ \A c \in {code - 1, code, code + 1} :
         UnescapesTo(Utf16Units(code), c) <=> c = code

\* The decoder and the encoders are each other's inverse: two spellings of a
\* member name are equal after decoding only if they denote one text, and a
\* text that is decoded twice, by the scanner and by the serialiser, comes out
\* the same, whichever way it was written in between.
DecodingInvertsEncoding == EncodesWhatItDecodes /\ SurvivesEncoding
=============================================================================
