-------------------------------- MODULE Utf --------------------------------
(***************************************************************************)
(* Decoding and encoding a code point: parse_utf8_code_point, append_utf8  *)
(* and parse_unicode_escape of the scanner (src/src/json.cpp), and         *)
(* decode_code_point and utf16_units of the canonical serialiser           *)
(* (src/src/canonical.cpp), which decodes UTF-8 once more.                 *)
(***************************************************************************)
EXTENDS Integers, Sequences

-----------------------------------------------------------------------------
(* decode_code_point and parse_utf8_code_point.                            *)

Within(n, low, high) == low <= n /\ n <= high

\* Mutant: two bytes may spell what fits in one.
WidthOverlong(lead) ==
  IF lead < 128 THEN 1
  ELSE IF Within(lead, 192, 223) THEN 2
  ELSE IF Within(lead, 224, 239) THEN 3
  ELSE IF Within(lead, 240, 244) THEN 4
  ELSE 0

Width(lead) ==
  IF lead < 128 THEN 1
  ELSE IF Within(lead, 194, 223) THEN 2
  ELSE IF Within(lead, 224, 239) THEN 3
  ELSE IF Within(lead, 240, 244) THEN 4
  ELSE 0

IsContinuation(b) == b \div 64 = 2

\* The bits of a lead byte and of continuation bytes, put together.
CodePoint(t) ==
  IF Len(t) = 1 THEN t[1]
  ELSE IF Len(t) = 2 THEN (t[1] % 32) * 64 + (t[2] % 64)
  ELSE IF Len(t) = 3
    THEN ((t[1] % 16) * 64 + (t[2] % 64)) * 64 + (t[3] % 64)
  ELSE (((t[1] % 8) * 64 + (t[2] % 64)) * 64 + (t[3] % 64)) * 64 + (t[4] % 64)

\* Mutant: the halves of surrogate pairs are let through.
DecodesSurrogates(t) ==
  /\ t # <<>> /\ Width(t[1]) = Len(t)
  /\ \A n \in 2..Len(t) : IsContinuation(t[n])
  /\ Len(t) = 3 => CodePoint(t) >= 2048
  /\ Len(t) = 4 => CodePoint(t) >= 65536
  /\ CodePoint(t) <= 1114111

\* t is decoded, as one code point.
Decodes(t) ==
  /\ t # <<>> /\ Width(t[1]) = Len(t)
  /\ \A n \in 2..Len(t) : IsContinuation(t[n])
  /\ Len(t) = 3 => CodePoint(t) >= 2048
  /\ Len(t) = 4 => CodePoint(t) >= 65536
  /\ ~Within(CodePoint(t), 55296, 57343)
  /\ CodePoint(t) <= 1114111

-----------------------------------------------------------------------------
(* append_utf8, utf16_units and parse_unicode_escape.                      *)

AppendUtf8(c) ==
  IF c <= 127 THEN <<c>>
  ELSE IF c <= 2047 THEN <<192 + (c \div 64), 128 + (c % 64)>>
  ELSE IF c <= 65535
    THEN <<224 + (c \div 4096), 128 + ((c \div 64) % 64), 128 + (c % 64)>>
  ELSE <<240 + (c \div 262144), 128 + ((c \div 4096) % 64),
         128 + ((c \div 64) % 64), 128 + (c % 64)>>

\* Mutant: the offset of the supplementary planes is not taken off.
Utf16UnitsPlain(c) ==
  IF c <= 65535 THEN <<c>> ELSE <<55296 + (c \div 1024), 56320 + (c % 1024)>>

Utf16Units(c) ==
  IF c <= 65535 THEN <<c>>
  ELSE <<55296 + ((c - 65536) \div 1024), 56320 + ((c - 65536) % 1024)>>

High(unit) == Within(unit, 55296, 56319)
Low(unit) == Within(unit, 56320, 57343)

\* The code point that one escape, or a pair of them, stands for.
UnescapesTo(units, c) ==
  \/ /\ Len(units) = 1 /\ ~High(units[1]) /\ ~Low(units[1])
     /\ c = units[1]
  \/ /\ Len(units) = 2 /\ High(units[1]) /\ Low(units[2])
     /\ c = 65536 + (units[1] - 55296) * 1024 + (units[2] - 56320)

=============================================================================
