----------------------------- MODULE Base64Url -----------------------------
(***************************************************************************)
(* Unpadded base64url: the strict decoder and the encoder of               *)
(* src/src/signed_document.cpp, and the decoder and the encoder of         *)
(* src/src/crypto.cpp, which does not insist on one spelling. OpenSSL does *)
(* the blocks: three bytes are four digits.                                *)
(*                                                                         *)
(* A byte is four units, a digit three: a unit is two bits in the code,    *)
(* and has four values. A text is a sequence of digits by their values and *)
(* of characters outside the alphabet, of which one is the padding; a      *)
(* failed decoding yields Undecoded.                                       *)
(***************************************************************************)
EXTENDS Integers, SequencesExt

CONSTANT UnitValues

ASSUME Base64Assumption == UnitValues \in {2, 4}

DigitValues == UnitValues * UnitValues * UnitValues
ByteValues == UnitValues * DigitValues
Padding == 0 - 1
Foreign == 0 - 2
Undecoded == <<Foreign>>

IsDigit64(c) == 0 <= c /\ c < DigitValues

\* EVP_DecodeBlock and EVP_EncodeBlock: a block after the other. Padding is
\* read as zero.
DecodeBlocks(padded) ==
  [i \in 1..(3 * (Len(padded) \div 4)) |->
     LET digit(j) == LET c == padded[4 * ((i - 1) \div 3) + j]
                     IN IF c = Padding THEN 0 ELSE c
         bits == ((digit(1) * DigitValues + digit(2)) * DigitValues
                  + digit(3)) * DigitValues + digit(4)
     IN CASE i % 3 = 1 -> bits \div (ByteValues * ByteValues)
          [] i % 3 = 2 -> (bits \div ByteValues) % ByteValues
          [] i % 3 = 0 -> bits % ByteValues]

EncodeBlocks(bytes) ==
  LET byte(i) == IF i <= Len(bytes) THEN bytes[i] ELSE 0 IN
  [i \in 1..(4 * ((Len(bytes) + 2) \div 3)) |->
     LET block == 3 * ((i - 1) \div 4)
         bits == (byte(block + 1) * ByteValues + byte(block + 2)) * ByteValues
                 + byte(block + 3)
     IN CASE i % 4 = 1 -> bits \div (DigitValues * DigitValues * DigitValues)
          [] i % 4 = 2 -> (bits \div (DigitValues * DigitValues)) % DigitValues
          [] i % 4 = 3 -> IF block + 2 > Len(bytes) THEN Padding
                          ELSE (bits \div DigitValues) % DigitValues
          [] i % 4 = 0 -> IF block + 3 > Len(bytes) THEN Padding
                          ELSE bits % DigitValues]

Padded(text) == text \o [i \in 1..((4 - (Len(text) % 4)) % 4) |-> Padding]

\* Padding is taken off the end.
Base64UrlEncode(bytes) ==
  LET encoded == EncodeBlocks(bytes)
  IN SubSeq(encoded, 1, SelectLastInSeq(encoded, LAMBDA c : c # Padding))

\* crypto.cpp: the bits that no byte needs may be any.
DecodeLeniently(text) ==
  IF Len(text) % 4 = 1 \/ \E i \in DOMAIN text : ~IsDigit64(text[i])
    THEN Undecoded
  ELSE SubSeq(DecodeBlocks(Padded(text)), 1, (3 * Len(text)) \div 4)

\* Mutant: what was decoded is not encoded again.
DecodeOnly(text) ==
  IF text = <<>> \/ Len(text) % 4 = 1 \/ \E i \in DOMAIN text : ~IsDigit64(text[i])
    THEN Undecoded
  ELSE SubSeq(DecodeBlocks(Padded(text)), 1, (3 * Len(text)) \div 4)

\* signed_document.cpp: the text has to be the one the bytes are encoded as.
Base64UrlDecode(text) ==
  IF text = <<>> \/ Len(text) % 4 = 1 \/ \E i \in DOMAIN text : ~IsDigit64(text[i])
    THEN Undecoded
  ELSE LET padded == Padded(text)
           padding == Len(padded) - Len(text)
           decoded == SubSeq(DecodeBlocks(padded), 1,
                             3 * (Len(padded) \div 4) - padding)
       IN IF Base64UrlEncode(decoded) = text THEN decoded ELSE Undecoded
=============================================================================
