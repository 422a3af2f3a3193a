----------------------------- MODULE TextProofs -----------------------------
(***************************************************************************)
(* That the decoder of UTF-8 takes exactly the well-formed sequences, that *)
(* every code point survives being encoded, and that strings and numbers   *)
(* of any length read back as what was written.                            *)
(*                                                                         *)
(* A string: Escaped is read by UnitAt (Spells), the escapes stand one     *)
(* after another (Spelt, Written), and the reader, which exists because it *)
(* only goes forward (ReaderIs), steps from one to the next (ReadOnward).  *)
(*                                                                         *)
(* A number: each text of it, of std::to_chars and of Layout, is a         *)
(* mantissa that carries the digits at some place beside its point, and an *)
(* exponent (Carries, Parts). The place and the exponent alone decide what *)
(* canonical_number makes of it (SpreadLaid) and what it is worth          *)
(* (LaidOutReads), so that any two texts of a number come out as one.      *)
(***************************************************************************)
EXTENDS Unicode, CanonicalText, SequenceTheorems, FiniteSetTheorems,
        WellFoundedInduction, TLAPS

-----------------------------------------------------------------------------
(* Bytes and code points.                                                  *)

\* A continuation byte, and the six bits it carries.
LEMMA ContinuationByte ==
  ASSUME NEW b \in Byte
  PROVE  /\ IsContinuation(b) <=> (128 <= b /\ b <= 191)
         /\ IsContinuation(b) => b % 64 = b - 128
BY DEF Byte, IsContinuation

\* The bits of a lead byte.
LEMMA LeadBits ==
  ASSUME NEW b \in Byte
  PROVE  /\ 194 <= b /\ b <= 223 => b % 32 = b - 192
         /\ 224 <= b /\ b <= 239 => b % 16 = b - 224
         /\ 240 <= b /\ b <= 244 => b % 8 = b - 240
BY DEF Byte

-----------------------------------------------------------------------------
(* The four lengths a sequence can have.                                   *)

Correct(t) ==
  /\ Decodes(t) <=> WellFormed(t)
  /\ Decodes(t) => Scalar(CodePoint(t)) /\ AppendUtf8(CodePoint(t)) = t

\* The bits put together, written as their sum.
Sum2(a, b) == (a - 192) * 64 + (b - 128)
Sum3(a, b, c) == (a - 224) * 4096 + (b - 128) * 64 + (c - 128)
Sum4(a, b, c, d) ==
  (a - 240) * 262144 + (b - 128) * 4096 + (c - 128) * 64 + (d - 128)

LEMMA OneByte ==
  ASSUME NEW t \in Seq(Byte), Len(t) = 1
  PROVE  Correct(t)
<1>1. PICK a \in Byte : t = <<a>>
  <2>1. t[1] \in Byte /\ t = <<t[1]>>
    OBVIOUS
  <2> QED
    BY <2>1
<1>2. a \in Nat /\ a <= 255 /\ t[1] = a
  BY <1>1 DEF Byte
<1>3. CodePoint(t) = a
  BY <1>1 DEF CodePoint
<1>4. Width(a) = 1 <=> a <= 127
  BY <1>2 DEF Width
<1>5. Decodes(t) <=> a <= 127
  BY <1>1, <1>2, <1>3, <1>4 DEF Decodes, Within
<1>6. WellFormed(t) <=> a <= 127
  BY <1>1, <1>2 DEF WellFormed
<1>7. a <= 127 => Scalar(a) /\ AppendUtf8(a) = <<a>>
  BY <1>2 DEF Scalar, AppendUtf8, Within
<1> QED
  BY <1>1, <1>3, <1>5, <1>6, <1>7 DEF Correct

LEMMA DecodesTwo ==
  ASSUME NEW a \in Byte, NEW b \in Byte
  PROVE  /\ Decodes(<<a, b>>) <=> WellFormed(<<a, b>>)
         /\ Decodes(<<a, b>>) =>
              Within(a, 194, 223) /\ Trailing(b) /\ CodePoint(<<a, b>>) = Sum2(a, b)
<1>1. a \in Nat /\ a <= 255 /\ b \in Nat /\ b <= 255
  BY DEF Byte
<1>2. Width(a) = 2 <=> Within(a, 194, 223)
  BY <1>1 DEF Width, Within
<1>3. CodePoint(<<a, b>>) = (a % 32) * 64 + (b % 64)
  BY DEF CodePoint
<1>4. Within(a, 194, 223) /\ Trailing(b) => CodePoint(<<a, b>>) = Sum2(a, b)
  BY <1>1, <1>3, ContinuationByte, LeadBits DEF Within, Trailing, Sum2
<1>5. Within(a, 194, 223) /\ Trailing(b) =>
        Sum2(a, b) <= 1114111 /\ ~Within(Sum2(a, b), 55296, 57343)
  BY <1>1 DEF Within, Trailing, Sum2
<1>6. WellFormed(<<a, b>>) <=> Within(a, 194, 223) /\ Trailing(b)
  BY DEF WellFormed
<1>7. IsContinuation(b) <=> Trailing(b)
  BY ContinuationByte DEF Trailing, Within
<1>8. Decodes(<<a, b>>) <=>
        /\ Width(a) = 2 /\ IsContinuation(b)
        /\ ~Within(CodePoint(<<a, b>>), 55296, 57343)
        /\ CodePoint(<<a, b>>) <= 1114111
  <2>1. (\A n \in 2..2 : IsContinuation(<<a, b>>[n])) <=> IsContinuation(b)
    OBVIOUS
  <2> QED
    BY <2>1 DEF Decodes
<1> QED
  BY <1>2, <1>4, <1>5, <1>6, <1>7, <1>8

LEMMA DecodesThree ==
  ASSUME NEW a \in Byte, NEW b \in Byte, NEW c \in Byte
  PROVE  /\ Decodes(<<a, b, c>>) <=> WellFormed(<<a, b, c>>)
         /\ Decodes(<<a, b, c>>) =>
              /\ Within(a, 224, 239) /\ Trailing(b) /\ Trailing(c)
              /\ CodePoint(<<a, b, c>>) = Sum3(a, b, c)
              /\ Sum3(a, b, c) >= 2048 /\ ~Within(Sum3(a, b, c), 55296, 57343)
<1> DEFINE t == <<a, b, c>>
           Shape == Within(a, 224, 239) /\ Trailing(b) /\ Trailing(c)
<1>1. /\ a \in Nat /\ a <= 255 /\ b \in Nat /\ b <= 255
      /\ c \in Nat /\ c <= 255
  BY DEF Byte
<1>2. Width(a) = 3 <=> Within(a, 224, 239)
  BY <1>1 DEF Width, Within
<1>3. CodePoint(t) = ((a % 16) * 64 + (b % 64)) * 64 + (c % 64)
  BY DEF CodePoint
<1>4. Shape => CodePoint(t) = Sum3(a, b, c)
  <2> SUFFICES ASSUME Shape PROVE CodePoint(t) = Sum3(a, b, c)
    OBVIOUS
  <2>1. a % 16 = a - 224 /\ b % 64 = b - 128 /\ c % 64 = c - 128
    BY <1>1, ContinuationByte, LeadBits DEF Within, Trailing
  <2> HIDE DEF t
  <2> QED
    BY <1>1, <1>3, <2>1 DEF Sum3
<1>5. /\ IsContinuation(b) <=> Trailing(b)
      /\ IsContinuation(c) <=> Trailing(c)
  BY ContinuationByte DEF Trailing, Within
<1>6. Decodes(t) <=>
        /\ Width(a) = 3 /\ IsContinuation(b) /\ IsContinuation(c)
        /\ CodePoint(t) >= 2048
        /\ ~Within(CodePoint(t), 55296, 57343)
        /\ CodePoint(t) <= 1114111
  <2>1. (\A n \in 2..3 : IsContinuation(t[n])) <=>
          IsContinuation(b) /\ IsContinuation(c)
    OBVIOUS
  <2> QED
    BY <2>1 DEF Decodes
<1>7. Decodes(t) <=>
        /\ Shape /\ Sum3(a, b, c) >= 2048
        /\ ~Within(Sum3(a, b, c), 55296, 57343)
        /\ Sum3(a, b, c) <= 1114111
  BY <1>2, <1>4, <1>5, <1>6
<1>8. Shape =>
        /\ Sum3(a, b, c) <= 1114111
        /\ Sum3(a, b, c) >= 2048 <=> a # 224 \/ b >= 160
        /\ Within(Sum3(a, b, c), 55296, 57343) <=> a = 237 /\ b >= 160
  BY <1>1 DEF Within, Trailing, Sum3
<1>9. WellFormed(t) <=> Shape /\ (a = 224 => b >= 160) /\ (a = 237 => b <= 159)
  <2>1. WellFormed(t) <=>
          /\ Trailing(c)
          /\ \/ a = 224 /\ Within(b, 160, 191)
             \/ Within(a, 225, 236) /\ Trailing(b)
             \/ a = 237 /\ Within(b, 128, 159)
             \/ Within(a, 238, 239) /\ Trailing(b)
    BY DEF WellFormed
  <2> QED
    BY <1>1, <2>1 DEF Within, Trailing
<1> QED
  BY <1>1, <1>4, <1>7, <1>8, <1>9

LEMMA DecodesFour ==
  ASSUME NEW a \in Byte, NEW b \in Byte, NEW c \in Byte, NEW d \in Byte
  PROVE  /\ Decodes(<<a, b, c, d>>) <=> WellFormed(<<a, b, c, d>>)
         /\ Decodes(<<a, b, c, d>>) =>
              /\ Within(a, 240, 244)
              /\ Trailing(b) /\ Trailing(c) /\ Trailing(d)
              /\ CodePoint(<<a, b, c, d>>) = Sum4(a, b, c, d)
              /\ Within(Sum4(a, b, c, d), 65536, 1114111)
<1> DEFINE t == <<a, b, c, d>>
           Shape == /\ Within(a, 240, 244)
                    /\ Trailing(b) /\ Trailing(c) /\ Trailing(d)
<1>1. /\ a \in Nat /\ a <= 255 /\ b \in Nat /\ b <= 255
      /\ c \in Nat /\ c <= 255 /\ d \in Nat /\ d <= 255
  BY DEF Byte
<1>2. Width(a) = 4 <=> Within(a, 240, 244)
  BY <1>1 DEF Width, Within
<1>3. CodePoint(t) = (((a % 8) * 64 + (b % 64)) * 64 + (c % 64)) * 64 + (d % 64)
  BY DEF CodePoint
<1>4. Shape => CodePoint(t) = Sum4(a, b, c, d)
  <2> SUFFICES ASSUME Shape PROVE CodePoint(t) = Sum4(a, b, c, d)
    OBVIOUS
  <2>1. /\ a % 8 = a - 240 /\ b % 64 = b - 128 /\ c % 64 = c - 128
        /\ d % 64 = d - 128
    BY <1>1, ContinuationByte, LeadBits DEF Within, Trailing
  <2> HIDE DEF t
  <2> QED
    BY <1>1, <1>3, <2>1 DEF Sum4
<1>5. /\ IsContinuation(b) <=> Trailing(b)
      /\ IsContinuation(c) <=> Trailing(c)
      /\ IsContinuation(d) <=> Trailing(d)
  BY ContinuationByte DEF Trailing, Within
<1>6. Decodes(t) <=>
        /\ Width(a) = 4
        /\ IsContinuation(b) /\ IsContinuation(c) /\ IsContinuation(d)
        /\ CodePoint(t) >= 65536
        /\ ~Within(CodePoint(t), 55296, 57343)
        /\ CodePoint(t) <= 1114111
  <2>1. (\A n \in 2..4 : IsContinuation(t[n])) <=>
          IsContinuation(b) /\ IsContinuation(c) /\ IsContinuation(d)
    OBVIOUS
  <2> QED
    BY <2>1 DEF Decodes
<1>7. Decodes(t) <=>
        /\ Shape /\ Sum4(a, b, c, d) >= 65536
        /\ ~Within(Sum4(a, b, c, d), 55296, 57343)
        /\ Sum4(a, b, c, d) <= 1114111
  BY <1>2, <1>4, <1>5, <1>6
<1>8. Shape =>
        /\ Sum4(a, b, c, d) \in Int
        /\ Sum4(a, b, c, d) >= 65536 <=> a # 240 \/ b >= 144
        /\ Sum4(a, b, c, d) <= 1114111 <=> a # 244 \/ b <= 143
  BY <1>1 DEF Within, Trailing, Sum4
<1>9. WellFormed(t) <=> Shape /\ (a = 240 => b >= 144) /\ (a = 244 => b <= 143)
  <2>1. WellFormed(t) <=>
          /\ Trailing(c) /\ Trailing(d)
          /\ \/ a = 240 /\ Within(b, 144, 191)
             \/ Within(a, 241, 243) /\ Trailing(b)
             \/ a = 244 /\ Within(b, 128, 143)
    BY DEF WellFormed
  <2> QED
    BY <1>1, <2>1 DEF Within, Trailing
<1>10. Shape /\ Sum4(a, b, c, d) >= 65536
         => ~Within(Sum4(a, b, c, d), 55296, 57343)
  BY <1>8 DEF Within
<1> HIDE DEF t, Shape
<1>11. Decodes(t) <=> Shape /\ (a = 240 => b >= 144) /\ (a = 244 => b <= 143)
  BY <1>1, <1>7, <1>8, <1>10
<1>12. Decodes(t) => Shape /\ Within(Sum4(a, b, c, d), 65536, 1114111)
  BY <1>7 DEF Within
<1> QED
  BY <1>4, <1>9, <1>11, <1>12 DEF t, Shape

-----------------------------------------------------------------------------
(* Encoding takes apart again what decoding put together.                  *)

LEMMA EncodesTwo ==
  ASSUME NEW a \in Nat, NEW b \in Nat, Within(a, 194, 223), Trailing(b)
  PROVE  Scalar(Sum2(a, b)) /\ AppendUtf8(Sum2(a, b)) = <<a, b>>
<1> DEFINE n == Sum2(a, b)
<1>1. n \in Nat /\ n >= 128 /\ n <= 2047
  BY DEF Sum2, Within, Trailing
<1>2. n \div 64 = a - 192 /\ n % 64 = b - 128
  BY DEF Sum2, Within, Trailing
<1> HIDE DEF n
<1>3. AppendUtf8(n) = <<192 + (n \div 64), 128 + (n % 64)>>
  BY <1>1 DEF AppendUtf8
<1>4. 192 + (n \div 64) = a /\ 128 + (n % 64) = b
  BY <1>2
<1>5. Scalar(n)
  BY <1>1 DEF Scalar, Within
<1> QED
  BY <1>3, <1>4, <1>5 DEF n

LEMMA EncodesThree ==
  ASSUME NEW a \in Nat, NEW b \in Nat, NEW c \in Nat,
         Within(a, 224, 239), Trailing(b), Trailing(c),
         Sum3(a, b, c) >= 2048, ~Within(Sum3(a, b, c), 55296, 57343)
  PROVE  Scalar(Sum3(a, b, c)) /\ AppendUtf8(Sum3(a, b, c)) = <<a, b, c>>
<1> DEFINE n == Sum3(a, b, c)
           m == (a - 224) * 64 + (b - 128)
<1>1. n \in Nat /\ n >= 2048 /\ n <= 65535
  BY DEF Sum3, Within, Trailing
<1>2. m \in Nat /\ n = m * 64 + (c - 128)
  BY DEF Sum3, Within, Trailing
<1>3. n \div 64 = m /\ n % 64 = c - 128 /\ n \div 4096 = a - 224
  BY DEF Sum3, Within, Trailing
<1>4. m % 64 = b - 128
  BY DEF Within, Trailing
<1> HIDE DEF n, m
<1>5. AppendUtf8(n) = <<224 + (n \div 4096), 128 + ((n \div 64) % 64), 128 + (n % 64)>>
  BY <1>1 DEF AppendUtf8
<1>6. /\ 224 + (n \div 4096) = a /\ 128 + ((n \div 64) % 64) = b
      /\ 128 + (n % 64) = c
  BY <1>3, <1>4
<1>7. Scalar(n)
  BY <1>1 DEF Scalar, Within, n
<1> QED
  BY <1>5, <1>6, <1>7 DEF n

LEMMA EncodesFour ==
  ASSUME NEW a \in Nat, NEW b \in Nat, NEW c \in Nat, NEW d \in Nat,
         Within(a, 240, 244), Trailing(b), Trailing(c), Trailing(d),
         Within(Sum4(a, b, c, d), 65536, 1114111)
  PROVE  Scalar(Sum4(a, b, c, d)) /\ AppendUtf8(Sum4(a, b, c, d)) = <<a, b, c, d>>
<1> DEFINE n == Sum4(a, b, c, d)
           m == (a - 240) * 4096 + (b - 128) * 64 + (c - 128)
           l == (a - 240) * 64 + (b - 128)
<1>1. n \in Nat /\ n >= 65536 /\ n <= 1114111
  BY DEF Sum4, Within, Trailing
<1>2. n \div 64 = m /\ n % 64 = d - 128
  BY DEF Sum4, Within, Trailing
<1>3. n \div 4096 = l /\ m % 64 = c - 128
  BY DEF Sum4, Within, Trailing
<1>4. n \div 262144 = a - 240 /\ l % 64 = b - 128
  BY DEF Sum4, Within, Trailing
<1> HIDE DEF n, m, l
<1>5. AppendUtf8(n) =
        <<240 + (n \div 262144), 128 + ((n \div 4096) % 64),
          128 + ((n \div 64) % 64), 128 + (n % 64)>>
  BY <1>1 DEF AppendUtf8
<1>6. /\ 240 + (n \div 262144) = a /\ 128 + ((n \div 4096) % 64) = b
      /\ 128 + ((n \div 64) % 64) = c /\ 128 + (n % 64) = d
  BY <1>2, <1>3, <1>4
<1>7. Scalar(n)
  BY <1>1 DEF Scalar, Within
<1> QED
  BY <1>5, <1>6, <1>7 DEF n

LEMMA OtherLengths ==
  ASSUME NEW t \in Seq(Byte), Len(t) \notin 1..4
  PROVE  ~Decodes(t) /\ ~WellFormed(t)
<1>1. ~WellFormed(t)
  BY DEF WellFormed
<1>2. ASSUME Decodes(t) PROVE FALSE
  <2>1. Width(t[1]) \in {0, 1, 2, 3, 4} /\ Width(t[1]) = Len(t) /\ t # <<>>
    BY <1>2 DEF Decodes, Width
  <2> QED
    BY <2>1
<1> QED
  BY <1>1, <1>2

LEMMA TwoBytes == \A a, b \in Byte : Correct(<<a, b>>)
<1> TAKE a, b \in Byte
<1>1. a \in Nat /\ b \in Nat
  BY DEF Byte
<1> QED
  BY <1>1, DecodesTwo, EncodesTwo DEF Correct

LEMMA ThreeBytes == \A a, b, c \in Byte : Correct(<<a, b, c>>)
<1> TAKE a, b, c \in Byte
<1>1. a \in Nat /\ b \in Nat /\ c \in Nat
  BY DEF Byte
<1> QED
  BY <1>1, DecodesThree, EncodesThree DEF Correct

LEMMA FourBytes == \A a, b, c, d \in Byte : Correct(<<a, b, c, d>>)
<1> TAKE a, b, c, d \in Byte
<1>1. a \in Nat /\ b \in Nat /\ c \in Nat /\ d \in Nat
  BY DEF Byte
<1> QED
  BY <1>1, DecodesFour, EncodesFour DEF Correct

LEMMA EverySequence ==
  ASSUME NEW t \in Seq(Byte)
  PROVE  Correct(t)
<1>0. \A i \in 1..Len(t) : t[i] \in Byte
  BY ElementOfSeq
<1>1. CASE Len(t) = 1
  BY <1>1, OneByte
<1>2. CASE Len(t) = 2
  <2> PICK a, b \in Byte : t[1] = a /\ t[2] = b
    <3>1. \A i \in 1..2 : t[i] \in Byte
      BY <1>2, <1>0
    <3> QED
      BY <3>1
  <2>1. t = <<a, b>>
    <3>1. <<a, b>> \in Seq(Byte) /\ Len(<<a, b>>) = 2
      OBVIOUS
    <3>2. \A i \in 1..2 : t[i] = <<a, b>>[i]
      OBVIOUS
    <3> QED
      BY <1>2, <3>1, <3>2, SeqEqual
  <2> QED
    BY <2>1, TwoBytes
<1>3. CASE Len(t) = 3
  <2> PICK a, b, c \in Byte : t[1] = a /\ t[2] = b /\ t[3] = c
    <3>1. \A i \in 1..3 : t[i] \in Byte
      BY <1>3, <1>0
    <3> QED
      BY <3>1
  <2>1. t = <<a, b, c>>
    <3>1. <<a, b, c>> \in Seq(Byte) /\ Len(<<a, b, c>>) = 3
      OBVIOUS
    <3>2. \A i \in 1..3 : t[i] = <<a, b, c>>[i]
      OBVIOUS
    <3> QED
      BY <1>3, <3>1, <3>2, SeqEqual
  <2> QED
    BY <2>1, ThreeBytes
<1>4. CASE Len(t) = 4
  <2> PICK a, b, c, d \in Byte : t[1] = a /\ t[2] = b /\ t[3] = c /\ t[4] = d
    <3>1. \A i \in 1..4 : t[i] \in Byte
      BY <1>4, <1>0
    <3> QED
      BY <3>1
  <2>1. t = <<a, b, c, d>>
    <3>1. <<a, b, c, d>> \in Seq(Byte) /\ Len(<<a, b, c, d>>) = 4
      OBVIOUS
    <3>2. \A i \in 1..4 : t[i] = <<a, b, c, d>>[i]
      OBVIOUS
    <3> QED
      BY <1>4, <3>1, <3>2, SeqEqual
  <2> QED
    BY <2>1, FourBytes
<1>5. CASE Len(t) \notin 1..4
  BY <1>5, OtherLengths DEF Correct
<1> QED
  BY <1>1, <1>2, <1>3, <1>4, <1>5

-----------------------------------------------------------------------------
(* What encodes a code point is decoded as it.                             *)

\* c is decoded from its UTF-8, and from nothing else's escapes.
Utf8Returns(c) == Decodes(AppendUtf8(c)) /\ CodePoint(AppendUtf8(c)) = c

LEMMA OneByteReturns ==
  ASSUME NEW c \in Nat, c <= 127
  PROVE  Utf8Returns(c)
<1>1. AppendUtf8(c) = <<c>> /\ <<c>> \in Seq(Byte) /\ Len(<<c>>) = 1
  BY DEF AppendUtf8, Byte
<1>2. WellFormed(<<c>>)
  BY DEF WellFormed
<1>3. Decodes(<<c>>)
  BY <1>1, <1>2, EverySequence DEF Correct
<1> QED
  BY <1>1, <1>3 DEF Utf8Returns, CodePoint

LEMMA TwoBytesReturn ==
  ASSUME NEW c \in Nat, 128 <= c, c <= 2047
  PROVE  Utf8Returns(c)
<1> DEFINE a == 192 + (c \div 64)
           b == 128 + (c % 64)
<1>1. /\ a \in Int /\ 194 <= a /\ a <= 223 /\ b \in Int /\ 128 <= b /\ b <= 191
      /\ (a - 192) * 64 + (b - 128) = c
  OBVIOUS
<1>2. AppendUtf8(c) = <<a, b>>
  BY DEF AppendUtf8
<1> HIDE DEF a, b
<1>3. a \in Byte /\ b \in Byte
  BY <1>1 DEF Byte
<1>4. WellFormed(<<a, b>>)
  BY <1>1 DEF WellFormed, Within, Trailing
<1>5. Decodes(<<a, b>>) /\ CodePoint(<<a, b>>) = Sum2(a, b)
  BY <1>3, <1>4, DecodesTwo
<1> QED
  BY <1>1, <1>2, <1>5 DEF Utf8Returns, Sum2

LEMMA ThreeBytesReturn ==
  ASSUME NEW c \in Nat, 2048 <= c, c <= 65535, ~Within(c, 55296, 57343)
  PROVE  Utf8Returns(c)
<1> DEFINE h == c \div 64
           a == 224 + (c \div 4096)
           b == 128 + (h % 64)
           d == 128 + (c % 64)
<1>0. /\ h \in Nat /\ c = h * 64 + (c % 64) /\ 0 <= c % 64 /\ c % 64 <= 63
      /\ c \div 4096 = h \div 64
      /\ h = (h \div 64) * 64 + (h % 64) /\ 0 <= h % 64 /\ h % 64 <= 63
      /\ 0 <= h \div 64 /\ h \div 64 <= 15
  OBVIOUS
<1>1. /\ a \in Int /\ 224 <= a /\ a <= 239 /\ b \in Int /\ 128 <= b /\ b <= 191
      /\ d \in Int /\ 128 <= d /\ d <= 191
      /\ (a - 224) * 4096 + (b - 128) * 64 + (d - 128) = c
  BY <1>0
<1>2. AppendUtf8(c) = <<a, b, d>>
  BY DEF AppendUtf8
<1> HIDE DEF a, b, d, h
<1>3. a \in Byte /\ b \in Byte /\ d \in Byte
  BY <1>1 DEF Byte
<1>4. (a = 224 => b >= 160) /\ (a = 237 => b <= 159)
  BY <1>1 DEF Within
<1>5. WellFormed(<<a, b, d>>)
  <2>1. Trailing(b) /\ Trailing(d)
    BY <1>1 DEF Within, Trailing
  <2>2. \/ a = 224 /\ Within(b, 160, 191)
        \/ Within(a, 225, 236)
        \/ a = 237 /\ Within(b, 128, 159)
        \/ Within(a, 238, 239)
    <3>1. a = 224 \/ (225 <= a /\ a <= 236) \/ a = 237 \/ (238 <= a /\ a <= 239)
      BY <1>1
    <3>2. a = 224 => Within(b, 160, 191)
      BY <1>1, <1>4 DEF Within
    <3>3. a = 237 => Within(b, 128, 159)
      BY <1>1, <1>4 DEF Within
    <3>4. /\ 225 <= a /\ a <= 236 => Within(a, 225, 236)
          /\ 238 <= a /\ a <= 239 => Within(a, 238, 239)
      BY <1>1 DEF Within
    <3> QED
      BY ONLY <3>1, <3>2, <3>3, <3>4
  <2> QED
    BY <2>1, <2>2 DEF WellFormed
<1>6. Decodes(<<a, b, d>>) /\ CodePoint(<<a, b, d>>) = Sum3(a, b, d)
  BY <1>3, <1>5, DecodesThree
<1> QED
  BY <1>1, <1>2, <1>6 DEF Utf8Returns, Sum3

LEMMA FourBytesReturn ==
  ASSUME NEW c \in Nat, 65536 <= c, c <= 1114111
  PROVE  Utf8Returns(c)
<1> DEFINE h == c \div 64
           g == h \div 64
           a == 240 + (c \div 262144)
           b == 128 + ((c \div 4096) % 64)
           d == 128 + (h % 64)
           e == 128 + (c % 64)
<1>0. /\ h \in Nat /\ c = h * 64 + (c % 64) /\ 0 <= c % 64 /\ c % 64 <= 63
      /\ g \in Nat /\ c \div 4096 = g
      /\ h = g * 64 + (h % 64) /\ 0 <= h % 64 /\ h % 64 <= 63
  OBVIOUS
<1>00. /\ c \div 262144 = g \div 64
       /\ g = (g \div 64) * 64 + (g % 64) /\ 0 <= g % 64 /\ g % 64 <= 63
       /\ 0 <= g \div 64 /\ g \div 64 <= 4
  OBVIOUS
<1>01. b = 128 + (g % 64)
  BY <1>0
<1>1. /\ a \in Int /\ 240 <= a /\ a <= 244 /\ b \in Int /\ 128 <= b /\ b <= 191
      /\ d \in Int /\ 128 <= d /\ d <= 191 /\ e \in Int /\ 128 <= e /\ e <= 191
      /\ (a - 240) * 262144 + (b - 128) * 4096 + (d - 128) * 64 + (e - 128) = c
  <2> HIDE DEF h, g, b
  <2> QED
    BY <1>0, <1>00, <1>01
<1>2. AppendUtf8(c) = <<a, b, d, e>>
  BY DEF AppendUtf8
<1> HIDE DEF a, b, d, e, g, h
<1>3. a \in Byte /\ b \in Byte /\ d \in Byte /\ e \in Byte
  BY <1>1 DEF Byte
<1>4. (a = 240 => b >= 144) /\ (a = 244 => b <= 143)
  BY <1>1
<1>5. WellFormed(<<a, b, d, e>>)
  <2>1. /\ Trailing(d) /\ Trailing(e)
        /\ \/ a = 240 /\ Within(b, 144, 191)
           \/ Within(a, 241, 243) /\ Trailing(b)
           \/ a = 244 /\ Within(b, 128, 143)
    BY <1>1, <1>4 DEF Within, Trailing
  <2> QED
    BY <2>1 DEF WellFormed
<1>6. Decodes(<<a, b, d, e>>) /\ CodePoint(<<a, b, d, e>>) = Sum4(a, b, d, e)
  BY <1>3, <1>5, DecodesFour
<1> QED
  BY <1>1, <1>2, <1>6 DEF Utf8Returns, Sum4

\* The units of UTF-16, as escapes, stand for the code point they are units of,
\* and for no other.
LEMMA UnitsReturn ==
  ASSUME NEW c \in Nat, Scalar(c), NEW e
  PROVE  UnescapesTo(Utf16Units(c), e) <=> e = c
<1>1. CASE c <= 65535
  <2>1. Utf16Units(c) = <<c>>
    BY <1>1 DEF Utf16Units
  <2>2. ~High(c) /\ ~Low(c)
    BY <1>1 DEF Scalar, High, Low, Within
  <2> QED
    BY <2>1, <2>2 DEF UnescapesTo
<1>2. CASE ~(c <= 65535)
  <2> DEFINE h == 55296 + ((c - 65536) \div 1024)
             l == 56320 + ((c - 65536) % 1024)
  <2>1. Utf16Units(c) = <<h, l>>
    BY <1>2 DEF Utf16Units
  <2>2. c <= 1114111 /\ c >= 65536
    BY <1>2 DEF Scalar, Within
  <2>3. /\ h \in Int /\ 55296 <= h /\ h <= 56319 /\ l \in Int /\ 56320 <= l /\ l <= 57343
        /\ 65536 + (h - 55296) * 1024 + (l - 56320) = c
    BY <2>2
  <2> HIDE DEF h, l
  <2>4. High(h) /\ Low(l)
    BY <2>3 DEF High, Low, Within
  <2> QED
    BY <2>1, <2>3, <2>4 DEF UnescapesTo
<1> QED
  BY <1>1, <1>2

-----------------------------------------------------------------------------
\* Only bytes arrive.
LEMMA BytesArrive == Spec => [](bytes \in Seq(Byte))
<1>1. Init => bytes \in Seq(Byte)
  BY DEF Init
<1>2. bytes \in Seq(Byte) /\ [Next]_vars => (bytes \in Seq(Byte))'
  BY UnicodeAssumption DEF Next, vars, Receive, Count
<1> QED
  BY <1>1, <1>2, PTL DEF Spec

\* The decoder shared by the scanner and the canonical serialiser takes exactly
\* the well-formed sequences, whatever bytes arrive and however many.
THEOREM WellFormedOnly == Spec => []DecodesWellFormed
<1>1. bytes \in Seq(Byte) => DecodesWellFormed
  BY EverySequence DEF Correct, DecodesWellFormed
<1> QED
  BY <1>1, BytesArrive, PTL

\* What it decodes is a code point that append_utf8 spells with the same bytes.
LEMMA DecodingIsInjective == Spec => []EncodesWhatItDecodes
<1>1. bytes \in Seq(Byte) => EncodesWhatItDecodes
  BY EverySequence DEF Correct, EncodesWhatItDecodes
<1> QED
  BY <1>1, BytesArrive, PTL

\* Every code point, wherever counting starts, comes back from its bytes and
\* from the escapes of its units: nothing is lost between parsing a text and
\* writing it canonically.
LEMMA EncodingLosesNothing == Spec => []SurvivesEncoding
<1>1. Init => code \in Nat
  BY UnicodeAssumption DEF Init
<1>2. code \in Nat /\ [Next]_vars => (code \in Nat)'
  BY UnicodeAssumption DEF Next, vars, Receive, Count
<1>3. code \in Nat => SurvivesEncoding
  <2> SUFFICES ASSUME code \in Nat, Scalar(code)
               PROVE  /\ Utf8Returns(code)
                      /\ \A c \in {code - 1, code, code + 1} :
                           UnescapesTo(Utf16Units(code), c) <=> c = code
    BY DEF SurvivesEncoding, Utf8Returns
  <2>1. code <= 1114111 /\ ~Within(code, 55296, 57343)
    BY DEF Scalar, Within
  <2>2. Utf8Returns(code)
    BY <2>1, OneByteReturns, TwoBytesReturn, ThreeBytesReturn, FourBytesReturn
  <2> QED
    BY <2>2, UnitsReturn
<1> QED
  BY <1>1, <1>2, <1>3, PTL DEF Spec

\* For byte sequences of any length and for every code point: decoding and
\* encoding undo each other.
THEOREM CodingIsInvertible == Spec => []DecodingInvertsEncoding
<1>1. EncodesWhatItDecodes /\ SurvivesEncoding => DecodingInvertsEncoding
  BY DEF DecodingInvertsEncoding
<1> QED
  BY <1>1, DecodingIsInjective, EncodingLosesNothing, PTL

-----------------------------------------------------------------------------
(* Recursion and sequences.                                                *)

LEMMA ElementIs ==
  ASSUME NEW S, NEW s \in Seq(S)
  PROVE  \A i \in 1..Len(s) : s[i] \in S
OBVIOUS

LEMMA FunctionIsSequence ==
  ASSUME NEW S, NEW n \in Nat, NEW f \in [1..n -> S]
  PROVE  f \in Seq(S) /\ Len(f) = n
OBVIOUS

LEMMA LeastNatural ==
  ASSUME NEW T \in SUBSET Nat, T # {}
  PROVE  \E n \in T : \A m \in T : n <= m
<1>1. PICK n \in T : \A m \in T : ~(<<m, n>> \in OpToRel(<, Nat))
  BY NatLessThanWellFounded, WFMin
<1>2. ASSUME NEW m \in T PROVE n <= m
  <2>1. ~(<<m, n>> \in OpToRel(<, Nat))
    BY <1>1
  <2>2. <<m, n>> \in Nat \X Nat
    OBVIOUS
  <2>3. ~(m < n)
    BY <2>1, <2>2 DEF OpToRel
  <2> QED
    BY <2>3
<1> QED
  BY <1>2

\* What is computed along a sequence, a step for each of its places, exists.
Recursion(f, S, N, base, step) ==
  /\ f \in [0..N -> S] /\ f[0] = base
  /\ \A i \in 1..N : f[i] = step[<<f[i - 1], i>>]

LEMMA Recurs ==
  ASSUME NEW S, NEW N \in Nat, NEW base \in S, NEW step \in [S \X (1..N) -> S]
  PROVE  \E f : Recursion(f, S, N, base, step)
<1> DEFINE Good(n) == \E f \in [0..n -> S] : f[0] = base
                        /\ \A i \in 1..n : f[i] = step[<<f[i - 1], i>>]
           T == {n \in Nat : n <= N /\ ~Good(n)}
<1>1. SUFFICES ASSUME T # {} PROVE FALSE
  <2>1. Good(N)
    <3>1. T = {}
      <4> HIDE DEF T
      <4> QED
        BY <1>1
    <3>2. N \in Nat /\ N <= N
      OBVIOUS
    <3> HIDE DEF Good
    <3> QED
      BY <3>1, <3>2
  <2>2. PICK f \in [0..N -> S] : f[0] = base
                        /\ \A i \in 1..N : f[i] = step[<<f[i - 1], i>>]
    BY <2>1
  <2>3. Recursion(f, S, N, base, step)
    BY <2>2 DEF Recursion
  <2> QED
    BY <2>3
<1>2. PICK m \in T : \A n \in T : m <= n
  <2>1. T \in SUBSET Nat
    OBVIOUS
  <2> HIDE DEF T
  <2> QED
    BY <1>1, <2>1, LeastNatural
<1>3. m \in Nat /\ m <= N /\ ~Good(m)
  OBVIOUS
<1>4. CASE m = 0
  <2>1. [i \in 0..0 |-> base] \in [0..0 -> S]
    OBVIOUS
  <2>2. Good(0)
    <3>1. [i \in 0..0 |-> base][0] = base /\ \A i \in 1..0 : FALSE
      OBVIOUS
    <3> QED
      BY <2>1, <3>1
  <2> QED
    BY <1>3, <1>4, <2>2
<1>5. CASE m > 0
  <2>1. m - 1 \in Nat /\ m - 1 <= N /\ m - 1 \notin T
    BY <1>2, <1>3, <1>5
  <2>2. Good(m - 1)
    BY <2>1
  <2>3. PICK f \in [0..(m - 1) -> S] : f[0] = base
                 /\ \A i \in 1..(m - 1) : f[i] = step[<<f[i - 1], i>>]
    BY <2>2
  <2> DEFINE next == step[<<f[m - 1], m>>]
             g == [i \in 0..m |-> IF i = m THEN next ELSE f[i]]
  <2>4. f[m - 1] \in S /\ next \in S
    <3>1. m - 1 \in 0..(m - 1) /\ m \in 1..N
      BY <1>3, <1>5
    <3>2. f[m - 1] \in S
      BY <3>1
    <3>3. <<f[m - 1], m>> \in S \X (1..N)
      BY <3>1, <3>2
    <3> QED
      BY <3>2, <3>3
  <2>5. \A i \in 0..m : i = m \/ i \in 0..(m - 1)
    BY <1>3, <1>5
  <2>6. g \in [0..m -> S]
    <3> HIDE DEF next
    <3> QED
      BY <2>4, <2>5
  <2>7. g[0] = base
    BY <1>3, <1>5, <2>3
  <2>8. ASSUME NEW i \in 1..m PROVE g[i] = step[<<g[i - 1], i>>]
    <3>1. CASE i = m
      <4>1. m - 1 \in 0..m /\ m - 1 # m /\ m \in 0..m
        BY <1>3, <1>5
      <4>2. g[m - 1] = f[m - 1] /\ g[m] = next
        BY <4>1
      <4> QED
        BY <3>1, <4>2
    <3>2. CASE i # m
      <4>1. i \in 1..(m - 1) /\ i \in 0..m /\ i - 1 \in 0..m /\ i - 1 # m
        BY <1>3, <1>5, <3>2
      <4>2. g[i] = f[i] /\ g[i - 1] = f[i - 1]
        BY <3>2, <4>1
      <4> HIDE DEF g
      <4> QED
        BY <2>3, <4>1, <4>2
    <3> QED
      BY <3>1, <3>2
  <2>9. Good(m)
    <3> HIDE DEF g
    <3> QED
      BY <2>6, <2>7, <2>8
  <2> QED
    BY <1>3, <2>9
<1> QED
  BY <1>3, <1>4, <1>5

\* One sequence after another.
Joined(z, x, y) ==
  /\ Len(x) \in Nat /\ Len(y) \in Nat /\ Len(z) = Len(x) + Len(y)
  /\ \A i \in 1..Len(x) : z[i] = x[i]
  /\ \A i \in 1..Len(y) : z[Len(x) + i] = y[i]

LEMMA JoinedIs ==
  ASSUME NEW C, NEW x \in Seq(C), NEW y \in Seq(C)
  PROVE  x \o y \in Seq(C) /\ Joined(x \o y, x, y)
<1>1. PICK z : z = x \o y
  OBVIOUS
<1>2. /\ z \in Seq(C) /\ Len(z) = Len(x) + Len(y)
      /\ \A i \in 1..(Len(x) + Len(y)) : z[i] = IF i <= Len(x) THEN x[i] ELSE y[i - Len(x)]
  BY <1>1, ConcatProperties
<1>3. Len(x) \in Nat /\ Len(y) \in Nat
  OBVIOUS
<1>4. \A i \in 1..Len(x) : z[i] = x[i]
  BY <1>2, <1>3
<1>5. ASSUME NEW i \in 1..Len(y) PROVE z[Len(x) + i] = y[i]
  <2>1. Len(x) + i \in 1..(Len(x) + Len(y)) /\ ~(Len(x) + i <= Len(x)) /\ Len(x) + i - Len(x) = i
    BY <1>3
  <2> QED
    BY <1>2, <2>1
<1> QED
  BY <1>1, <1>2, <1>3, <1>4, <1>5 DEF Joined

-----------------------------------------------------------------------------
(* The escape of one character.                                            *)

Extent(c) == IF c \in Shortened THEN 2 ELSE IF c < 32 THEN 6 ELSE 1

\* e is c, or an escape that is read as c.
Spells(e, c) ==
  /\ e \in Seq(Nat) /\ Len(e) = Extent(c)
  /\ Extent(c) = 1 => e[1] = c /\ c # Escape /\ c # Quote
  /\ Extent(c) = 2 => /\ e[1] = Escape /\ e[2] # 117 /\ e[2] \in DOMAIN Unescape
                     /\ Unescape[e[2]] = c
  /\ Extent(c) = 6 => /\ e[1] = Escape /\ e[2] = 117
                     /\ HexRead(e[3]) * 4096 + HexRead(e[4]) * 256
                          + HexRead(e[5]) * 16 + HexRead(e[6]) = c

LEMMA EscapedIs ==
  ASSUME NEW c \in Nat
  PROVE  Spells(Escaped(c), c)
<1> DEFINE e == Escaped(c)
<1>1. CASE c \in Shortened
  <2>1. e = <<Escape, Short(c)>> /\ Extent(c) = 2
    BY <1>1 DEF Escaped, Extent
  <2>2. /\ Short(c) \in {34, 92, 98, 116, 110, 102, 114}
        /\ Unescape[Short(c)] = c
    BY <1>1 DEF Short, Shortened, Unescape
  <2>3. e \in Seq(Nat) /\ Len(e) = 2 /\ e[1] = Escape /\ e[2] = Short(c)
    BY <2>1, <2>2 DEF Escape
  <2>4. Short(c) # 117 /\ Short(c) \in DOMAIN Unescape
    BY <2>2 DEF Unescape
  <2> HIDE DEF e
  <2> QED
    BY <2>1, <2>2, <2>3, <2>4 DEF Spells, e
<1>2. CASE c \notin Shortened /\ c < 32
  <2> DEFINE p == c \div 16
             q == c % 16
             hp == Hexadecimal(p)
             hq == Hexadecimal(q)
  <2>1. e = <<Escape, 117, 48, 48, hp, hq>> /\ Extent(c) = 6
    BY <1>2 DEF Escaped, Extent
  <2>2. p \in 0..1 /\ q \in 0..15 /\ c = 16 * p + q
    BY <1>2
  <2> HIDE DEF p, q
  <2>3. /\ hp \in Nat /\ hq \in Nat /\ HexRead(hp) = p /\ HexRead(hq) = q
        /\ HexRead(48) = 0
    BY <2>2 DEF Hexadecimal, HexRead
  <2> HIDE DEF hp, hq
  <2>4. /\ e \in Seq(Nat) /\ Len(e) = 6 /\ e[1] = Escape /\ e[2] = 117
        /\ e[3] = 48 /\ e[4] = 48 /\ e[5] = hp /\ e[6] = hq
    BY <2>1, <2>3 DEF Escape
  <2> HIDE DEF e
  <2>5. HexRead(e[3]) * 4096 + HexRead(e[4]) * 256 + HexRead(e[5]) * 16 + HexRead(e[6]) = c
    BY <2>2, <2>3, <2>4
  <2> QED
    BY <2>1, <2>4, <2>5 DEF Spells, e
<1>3. CASE c \notin Shortened /\ ~(c < 32)
  <2>1. e = <<c>> /\ Extent(c) = 1
    BY <1>3 DEF Escaped, Extent
  <2>2. e \in Seq(Nat) /\ Len(e) = 1 /\ e[1] = c
    BY <2>1
  <2>3. c # Escape /\ c # Quote
    BY <1>3 DEF Shortened, Escape, Quote
  <2> HIDE DEF e
  <2> QED
    BY <2>1, <2>2, <2>3 DEF Spells, e
<1> QED
  BY <1>1, <1>2, <1>3

-----------------------------------------------------------------------------
(* The escapes of a text, one after another.                               *)

\* u is made of the escapes of the first n characters of t; ends says how far
\* each of them reaches.
Spelt(u, t, n, ends) ==
  /\ u \in Seq(Nat) /\ ends \in [0..n -> Nat] /\ ends[0] = 0 /\ ends[n] = Len(u)
  /\ \A k \in 1..n :
       /\ ends[k] = ends[k - 1] + Extent(t[k]) /\ ends[k] <= Len(u)
       /\ \A j \in 1..Extent(t[k]) : u[ends[k - 1] + j] = Escaped(t[k])[j]

LEMMA SpeltGrows ==
  ASSUME NEW t \in Seq(Nat), NEW n \in 1..Len(t), NEW u, NEW ends,
         Spelt(u, t, n - 1, ends)
  PROVE  \E to : Spelt(u \o Escaped(t[n]), t, n, to)
<1> DEFINE e == Escaped(t[n])
           w == Extent(t[n])
           v == u \o e
           to == [k \in 0..n |-> IF k = n THEN ends[n - 1] + w ELSE ends[k]]
<1>1. /\ u \in Seq(Nat) /\ ends \in [0..(n - 1) -> Nat] /\ ends[0] = 0
      /\ ends[n - 1] = Len(u)
      /\ \A k \in 1..(n - 1) :
           /\ ends[k] = ends[k - 1] + Extent(t[k]) /\ ends[k] <= Len(u)
           /\ \A j \in 1..Extent(t[k]) : u[ends[k - 1] + j] = Escaped(t[k])[j]
  BY DEF Spelt
<1>2. e \in Seq(Nat) /\ Len(e) = w
  <2>1. t[n] \in Nat
    OBVIOUS
  <2>2. Spells(e, t[n])
    BY <2>1, EscapedIs
  <2> QED
    BY <2>2 DEF Spells
<1>3. \A c \in Nat : Extent(c) \in {1, 2, 6}
  BY DEF Extent
<1>4. w \in {1, 2, 6} /\ n \in Nat \ {0} /\ Len(u) \in Nat
  <2>1. t[n] \in Nat
    OBVIOUS
  <2> QED
    BY <1>1, <1>3, <2>1
<1> HIDE DEF e, w
<1>5. v \in Seq(Nat) /\ Joined(v, u, e)
  BY <1>1, <1>2, JoinedIs
<1> HIDE DEF v
<1>6. /\ Len(v) = Len(u) + w
      /\ \A i \in 1..Len(u) : v[i] = u[i]
      /\ \A j \in 1..w : v[Len(u) + j] = e[j]
  BY <1>2, <1>5 DEF Joined
<1>7. \A k \in 0..n : k = n \/ (k \in 0..(n - 1) /\ k # n)
  BY <1>4
<1>8. ends[n - 1] + w \in Nat
  BY <1>1, <1>4
<1>9. to \in [0..n -> Nat]
  BY <1>1, <1>7, <1>8
<1>10. /\ to[n] = Len(v) /\ to[n - 1] = Len(u) /\ to[0] = 0
       /\ \A k \in 0..(n - 1) : to[k] = ends[k]
  <2>1. n \in 0..n /\ n - 1 \in 0..n /\ n - 1 # n /\ 0 \in 0..n /\ 0 # n
    BY <1>4
  <2>2. \A k \in 0..(n - 1) : k \in 0..n /\ k # n
    BY <1>4
  <2>3. to[n] = ends[n - 1] + w /\ to[n - 1] = ends[n - 1] /\ to[0] = ends[0]
    BY <2>1
  <2>4. \A k \in 0..(n - 1) : to[k] = ends[k]
    BY <2>2
  <2> QED
    BY <1>1, <1>6, <2>3, <2>4
<1> HIDE DEF to
<1>11. ASSUME NEW k \in 1..n
       PROVE  /\ to[k] = to[k - 1] + Extent(t[k]) /\ to[k] <= Len(v)
              /\ \A j \in 1..Extent(t[k]) : v[to[k - 1] + j] = Escaped(t[k])[j]
  <2>1. CASE k = n
    <3>1. Extent(t[k]) = w /\ Escaped(t[k]) = e /\ to[k - 1] = Len(u) /\ to[k] = Len(v)
      BY <1>10, <2>1 DEF w, e
    <3>2. /\ to[k] = to[k - 1] + Extent(t[k])
          /\ \A j \in 1..Extent(t[k]) : v[to[k - 1] + j] = Escaped(t[k])[j]
      BY <1>6, <3>1
    <3>3. to[k] <= Len(v)
      BY <1>4, <1>6, <3>1
    <3> QED
      BY <3>2, <3>3
  <2>2. CASE k # n
    <3>1. k \in 1..(n - 1) /\ k \in 0..(n - 1) /\ k - 1 \in 0..(n - 1)
      BY <1>4, <2>2
    <3>2. to[k] = ends[k] /\ to[k - 1] = ends[k - 1]
      BY <1>10, <3>1
    <3>3. PICK a \in Nat : a = ends[k - 1]
      BY <1>1, <3>1
    <3>4. PICK x \in Nat : x = Extent(t[k])
      <4>1. t[k] \in Nat
        OBVIOUS
      <4>2. Extent(t[k]) \in Nat
        BY <1>3, <4>1
      <4> QED
        BY <4>2
    <3>5. ends[k] = a + x /\ a + x <= Len(u)
      BY <1>1, <3>1, <3>3, <3>4
    <3>6. \A j \in 1..x : u[a + j] = Escaped(t[k])[j]
      BY <1>1, <3>1, <3>3, <3>4
    <3>7. \A j \in 1..x : a + j \in 1..Len(u)
      BY <1>4, <3>5
    <3>8. \A j \in 1..x : v[a + j] = Escaped(t[k])[j]
      BY <1>6, <3>6, <3>7
    <3>9. ends[k] <= Len(v)
      BY <1>4, <1>6, <3>5
    <3> QED
      BY <3>2, <3>3, <3>4, <3>5, <3>8, <3>9
  <2> QED
    BY <2>1, <2>2
<1>12. Spelt(v, t, n, to)
  BY <1>5, <1>9, <1>10, <1>11 DEF Spelt
<1> QED
  BY <1>12 DEF v, e

\* The text between the quotes.
Inside(t) == FlattenSeq([i \in DOMAIN t |-> Escaped(t[i])])

LEMMA InsideIs ==
  ASSUME NEW t \in Seq(Nat)
  PROVE  \E ends : Spelt(Inside(t), t, Len(t), ends)
<1> DEFINE N == Len(t)
           S == Seq(Nat)
           seqs == [i \in DOMAIN t |-> Escaped(t[i])]
           step == [x \in S \X (1..N) |-> x[1] \o Escaped(t[x[2]])]
           E(f, i) == IF i = 1 THEN seqs[i] ELSE f[i - 1] \o seqs[i]
           h == CHOOSE f : f = [i \in 1..N |-> E(f, i)]
<1>1. N \in Nat /\ <<>> \in S /\ DOMAIN t = 1..N
  BY EmptySeq
<1>2. \A n \in 1..N : Escaped(t[n]) \in S
  <2>1. ASSUME NEW n \in 1..N PROVE Escaped(t[n]) \in S
    <3>1. t[n] \in Nat
      OBVIOUS
    <3>2. Spells(Escaped(t[n]), t[n])
      BY <3>1, EscapedIs
    <3> QED
      BY <3>2 DEF Spells
  <2> QED
    BY <2>1
<1>3. seqs = [i \in 1..N |-> Escaped(t[i])] /\ Len(seqs) = N /\ seqs \in Seq(S)
  <2>1. seqs = [i \in 1..N |-> Escaped(t[i])]
    BY <1>1
  <2>2. seqs \in [1..N -> S]
    BY <1>2, <2>1
  <2> HIDE DEF seqs
  <2>3. Len(seqs) = N /\ seqs \in Seq(S)
    BY ONLY <1>1, <2>2
  <2> QED
    BY <2>1, <2>3
<1>4. \A n \in 1..N : seqs[n] = Escaped(t[n])
  BY <1>3
<1> HIDE DEF seqs
<1>5. CASE N = 0
  <2>1. Inside(t) = <<>>
    <3>1. Inside(t) = seqs
      BY <1>3, <1>5 DEF Inside, FlattenSeq, seqs
    <3>2. seqs = <<>>
      BY <1>3, <1>5
    <3> QED
      BY <3>1, <3>2
  <2>2. Spelt(<<>>, t, N, [k \in 0..0 |-> 0])
    BY <1>1, <1>5 DEF Spelt
  <2> QED
    BY <2>1, <2>2
<1>6. CASE N # 0
  <2>1. step \in [S \X (1..N) -> S]
    <3>1. ASSUME NEW x \in S \X (1..N) PROVE x[1] \o Escaped(t[x[2]]) \in S
      <4>1. x[1] \in S /\ Escaped(t[x[2]]) \in S
        BY <1>2
      <4> QED
        BY <4>1, ConcatProperties
    <3> HIDE DEF S
    <3> QED
      BY <3>1
  <2>2. PICK g : Recursion(g, S, N, <<>>, step)
    <3> HIDE DEF S, step, N
    <3> QED
      BY <1>1, <2>1, Recurs
  <2>3. /\ g \in [0..N -> S] /\ g[0] = <<>>
        /\ \A n \in 1..N : g[n] = g[n - 1] \o Escaped(t[n])
    <3>1. /\ g \in [0..N -> S] /\ g[0] = <<>>
          /\ \A n \in 1..N : g[n] = step[<<g[n - 1], n>>]
      <4> HIDE DEF S, step
      <4> QED
        BY <2>2 DEF Recursion
    <3>2. ASSUME NEW n \in 1..N PROVE step[<<g[n - 1], n>>] = g[n - 1] \o Escaped(t[n])
      <4>1. n - 1 \in 0..N
        BY <1>1
      <4> HIDE DEF S
      <4>2. <<g[n - 1], n>> \in S \X (1..N)
        BY <3>1, <4>1
      <4> QED
        BY <4>2
    <3> QED
      BY <3>1, <3>2
  <2>4. \E f : f = [i \in 1..N |-> E(f, i)]
    <3> DEFINE f == [i \in 1..N |-> g[i]]
    <3>1. ASSUME NEW i \in 1..N PROVE f[i] = E(f, i)
      <4>1. g[i] = g[i - 1] \o Escaped(t[i]) /\ seqs[i] = Escaped(t[i])
        BY <1>4, <2>3
      <4>2. CASE i = 1
        <5>1. g[i - 1] = <<>>
          BY <2>3, <4>2
        <5>2. <<>> \o Escaped(t[i]) = Escaped(t[i])
          BY <1>2, ConcatEmptySeq
        <5> QED
          BY <4>1, <4>2, <5>1, <5>2
      <4>3. CASE i # 1
        <5>1. i - 1 \in 1..N
          BY <1>1, <4>3
        <5>2. f[i - 1] = g[i - 1]
          BY <5>1
        <5> QED
          BY <4>1, <4>3, <5>2
      <4> QED
        BY <4>2, <4>3
    <3> HIDE DEF E
    <3>2. f = [i \in 1..N |-> E(f, i)]
      BY <3>1
    <3> HIDE DEF f
    <3> QED
      BY <3>2
  <2>5. h = [i \in 1..N |-> E(h, i)]
    <3> HIDE DEF E
    <3> QED
      BY <2>4
  <2>6. Inside(t) = h[N]
    BY <1>3, <1>6 DEF Inside, FlattenSeq, seqs
  <2> HIDE DEF h
  <2>7. \A i \in 1..N : h[i] = E(h, i)
    <3> HIDE DEF E
    <3> QED
      BY <2>5
  <2> DEFINE T == {n \in Nat : n >= 1 /\ n <= N /\ ~\E ends : Spelt(h[n], t, n, ends)}
  <2>8. ASSUME T # {} PROVE FALSE
    <3>1. PICK n \in T : \A m \in T : n <= m
      <4>1. T \in SUBSET Nat
        OBVIOUS
      <4> HIDE DEF T
      <4> QED
        BY <2>8, <4>1, LeastNatural
    <3>2. n \in Nat /\ n >= 1 /\ n <= N /\ ~\E ends : Spelt(h[n], t, n, ends)
      BY <3>1
    <3>3. n \in 1..N
      BY <1>1, <3>2
    <3>4. h[n] = E(h, n) /\ seqs[n] = Escaped(t[n])
      BY <1>4, <2>7, <3>3
    <3>5. CASE n = 1
      <4>1. h[n] = <<>> \o Escaped(t[n])
        <5>1. h[n] = Escaped(t[n])
          BY <3>4, <3>5
        <5> QED
          BY <1>2, <3>3, <5>1, ConcatEmptySeq
      <4>2. Spelt(<<>>, t, n - 1, [k \in 0..0 |-> 0])
        BY <1>1, <3>5 DEF Spelt
      <4>3. \E to : Spelt(<<>> \o Escaped(t[n]), t, n, to)
        BY <3>3, <4>2, SpeltGrows
      <4> QED
        BY <3>2, <4>1, <4>3
    <3>6. CASE n # 1
      <4>1. h[n] = h[n - 1] \o Escaped(t[n])
        BY <3>4, <3>6
      <4>2. n - 1 \in Nat /\ n - 1 >= 1 /\ n - 1 <= N /\ ~(n <= n - 1)
        BY <1>1, <3>2, <3>6
      <4>3. n - 1 \notin T
        <5> HIDE DEF T
        <5> QED
          BY <3>1, <4>2
      <4>4. PICK ends : Spelt(h[n - 1], t, n - 1, ends)
        BY <4>2, <4>3
      <4>5. \E to : Spelt(h[n - 1] \o Escaped(t[n]), t, n, to)
        BY <3>3, <4>4, SpeltGrows
      <4> QED
        BY <3>2, <4>1, <4>5
    <3> QED
      BY <3>5, <3>6
  <2>9. N \in Nat /\ N >= 1 /\ N <= N /\ N \notin T
    <3>1. T = {}
      <4> HIDE DEF T
      <4> QED
        BY <2>8
    <3> HIDE DEF T
    <3> QED
      BY <1>1, <1>6, <3>1
  <2>10. \E ends : Spelt(h[N], t, N, ends)
    BY <2>9
  <2> QED
    BY <2>6, <2>10
<1> QED
  BY <1>5, <1>6

-----------------------------------------------------------------------------
(* The text with its quotes, and the reader along it.                      *)

\* S is the text of t in quotes; ends says how far each character reaches.
Written(S, t, ends) ==
  /\ S \in Seq(Nat) /\ Len(S) = ends[Len(t)] + 2
  /\ S[1] = Quote /\ S[Len(S)] = Quote
  /\ ends \in [0..Len(t) -> Nat] /\ ends[0] = 0
  /\ \A k \in 1..Len(t) :
       /\ ends[k] = ends[k - 1] + Extent(t[k]) /\ ends[k] <= ends[Len(t)]
       /\ \A j \in 1..Extent(t[k]) : S[1 + ends[k - 1] + j] = Escaped(t[k])[j]

LEMMA WrittenIs ==
  ASSUME NEW t \in Seq(Nat)
  PROVE  \E ends : Written(EscapedString(t), t, ends)
<1> DEFINE u == Inside(t)
           v == <<Quote>> \o u
           S == v \o <<Quote>>
<1>1. PICK ends : Spelt(u, t, Len(t), ends)
  BY InsideIs
<1>2. EscapedString(t) = S
  BY DEF EscapedString, Inside
<1> HIDE DEF u
<1>3. /\ u \in Seq(Nat) /\ ends \in [0..Len(t) -> Nat] /\ ends[0] = 0
      /\ ends[Len(t)] = Len(u)
      /\ \A k \in 1..Len(t) :
           /\ ends[k] = ends[k - 1] + Extent(t[k]) /\ ends[k] <= Len(u)
           /\ \A j \in 1..Extent(t[k]) : u[ends[k - 1] + j] = Escaped(t[k])[j]
  BY <1>1 DEF Spelt
<1>4. PICK q : q = <<Quote>>
  OBVIOUS
<1>5. q \in Seq(Nat) /\ Len(q) = 1 /\ q[1] = Quote
  BY <1>4 DEF Quote
<1>6. v = q \o u /\ S = v \o q
  BY <1>4
<1> HIDE DEF v, S
<1>7. v \in Seq(Nat) /\ Joined(v, q, u)
  BY <1>3, <1>5, <1>6, JoinedIs
<1>8. S \in Seq(Nat) /\ Joined(S, v, q)
  BY <1>5, <1>6, <1>7, JoinedIs
<1>9. PICK l \in Nat : l = Len(u)
  BY <1>3
<1>10. Len(v) = 1 + l /\ v[1] = Quote /\ \A i \in 1..l : v[1 + i] = u[i]
  BY <1>5, <1>7, <1>9 DEF Joined
<1>11. Len(S) = l + 2 /\ S[l + 2] = Quote /\ \A i \in 1..(l + 1) : S[i] = v[i]
  <2>1. /\ Len(S) = Len(v) + Len(q) /\ \A i \in 1..Len(v) : S[i] = v[i]
        /\ \A i \in 1..Len(q) : S[Len(v) + i] = q[i]
    BY <1>8 DEF Joined
  <2>2. S[1 + l + 1] = Quote
    BY <1>5, <1>10, <2>1
  <2> QED
    BY <1>5, <1>10, <2>1, <2>2
<1>12. S[1] = Quote /\ \A i \in 1..l : S[1 + i] = u[i]
  <2>1. 1 \in 1..(l + 1) /\ \A i \in 1..l : 1 + i \in 1..(l + 1)
    BY <1>9
  <2> QED
    BY <1>10, <1>11, <2>1
<1>13. ASSUME NEW k \in 1..Len(t)
       PROVE  /\ ends[k] = ends[k - 1] + Extent(t[k]) /\ ends[k] <= ends[Len(t)]
              /\ \A j \in 1..Extent(t[k]) : S[1 + ends[k - 1] + j] = Escaped(t[k])[j]
  <2>1. t[k] \in Nat /\ k - 1 \in 0..Len(t)
    OBVIOUS
  <2>2. PICK x \in Nat : x = Extent(t[k])
    BY <2>1 DEF Extent
  <2>3. PICK a \in Nat : a = ends[k - 1]
    BY <1>3, <2>1
  <2>4. a + x <= l
    BY <1>3, <1>9, <2>2, <2>3
  <2>6. \A j \in 1..x : u[a + j] = Escaped(t[k])[j]
    BY <1>3, <2>2, <2>3
  <2>5. ASSUME NEW j \in 1..x PROVE S[1 + a + j] = Escaped(t[k])[j]
    <3>0. l \in Nat /\ x \in Nat /\ a \in Nat /\ j \in 1..x
      BY <1>9, <2>2, <2>3
    <3>1. a + j \in 1..l /\ 1 + a + j = 1 + (a + j)
      BY ONLY <2>4, <3>0
    <3> QED
      BY <1>12, <2>6, <3>1
  <2> QED
    BY <1>3, <2>2, <2>3, <2>5
<1>14. Written(S, t, ends)
  BY <1>3, <1>8, <1>9, <1>11, <1>12, <1>13 DEF Written
<1> QED
  BY <1>2, <1>14 DEF S

Unit(c) == [c |-> c, width |-> Extent(c)]

LEMMA UnitAtIs ==
  ASSUME NEW t \in Seq(Nat), NEW S, NEW ends, Written(S, t, ends),
         NEW k \in 1..Len(t)
  PROVE  UnitAt(S, 2 + ends[k - 1]) = Unit(t[k])
<1> DEFINE c == t[k]
           e == Escaped(c)
<1>1. c \in Nat /\ k - 1 \in 0..Len(t)
  OBVIOUS
<1>2. Spells(e, c)
  BY <1>1, EscapedIs
<1>3. PICK a \in Nat : a = 2 + ends[k - 1]
  <2>1. ends \in [0..Len(t) -> Nat]
    BY DEF Written
  <2>2. ends[k - 1] \in Nat
    BY <1>1, <2>1
  <2> QED
    BY <2>2
<1>4. \A j \in 1..Extent(c) : S[a + (j - 1)] = e[j]
  <2>1. \A j \in 1..Extent(t[k]) : S[1 + ends[k - 1] + j] = Escaped(t[k])[j]
    BY DEF Written
  <2>2. ends[k - 1] \in Nat
    BY <1>1 DEF Written
  <2>3. Extent(c) \in Nat
    BY <1>1 DEF Extent
  <2>4. \A j \in 1..Extent(c) : 1 + ends[k - 1] + j = a + (j - 1)
    <3>1. \A b \in Nat, w \in Nat : a = 2 + b => \A j \in 1..w : 1 + b + j = a + (j - 1)
      OBVIOUS
    <3> QED
      BY ONLY <1>3, <2>2, <2>3, <3>1
  <2> HIDE DEF e
  <2> QED
    BY <2>1, <2>4 DEF e
<1> HIDE DEF c, e
<1>5. Extent(c) \in {1, 2, 6}
  BY <1>1 DEF Extent
<1>6. CASE Extent(c) = 1
  <2>1. S[a] = c /\ c # Escape
    <3>1. 1 \in 1..Extent(c) /\ a + (1 - 1) = a
      BY <1>6
    <3> QED
      BY <1>2, <1>4, <1>6, <3>1 DEF Spells
  <2> QED
    BY <1>3, <1>6, <2>1 DEF UnitAt, Unit, c
<1>7. CASE Extent(c) = 2
  <2>1. S[a] = e[1] /\ S[a + 1] = e[2]
    <3>1. /\ 1 \in 1..Extent(c) /\ a + (1 - 1) = a
          /\ 2 \in 1..Extent(c) /\ a + (2 - 1) = a + 1
      BY <1>7
    <3> QED
      BY <1>4, <3>1
  <2>2. S[a] = Escape /\ S[a + 1] # 117 /\ Unescape[S[a + 1]] = c
    BY <1>2, <1>7, <2>1 DEF Spells
  <2>3. UnitAt(S, a) = [c |-> c, width |-> 2]
    BY <2>2 DEF UnitAt
  <2> QED
    BY <1>3, <1>7, <2>3 DEF Unit, c
<1>8. CASE Extent(c) = 6
  <2>1. /\ S[a] = e[1] /\ S[a + 1] = e[2] /\ S[a + 2] = e[3]
        /\ S[a + 3] = e[4] /\ S[a + 4] = e[5] /\ S[a + 5] = e[6]
    <3>1. /\ 1 \in 1..Extent(c) /\ a + (1 - 1) = a
          /\ 2 \in 1..Extent(c) /\ a + (2 - 1) = a + 1
          /\ 3 \in 1..Extent(c) /\ a + (3 - 1) = a + 2
          /\ 4 \in 1..Extent(c) /\ a + (4 - 1) = a + 3
          /\ 5 \in 1..Extent(c) /\ a + (5 - 1) = a + 4
          /\ 6 \in 1..Extent(c) /\ a + (6 - 1) = a + 5
      BY <1>8
    <3> QED
      BY <1>4, <3>1
  <2>2. /\ S[a] = Escape /\ S[a + 1] = 117
        /\ HexRead(S[a + 2]) * 4096 + HexRead(S[a + 3]) * 256
             + HexRead(S[a + 4]) * 16 + HexRead(S[a + 5]) = c
    BY <1>2, <1>8, <2>1 DEF Spells
  <2>3. UnitAt(S, a) = [c |-> c, width |-> 6]
    BY <2>2 DEF UnitAt
  <2> QED
    BY <1>3, <1>8, <2>3 DEF Unit, c
<1> QED
  BY <1>5, <1>6, <1>7, <1>8

\* What the reader has from i on, if read says what it has from later places.
Onward(S, read, i) ==
  IF i = Len(S) THEN <<>>
  ELSE IF i > Len(S) THEN <<Overrun>>
  ELSE <<UnitAt(S, i)>> \o read[i + UnitAt(S, i).width]

Reading(S, read) == read = [i \in 2..(Len(S) + 6) |-> Onward(S, read, i)]

\* The reader goes forward, and never by more than six places.
LEMMA ReaderIs ==
  ASSUME NEW S \in Seq(Nat), Len(S) >= 2
  PROVE  \E read : Reading(S, read) /\ StringRead(S) = read[2]
<1>1. PICK L \in Nat : L = Len(S) /\ L >= 2
  OBVIOUS
<1> DEFINE M == L + 6
           Good(n) == \E f : f = [i \in (M - n)..M |-> Onward(S, f, i)]
           T == {n \in Nat : n <= M - 2 /\ ~Good(n)}
<1>2. \A i : UnitAt(S, i).width \in {1, 2, 6}
  BY DEF UnitAt
<1>3. ASSUME T # {} PROVE FALSE
  <2>1. PICK n \in T : \A m \in T : n <= m
    <3>1. T \in SUBSET Nat
      OBVIOUS
    <3> HIDE DEF T
    <3> QED
      BY <1>3, <3>1, LeastNatural
  <2>2. n \in Nat /\ n <= M - 2 /\ ~Good(n)
    BY <2>1
  <2>3. CASE n = 0
    <3> DEFINE f == [i \in (M - 0)..M |-> <<Overrun>>]
    <3>1. ASSUME NEW i \in (M - 0)..M PROVE Onward(S, f, i) = <<Overrun>>
      <4>1. ~(i = Len(S)) /\ i > Len(S)
        BY <1>1
      <4> QED
        BY <4>1 DEF Onward
    <3> HIDE DEF M
    <3>2. f = [i \in (M - 0)..M |-> Onward(S, f, i)]
      BY <3>1
    <3>3. Good(0)
      <4> HIDE DEF f
      <4> QED
        BY <3>2
    <3> QED
      BY <2>2, <2>3, <3>3
  <2>4. CASE n > 0
    <3>1. n - 1 \in Nat /\ n - 1 <= M - 2 /\ ~(n <= n - 1)
      BY <1>1, <2>2, <2>4
    <3>2. n - 1 \notin T
      <4> HIDE DEF T
      <4> QED
        BY <2>1, <3>1
    <3>3. Good(n - 1)
      BY <3>1, <3>2
    <3>4. PICK f : f = [i \in (M - (n - 1))..M |-> Onward(S, f, i)]
      BY <3>3
    <3> DEFINE p == M - n
               here == Onward(S, f, p)
               g == [i \in p..M |-> IF i = p THEN here ELSE f[i]]
    <3>5. p \in Nat /\ p >= 2 /\ M - (n - 1) = p + 1 /\ p + 1 <= M
      BY <1>1, <2>2, <2>4
    <3>6. \A i \in (p + 1)..M : f[i] = Onward(S, f, i)
      <4> HIDE DEF p, M
      <4>1. f = [i \in (p + 1)..M |-> Onward(S, f, i)]
        BY <3>4, <3>5
      <4> QED
        BY <4>1
    <3>7. ASSUME NEW i \in p..M PROVE g[i] = Onward(S, g, i)
      <4>1. g[i] = Onward(S, f, i)
        <5>1. CASE i = p
          BY <5>1
        <5>2. CASE i # p
          <6>1. i \in (p + 1)..M
            BY <1>1, <2>2, <3>5, <5>2
          <6> HIDE DEF p, M, here
          <6>2. g[i] = f[i]
            BY <5>2
          <6> QED
            BY <3>6, <6>1, <6>2
        <5> QED
          BY <5>1, <5>2
      <4>2. Onward(S, f, i) = Onward(S, g, i)
        <5>1. CASE i = Len(S)
          BY <5>1 DEF Onward
        <5>2. CASE i # Len(S) /\ i > Len(S)
          BY <5>2 DEF Onward
        <5>3. CASE i # Len(S) /\ ~(i > Len(S))
          <6>1. PICK w \in {1, 2, 6} : w = UnitAt(S, i).width
            BY <1>2
          <6>2. i + w \in p..M /\ i + w # p
            <7>1. w \in Nat /\ w > 0 /\ w <= 6
              BY <6>1
            <7>2. i \in Int /\ i >= p /\ i < L
              BY <1>1, <3>5, <5>3
            <7> HIDE DEF p
            <7> QED
              BY <1>1, <3>5, <7>1, <7>2
          <6> HIDE DEF p, M, here
          <6>3. g[i + w] = f[i + w]
            BY <6>2
          <6> HIDE DEF g
          <6>4. Onward(S, f, i) = <<UnitAt(S, i)>> \o f[i + w]
            BY <5>3, <6>1 DEF Onward
          <6>5. Onward(S, g, i) = <<UnitAt(S, i)>> \o g[i + w]
            BY <5>3, <6>1 DEF Onward
          <6> QED
            BY <6>3, <6>4, <6>5
        <5> QED
          BY <5>1, <5>2, <5>3
      <4> QED
        BY <4>1, <4>2
    <3>8. g = [i \in (M - n)..M |-> Onward(S, g, i)]
      <4>1. g = [i \in p..M |-> g[i]]
        <5> HIDE DEF p, M, here
        <5> QED
          OBVIOUS
      <4> HIDE DEF g, M
      <4> QED
        BY <3>7, <4>1
    <3>9. Good(n)
      <4> HIDE DEF g
      <4> QED
        BY <3>8
    <3> QED
      BY <2>2, <3>9
  <2> QED
    BY <2>2, <2>3, <2>4
<1>4. Good(M - 2)
  <2>1. M - 2 \in Nat /\ M - 2 <= M - 2
    BY <1>1
  <2>2. T = {}
    <3> HIDE DEF T
    <3> QED
      BY <1>3
  <2>3. M - 2 \notin T
    <3> HIDE DEF T
    <3> QED
      BY <2>2
  <2> HIDE DEF Good
  <2> QED
    BY <2>1, <2>3
<1>5. M - (M - 2) = 2
  BY <1>1
<1>6. \E f : f = [i \in 2..M |-> Onward(S, f, i)]
  <2> HIDE DEF M
  <2> QED
    BY <1>4, <1>5
<1> DEFINE read == CHOOSE f : f = [i \in 2..M |-> Onward(S, f, i)]
<1>7. read = [i \in 2..M |-> Onward(S, read, i)]
  <2> HIDE DEF M
  <2> QED
    BY <1>6
<1>8. StringRead(S) = read[2]
  BY <1>1 DEF StringRead, Onward
<1> HIDE DEF read
<1>9. Reading(S, read)
  BY <1>1, <1>7 DEF Reading
<1> QED
  BY <1>8, <1>9

\* What is read from the place where k characters are read.
LEMMA ReadOnward ==
  ASSUME NEW t \in Seq(Nat), NEW S, NEW ends, Written(S, t, ends), NEW read,
         Reading(S, read)
  PROVE  \A k \in 0..Len(t) :
           read[2 + ends[Len(t) - k]] = [i \in 1..k |-> Unit(t[Len(t) - k + i])]
<1> DEFINE Rest(k) == [i \in 1..k |-> Unit(t[Len(t) - k + i])]
           Holds(k) == read[2 + ends[Len(t) - k]] = Rest(k)
           T == {k \in Nat : k <= Len(t) /\ ~Holds(k)}
<1>1. PICK N \in Nat : N = Len(t)
  OBVIOUS
<1>2. PICK L \in Nat : L = Len(S) /\ L = ends[N] + 2 /\ S \in Seq(Nat)
  BY <1>1 DEF Written
<1>3. /\ ends \in [0..N -> Nat]
      /\ \A k \in 1..N : ends[k] = ends[k - 1] + Extent(t[k]) /\ ends[k] <= ends[N]
  BY <1>1 DEF Written
<1>4. \A i \in 2..(L + 6) : read[i] = Onward(S, read, i)
  <2>1. read = [i \in 2..(L + 6) |-> Onward(S, read, i)]
    BY <1>2 DEF Reading
  <2> QED
    BY <2>1
<1>5. \A c \in Nat : Extent(c) \in Nat /\ Extent(c) > 0
  BY DEF Extent
<1>6. ASSUME T # {} PROVE FALSE
  <2>1. PICK k \in T : \A m \in T : k <= m
    <3>1. T \in SUBSET Nat
      OBVIOUS
    <3> HIDE DEF T
    <3> QED
      BY <1>6, <3>1, LeastNatural
  <2>2. k \in Nat /\ k <= N /\ ~Holds(k)
    BY <1>1, <2>1
  <2>3. CASE k = 0
    <3>1. 2 + ends[Len(t) - k] = L
      <4>1. Len(t) - k = N
        BY <1>1, <2>3
      <4>2. N \in 0..N
        BY <1>1
      <4>3. PICK e \in Nat : e = ends[N]
        BY <1>3, <4>2
      <4>4. L = 2 + e
        BY <1>2, <4>3
      <4> QED
        BY <4>1, <4>3, <4>4
    <3>2. L \in 2..(L + 6)
      <4>1. N \in 0..N
        BY <1>1
      <4>2. ends[N] \in Nat
        BY <1>3, <4>1
      <4> QED
        BY <1>2, <4>2
    <3>3. read[L] = <<>>
      BY <1>2, <1>4, <3>2 DEF Onward
    <3>4. Rest(0) = <<>>
      OBVIOUS
    <3> QED
      BY <2>2, <2>3, <3>1, <3>3, <3>4
  <2>4. CASE k > 0
    <3>1. k - 1 \in Nat /\ k - 1 <= Len(t) /\ ~(k <= k - 1)
      BY <1>1, <2>2, <2>4
    <3>2. k - 1 \notin T
      <4> HIDE DEF T
      <4> QED
        BY <2>1, <3>1
    <3>3. Holds(k - 1)
      BY <3>1, <3>2
    <3>4. PICK m \in 1..N : m = N - k + 1
      <4>1. N \in Nat /\ k \in Nat /\ k <= N
        BY <1>1, <2>2
      <4>2. N - k + 1 \in 1..N
        BY ONLY <2>4, <4>1
      <4> QED
        BY <4>2
    <3>5. Len(t) - k = m - 1 /\ Len(t) - (k - 1) = m /\ m - 1 \in 0..N /\ m \in 0..N
      BY <1>1, <2>2, <3>4
    <3> DEFINE c == t[m]
    <3>6. c \in Nat
      BY <1>1
    <3>7. PICK w \in Nat : w = Extent(c) /\ w > 0
      BY <1>5, <3>6
    <3>8. PICK a \in Nat : a = ends[m - 1]
      BY <1>3, <3>5
    <3>9. PICK b \in Nat : b = ends[m]
      BY <1>3, <3>5
    <3>10. b = a + w /\ b <= L - 2
      <4>1. ends[m] = ends[m - 1] + Extent(t[m]) /\ ends[m] <= ends[N]
        BY <1>3
      <4>2. ends[N] = L - 2
        <5>1. N \in 0..N
          BY <1>1
        <5>2. ends[N] \in Nat
          BY <1>3, <5>1
        <5> QED
          BY <1>2, <5>2
      <4> QED
        BY <3>7, <3>8, <3>9, <4>1, <4>2
    <3>11. 2 + a \in 2..(L + 6) /\ ~(2 + a = L) /\ ~(2 + a > L) /\ 2 + a + w = 2 + b
      <4>1. L \in Nat /\ w \in Nat /\ w > 0 /\ a \in Nat /\ b \in Nat
        BY <1>2, <3>7, <3>8, <3>9
      <4> QED
        BY ONLY <3>10, <4>1
    <3>12. UnitAt(S, 2 + a) = Unit(c)
      <4>1. m \in 1..Len(t)
        BY <1>1
      <4>2. UnitAt(S, 2 + ends[m - 1]) = Unit(t[m])
        BY <4>1, UnitAtIs
      <4> QED
        BY <3>8, <4>2
    <3>13. read[2 + a] = <<Unit(c)>> \o read[2 + b]
      <4>1. read[2 + a] = <<UnitAt(S, 2 + a)>> \o read[2 + a + UnitAt(S, 2 + a).width]
        BY <1>2, <1>4, <3>11 DEF Onward
      <4>2. Unit(c).width = w
        BY <3>7 DEF Unit
      <4> QED
        BY <3>11, <3>12, <4>1, <4>2
    <3>14. read[2 + b] = Rest(k - 1)
      BY <3>3, <3>5, <3>9
    <3>15. <<Unit(c)>> \o Rest(k - 1) = Rest(k)
      <4> DEFINE U == [c : Nat, width : Nat]
                 one == <<Unit(c)>>
                 all == Rest(k)
                 fewer == Rest(k - 1)
                 both == one \o fewer
      <4>1. \A i \in 1..k : t[Len(t) - k + i] \in Nat
        BY <1>1, <2>2
      <4>2. \A x \in Nat : Unit(x) \in U
        BY <1>5 DEF Unit
      <4>3. all \in Seq(U) /\ Len(all) = k
        <5>1. \A i \in 1..k : Unit(t[Len(t) - k + i]) \in U
          BY <4>1, <4>2
        <5>2. all \in [1..k -> U]
          BY <5>1
        <5>3. k \in Nat
          BY <2>2
        <5> HIDE DEF all, U
        <5> QED
          BY ONLY <5>2, <5>3, FunctionIsSequence
      <4>4. fewer \in Seq(U) /\ Len(fewer) = k - 1
        <5>1. \A i \in 1..(k - 1) : Len(t) - (k - 1) + i \in 1..Len(t)
          BY <1>1, <2>2, <3>1
        <5>2. \A i \in 1..(k - 1) : t[Len(t) - (k - 1) + i] \in Nat
          BY <5>1, ElementIs
        <5>3. \A i \in 1..(k - 1) : Unit(t[Len(t) - (k - 1) + i]) \in U
          BY <4>2, <5>2
        <5>4. fewer \in [1..(k - 1) -> U]
          BY <5>3
        <5>5. k - 1 \in Nat
          BY <3>1
        <5> HIDE DEF fewer, U
        <5> QED
          BY ONLY <5>4, <5>5
      <4>5. one \in Seq(U) /\ Len(one) = 1 /\ one[1] = Unit(c)
        <5>1. Unit(c) \in U
          BY <3>6, <4>2
        <5> HIDE DEF U
        <5> QED
          BY <5>1
      <4>6. \A i \in 1..k : all[i] = Unit(t[Len(t) - k + i])
        OBVIOUS
      <4>7. \A i \in 1..(k - 1) : fewer[i] = Unit(t[Len(t) - (k - 1) + i])
        OBVIOUS
      <4> HIDE DEF one, all, fewer, U
      <4>8. both \in Seq(U) /\ Joined(both, one, fewer)
        BY <4>4, <4>5, JoinedIs
      <4> HIDE DEF both
      <4>9. Len(both) = k
        BY <2>2, <4>4, <4>5, <4>8 DEF Joined
      <4>10. ASSUME NEW i \in 1..k PROVE both[i] = all[i]
        <5>1. CASE i = 1
          <6>1. both[1] = Unit(c)
            BY <4>5, <4>8 DEF Joined
          <6>2. Len(t) - k + i = m
            BY <1>1, <3>4, <5>1
          <6> QED
            BY <4>6, <5>1, <6>1, <6>2
        <5>2. CASE i # 1
          <6>1. PICK j \in 1..(k - 1) : i = 1 + j
            BY <2>2, <5>2
          <6>2. both[1 + j] = fewer[j]
            BY <4>4, <4>5, <4>8 DEF Joined
          <6>3. Len(t) - (k - 1) + j = Len(t) - k + i
            BY <1>1, <2>2, <6>1
          <6> QED
            BY <4>6, <4>7, <6>1, <6>2, <6>3
        <5> QED
          BY <5>1, <5>2
      <4>11. both = all
        BY <4>3, <4>8, <4>9, <4>10, SeqEqual
      <4> QED
        BY <4>11 DEF both, one, all, fewer
    <3>16. read[2 + ends[Len(t) - k]] = Rest(k)
      BY <3>5, <3>8, <3>13, <3>14, <3>15
    <3> QED
      BY <2>2, <3>16
  <2> QED
    BY <2>2, <2>3, <2>4
<1>7. \A k \in 0..Len(t) : Holds(k)
  <2>1. T = {}
    <3> HIDE DEF T
    <3> QED
      BY <1>6
  <2>2. ASSUME NEW k \in 0..Len(t) PROVE Holds(k)
    <3>1. k \in Nat /\ k <= Len(t) /\ k \notin T
      <4> HIDE DEF T
      <4> QED
        BY <1>1, <2>1
    <3> QED
      BY <3>1
  <2> QED
    BY <2>2
<1> QED
  BY <1>7

\* EscapedString, read back.
LEMMA ReadsBack ==
  ASSUME NEW t \in Seq(Nat)
  PROVE  StringReads(EscapedString(t), t)
<1> DEFINE S == EscapedString(t)
           units == StringRead(S)
<1>1. PICK ends : Written(S, t, ends)
  BY WrittenIs
<1> HIDE DEF S
<1>2. PICK N \in Nat : N = Len(t)
  OBVIOUS
<1>3. S \in Seq(Nat) /\ Len(S) >= 2 /\ S[1] = Quote /\ S[Len(S)] = Quote /\ ends[0] = 0
  <2>1. N \in 0..N
    BY <1>2
  <2>2. ends[N] \in Nat
    BY <1>1, <1>2, <2>1 DEF Written
  <2> QED
    BY <1>1, <1>2, <2>2 DEF Written
<1>4. PICK read : Reading(S, read) /\ units = read[2]
  BY <1>3, ReaderIs
<1>5. units = [i \in 1..N |-> Unit(t[i])]
  <2>1. \A k \in 0..Len(t) :
          read[2 + ends[Len(t) - k]] = [i \in 1..k |-> Unit(t[Len(t) - k + i])]
    BY <1>1, <1>4, ReadOnward
  <2>2. N \in 0..Len(t) /\ Len(t) - N = 0 /\ \A i \in 1..N : 0 + i = i
    BY <1>2
  <2>3. read[2 + ends[0]] = [i \in 1..N |-> Unit(t[0 + i])]
    BY <2>1, <2>2
  <2>4. [i \in 1..N |-> Unit(t[0 + i])] = [i \in 1..N |-> Unit(t[i])]
    BY <2>2
  <2> QED
    BY <1>3, <1>4, <2>3, <2>4
<1> HIDE DEF units
<1>6. Len(units) = Len(t) /\ DOMAIN units = 1..N
  BY <1>2, <1>5
<1>7. ASSUME NEW i \in 1..N
      PROVE  /\ units[i].c = t[i]
             /\ units[i].width = 1 <=> t[i] >= 32 /\ t[i] \notin {Quote, Escape}
             /\ units[i].width = 6 => t[i] \notin Range(Unescape)
  <2>1. t[i] \in Nat
    BY <1>2
  <2>2. PICK c \in Nat : c = t[i]
    BY <2>1
  <2>3. units[i].c = c /\ units[i].width = Extent(c)
    BY <1>5, <2>2 DEF Unit
  <2>4. Extent(c) = 1 <=> c >= 32 /\ c \notin {Quote, Escape}
    BY DEF Extent, Shortened, Quote, Escape
  <2>5. Extent(c) = 6 => c \notin Range(Unescape)
    <3>1. \A x \in DOMAIN Unescape : Unescape[x] \in {34, 92, 47, 8, 12, 10, 13, 9}
      BY DEF Unescape
    <3>2. Extent(c) = 6 => c \notin {34, 92, 47, 8, 12, 10, 13, 9}
      BY DEF Extent, Shortened
    <3> QED
      BY <3>1, <3>2 DEF Range
  <2> QED
    BY <2>2, <2>3, <2>4, <2>5
<1>8. StringReads(S, t)
  BY <1>3, <1>6, <1>7 DEF StringReads, units, Last
<1> QED
  BY <1>8 DEF S

-----------------------------------------------------------------------------
(* What is serialised.                                                     *)

Decimals(d) ==
  /\ d \in Seq(Nat) /\ Len(d) <= 17 /\ \A i \in 1..Len(d) : IsDigit(d[i])
  /\ d # <<>> => d[1] # Zero /\ d[Len(d)] # Zero

LeafKept ==
  \/ /\ value.kind = "string" /\ value = String(value.text)
     /\ value.text \in Seq(Nat)
  \/ /\ value.kind = "number"
     /\ value = Number(value.negative, value.digits, value.n)
     /\ value.negative \in BOOLEAN /\ value.n \in -323..309
     /\ Decimals(value.digits)

LEMMA ZerosAre ==
  ASSUME NEW count \in Nat
  PROVE  /\ Zeros(count) \in Seq(Nat) /\ Len(Zeros(count)) = count
         /\ \A i \in 1..count : Zeros(count)[i] = Zero
<1> DEFINE z == Zeros(count)
<1>1. z \in [1..count -> Nat] /\ \A i \in 1..count : z[i] = Zero
  BY DEF Zeros, Zero
<1> HIDE DEF z
<1>2. z \in Seq(Nat) /\ Len(z) = count
  BY ONLY <1>1, count \in Nat
<1> QED
  BY <1>1, <1>2 DEF z

LEMMA DecimalsGrow ==
  ASSUME NEW d, Decimals(d), NEW zeros \in Nat, NEW digit \in 49..57,
         Len(d) + zeros < 17, d = <<>> => zeros = 0
  PROVE  Decimals(d \o Zeros(zeros) \o <<digit>>)
<1> DEFINE y == Zeros(zeros)
           q == <<digit>>
           v == d \o y
           x == v \o q
<1>1. PICK k \in Nat : k = Len(d) /\ d \in Seq(Nat)
  BY DEF Decimals
<1>2. y \in Seq(Nat) /\ Len(y) = zeros /\ \A i \in 1..zeros : y[i] = Zero
  BY ZerosAre
<1>3. q \in Seq(Nat) /\ Len(q) = 1 /\ q[1] = digit
  OBVIOUS
<1> HIDE DEF y, q
<1>4. v \in Seq(Nat) /\ Joined(v, d, y)
  BY <1>1, <1>2, JoinedIs
<1> HIDE DEF v
<1>5. x \in Seq(Nat) /\ Joined(x, v, q)
  BY <1>3, <1>4, JoinedIs
<1> HIDE DEF x
<1>6. PICK l \in Nat : l = k + zeros
  BY <1>1
<1>7. /\ Len(v) = l /\ (\A i \in 1..k : v[i] = d[i])
      /\ \A i \in 1..zeros : v[k + i] = Zero
  BY <1>1, <1>2, <1>4, <1>6 DEF Joined
<1>8. /\ Len(x) = l + 1 /\ (\A i \in 1..l : x[i] = v[i]) /\ x[l + 1] = digit
  BY <1>3, <1>5, <1>7 DEF Joined
<1>9. ASSUME NEW i \in 1..(l + 1) PROVE IsDigit(x[i])
  <2>1. CASE i = l + 1
    BY <1>8, <2>1 DEF IsDigit
  <2>2. CASE i # l + 1 /\ i <= k
    <3>1. i \in 1..k /\ i \in 1..l
      BY <1>1, <1>6, <2>2
    <3>2. x[i] = d[i]
      BY <1>7, <1>8, <3>1
    <3> QED
      BY <1>1, <3>1, <3>2 DEF Decimals
  <2>3. CASE i # l + 1 /\ ~(i <= k)
    <3>1. i \in 1..l
      BY <1>6, <2>3
    <3>2. PICK j \in 1..zeros : i = k + j
      <4>1. i - k \in 1..zeros /\ i = k + (i - k)
        BY <1>1, <1>6, <2>3, <3>1
      <4> QED
        BY <4>1
    <3>3. x[i] = Zero
      BY <1>7, <1>8, <3>1, <3>2
    <3> QED
      BY <3>3 DEF IsDigit, Zero
  <2> QED
    BY <2>1, <2>2, <2>3
<1>10. x[1] # Zero
  <2>1. CASE d = <<>>
    <3>1. k = 0 /\ l = 0
      BY <1>1, <1>6, <2>1
    <3> QED
      BY <1>8, <3>1 DEF Zero
  <2>2. CASE d # <<>>
    <3>1. k > 0
      BY <1>1, <2>2, EmptySeq
    <3>2. 1 \in 1..k /\ 1 \in 1..l
      BY <1>1, <1>6, <3>1
    <3>3. x[1] = d[1]
      BY <1>7, <1>8, <3>2
    <3> QED
      BY <2>2, <3>3 DEF Decimals
  <2> QED
    BY <2>1, <2>2
<1>11. x[Len(x)] # Zero
  BY <1>8 DEF Zero
<1>12. Len(x) <= 17 /\ Len(x) = l + 1
  BY <1>1, <1>6, <1>8
<1>13. Decimals(x)
  BY <1>5, <1>9, <1>10, <1>11, <1>12 DEF Decimals
<1> QED
  BY <1>13 DEF x, v, y, q

LEMMA LeafInit ==
  ASSUME TextAssumption, InitLeaf
  PROVE  LeafKept
<1>1. CASE value = String(<<>>)
  BY <1>1, EmptySeq DEF LeafKept, String
<1>2. CASE \E negative \in BOOLEAN, n \in Places : value = Number(negative, <<>>, n)
  <2>1. PICK negative \in BOOLEAN, n \in Places : value = Number(negative, <<>>, n)
    BY <1>2
  <2>2. Decimals(<<>>)
    BY EmptySeq DEF Decimals
  <2>3. n \in -323..309
    BY DEF TextAssumption
  <2> QED
    BY <2>1, <2>2, <2>3 DEF LeafKept, Number
<1> QED
  BY <1>1, <1>2 DEF InitLeaf

LEMMA LeafNext ==
  ASSUME TextAssumption, LeafKept, [NextLeaf]_value
  PROVE  LeafKept'
<1>1. CASE UNCHANGED value
  BY <1>1 DEF LeafKept, Decimals, IsDigit
<1>2. ASSUME NEW zeros \in 0..MaxDigits, NEW digit \in Digits, PutDigit(zeros, digit)
      PROVE  LeafKept'
  <2> DEFINE d == value.digits
             more == d \o Zeros(zeros) \o <<digit>>
  <2>1. /\ value = Number(value.negative, d, value.n)
        /\ value.negative \in BOOLEAN /\ value.n \in -323..309 /\ Decimals(d)
    BY <1>2 DEF PutDigit, LeafKept
  <2>2. value' = [value EXCEPT !.digits = more] /\ (d = <<>> => zeros = 0)
    BY <1>2 DEF PutDigit
  <2>3. /\ MaxDigits \in 0..17 /\ zeros \in Nat /\ digit \in 49..57
        /\ Len(d) + zeros < 17
    <3>1. MaxDigits \in 0..17 /\ Digits \subseteq 49..57
      BY DEF TextAssumption
    <3>2. Len(d) \in Nat
      BY <2>1 DEF Decimals
    <3>3. Len(d) + zeros < MaxDigits
      BY <1>2 DEF PutDigit
    <3> HIDE DEF d
    <3> QED
      BY <3>1, <3>2, <3>3
  <2>4. Decimals(more)
    <3> HIDE DEF d
    <3> QED
      BY <2>1, <2>2, <2>3, DecimalsGrow
  <2>5. value' = Number(value.negative, more, value.n)
    <3> HIDE DEF more
    <3> QED
      BY <2>1, <2>2 DEF Number
  <2>6. value'.negative = value.negative /\ value'.digits = more /\ value'.n = value.n
        /\ value'.kind = "number"
    <3> HIDE DEF more
    <3> QED
      BY <2>5 DEF Number
  <2>7. Decimals(value'.digits)
    BY <2>4, <2>6
  <2> HIDE DEF more, d
  <2>8. /\ value'.kind = "number"
        /\ value' = Number(value'.negative, value'.digits, value'.n)
        /\ value'.negative \in BOOLEAN /\ value'.n \in -323..309
        /\ Decimals(value'.digits)
    BY <2>1, <2>5, <2>6, <2>7
  <2> QED
    BY <2>8 DEF LeafKept, Decimals, IsDigit, Number
<1>3. ASSUME NEW c \in Characters, PutCharacter(c)
      PROVE  LeafKept'
  <2>1. value.text \in Seq(Nat)
    BY <1>3 DEF PutCharacter, LeafKept
  <2>2. c \in Nat
    BY DEF TextAssumption
  <2>3. Append(value.text, c) \in Seq(Nat)
    BY <2>1, <2>2
  <2>4. value' = String(Append(value.text, c))
    BY <1>3 DEF PutCharacter
  <2> QED
    BY <2>3, <2>4 DEF LeafKept, String
<1> QED
  BY <1>1, <1>2, <1>3 DEF NextLeaf

\* Every state reachable by putting digits and characters is a string of
\* characters, or a number whose digits neither begin nor end with a zero.
THEOREM LeavesKept == SpecLeaf => []LeafKept
<1>1. InitLeaf => LeafKept
  BY LeafInit, TextAssumption
<1>2. LeafKept /\ [NextLeaf]_value => LeafKept'
  BY LeafNext, TextAssumption
<1> QED
  BY <1>1, <1>2, PTL DEF SpecLeaf

\* A string of any length and of any characters that append_escaped_string
\* writes reads back as it was, each of its characters as short as JSON can
\* have it: RFC 8785's only text of it.
THEOREM StringsReadBack == SpecLeaf => []StringIsItsText
<1>1. LeafKept => StringIsItsText
  <2>1. ASSUME LeafKept, value.kind = "string"
        PROVE  StringReads(EscapedString(value.text), value.text)
    <3>1. value.text \in Seq(Nat)
      BY <2>1 DEF LeafKept
    <3> QED
      BY <3>1, ReadsBack
  <2> QED
    BY <2>1 DEF StringIsItsText
<1> QED
  BY <1>1, LeavesKept, PTL

-----------------------------------------------------------------------------
(* Searches and slices.                                                    *)

LEMMA MinIs ==
  ASSUME NEW T \in SUBSET Int, NEW m \in T, \A x \in T : m <= x
  PROVE  Min(T) = m
<1>1. \A x \in T : m =< x
  OBVIOUS
<1>2. \A x \in T : (\A y \in T : x =< y) => x = m
  OBVIOUS
<1> QED
  BY <1>1, <1>2 DEF Min

LEMMA MaxIs ==
  ASSUME NEW T \in SUBSET Int, NEW m \in T, \A x \in T : m >= x
  PROVE  Max(T) = m
<1>1. \A x \in T : (\A y \in T : x >= y) => x = m
  OBVIOUS
<1> QED
  BY <1>1 DEF Max

LEMMA FindIs ==
  ASSUME NEW t \in Seq(Nat), NEW c, NEW p \in 1..(Len(t) + 1),
         \A i \in 1..Len(t) : i < p => t[i] # c,
         p <= Len(t) => t[p] = c
  PROVE  Find(t, c) = p
<1> DEFINE I == {i \in 1..Len(t) : t[i] = c}
<1>1. PICK l \in Nat : l = Len(t)
  OBVIOUS
<1>2. CASE p = l + 1
  <2>1. I = {}
    BY <1>1, <1>2
  <2> QED
    BY <1>1, <1>2, <2>1 DEF Find, SelectInSeq
<1>3. CASE p # l + 1
  <2>1. p \in I /\ p \in Nat /\ p # 0
    BY <1>1, <1>3
  <2>2. \A x \in I : p <= x
    BY <1>1, <1>3
  <2>3. I \in SUBSET Int
    BY <1>1
  <2>4. Min(I) = p
    <3> HIDE DEF I
    <3> QED
      BY <2>1, <2>2, <2>3, MinIs
  <2>5. SelectInSeq(t, LAMBDA x : x = c) = p
    BY <2>1, <2>4 DEF SelectInSeq
  <2> QED
    BY <2>1, <2>5 DEF Find
<1> QED
  BY <1>2, <1>3

Sliced(s, t, m, n) ==
  /\ s \in Seq(Nat) /\ Len(s) = n - m + 1
  /\ \A i \in 1..(n - m + 1) : s[i] = t[m + i - 1]

LEMMA SliceIs ==
  ASSUME NEW t \in Seq(Nat), NEW m \in Nat \ {0}, NEW n \in Nat, m <= n + 1,
         n <= Len(t)
  PROVE  Sliced(SubSeq(t, m, n), t, m, n)
<1>1. \A i \in m..n : t[i] \in Nat
  <2>1. \A i \in m..n : i \in 1..Len(t)
    OBVIOUS
  <2> QED
    BY <2>1
<1>2. m \in Int /\ n \in Int
  OBVIOUS
<1> DEFINE s == SubSeq(t, m, n)
<1>3. /\ s \in Seq(Nat) /\ Len(s) = IF m <= n THEN n - m + 1 ELSE 0
      /\ \A i \in 1..(n - m + 1) : s[i] = t[m + i - 1]
  BY <1>1, <1>2, SubSeqProperties
<1> HIDE DEF s
<1>4. Len(s) = n - m + 1
  BY <1>3
<1>5. Sliced(s, t, m, n)
  BY <1>3, <1>4 DEF Sliced
<1> QED
  BY <1>5 DEF s

\* A text is a mantissa and, if marked, what stands after the marker.
Cut(text, m, e, marked) ==
  /\ text \in Seq(Nat) /\ SubSeq(text, 1, Find(text, Marker) - 1) = m
  /\ Drop(text, Find(text, Marker)) = e
  /\ marked <=> Find(text, Marker) <= Len(text)
  /\ Len(m) <= Len(text) /\ \A i \in 1..Len(m) : text[i] = m[i]

LEMMA Uncut ==
  ASSUME NEW m \in Seq(Nat), \A i \in 1..Len(m) : m[i] # Marker
  PROVE  Cut(m, m, <<>>, FALSE)
<1>1. PICK l \in Nat : l = Len(m)
  OBVIOUS
<1>2. Find(m, Marker) = l + 1
  <2>1. l + 1 \in 1..(Len(m) + 1) /\ ~(l + 1 <= Len(m))
    BY <1>1
  <2> QED
    BY <2>1, FindIs
<1>3. SubSeq(m, 1, l) = m
  BY <1>1, SubSeqFull
<1>4. Drop(m, l + 1) = <<>>
  <2>1. SubSeq(m, l + 1 + 1, l) = <<>>
    BY <1>1, SubSeqEmpty
  <2> QED
    BY <1>1, <2>1 DEF Drop
<1>5. l + 1 - 1 = l /\ ~(l + 1 <= l)
  BY <1>1
<1> QED
  BY <1>1, <1>2, <1>3, <1>4, <1>5 DEF Cut

LEMMA CutAtMarker ==
  ASSUME NEW m \in Seq(Nat), NEW e \in Seq(Nat),
         \A i \in 1..Len(m) : m[i] # Marker
  PROVE  Cut(m \o (<<Marker>> \o e), m, e, TRUE)
<1> DEFINE q == <<Marker>>
           v == q \o e
           x == m \o v
<1>1. q \in Seq(Nat) /\ Len(q) = 1 /\ q[1] = Marker
  BY DEF Marker
<1> HIDE DEF q
<1>2. v \in Seq(Nat) /\ Joined(v, q, e)
  BY <1>1, JoinedIs
<1> HIDE DEF v
<1>3. x \in Seq(Nat) /\ Joined(x, m, v)
  BY <1>2, JoinedIs
<1> HIDE DEF x
<1>4. PICK l \in Nat : l = Len(m)
  OBVIOUS
<1>5. PICK k \in Nat : k = Len(e)
  OBVIOUS
<1>6. Len(v) = 1 + k /\ v[1] = Marker /\ \A i \in 1..k : v[1 + i] = e[i]
  BY <1>1, <1>2, <1>5 DEF Joined
<1>7. /\ Len(x) = l + 1 + k /\ (\A i \in 1..l : x[i] = m[i])
      /\ x[l + 1] = Marker /\ \A i \in 1..k : x[l + 1 + i] = e[i]
  <2>1. /\ Len(x) = l + Len(v) /\ (\A i \in 1..l : x[i] = m[i])
        /\ \A i \in 1..Len(v) : x[l + i] = v[i]
    BY <1>3, <1>4 DEF Joined
  <2>2. x[l + 1] = Marker
    BY <1>5, <1>6, <2>1
  <2>3. ASSUME NEW i \in 1..k PROVE x[l + 1 + i] = e[i]
    <3>1. 1 + i \in 1..Len(v) /\ l + (1 + i) = l + 1 + i
      <4>1. l \in Nat /\ k \in Nat /\ Len(v) = 1 + k /\ i \in 1..k
        BY <1>4, <1>5, <1>6
      <4> QED
        BY ONLY <4>1
    <3>2. x[l + (1 + i)] = v[1 + i] /\ v[1 + i] = e[i]
      BY <1>6, <2>1, <3>1
    <3> QED
      BY ONLY <3>1, <3>2
  <2> QED
    BY <1>4, <1>5, <1>6, <2>1, <2>2, <2>3
<1>8. Find(x, Marker) = l + 1
  <2>1. l + 1 \in 1..(Len(x) + 1)
    BY <1>4, <1>5, <1>7
  <2>2. \A i \in 1..Len(x) : i < l + 1 => x[i] # Marker
    BY <1>4, <1>5, <1>7
  <2>3. l + 1 <= Len(x) => x[l + 1] = Marker
    BY <1>7
  <2>4. x \in Seq(Nat)
    BY <1>3
  <2> QED
    BY ONLY <2>1, <2>2, <2>3, <2>4, FindIs
<1>9. SubSeq(x, 1, l) = m
  <2> DEFINE s == SubSeq(x, 1, l)
  <2>1. Sliced(s, x, 1, l)
    BY <1>3, <1>4, <1>5, <1>7, SliceIs
  <2> HIDE DEF s
  <2>2. s \in Seq(Nat) /\ Len(s) = l /\ \A i \in 1..l : s[i] = x[i]
    <3>1. l - 1 + 1 = l /\ \A i \in 1..l : 1 + i - 1 = i
      BY <1>4
    <3> QED
      BY <2>1, <3>1 DEF Sliced
  <2>3. \A i \in 1..l : s[i] = m[i]
    BY <1>7, <2>2
  <2>4. s = m
    BY <1>4, <2>2, <2>3, SeqEqual
  <2> QED
    BY <2>4 DEF s
<1>10. Drop(x, l + 1) = e
  <2> DEFINE s == SubSeq(x, l + 2, l + 1 + k)
  <2>1. Sliced(s, x, l + 2, l + 1 + k)
    BY <1>3, <1>4, <1>5, <1>7, SliceIs
  <2> HIDE DEF s
  <2>2. s \in Seq(Nat) /\ Len(s) = k /\ \A i \in 1..k : s[i] = x[l + 1 + i]
    <3>1. l + 1 + k - (l + 2) + 1 = k /\ \A i \in 1..k : l + 2 + i - 1 = l + 1 + i
      BY <1>4, <1>5
    <3> QED
      BY <2>1, <3>1 DEF Sliced
  <2>3. \A i \in 1..k : s[i] = e[i]
    BY <1>7, <2>2
  <2>4. s = e
    BY <1>5, <2>2, <2>3, SeqEqual
  <2>5. l + 1 + 1 = l + 2
    BY <1>4
  <2> QED
    BY <1>7, <2>4, <2>5 DEF s, Drop
<1>11. l + 1 - 1 = l /\ l + 1 <= Len(x)
  BY <1>4, <1>5, <1>7
<1>12. Len(m) <= Len(x) /\ \A i \in 1..Len(m) : x[i] = m[i]
  BY <1>4, <1>5, <1>7
<1>13. Cut(x, m, e, TRUE)
  BY <1>3, <1>8, <1>9, <1>10, <1>11, <1>12 DEF Cut
<1> QED
  BY <1>13 DEF x, v, q

\* A text with its sign.
Signed(negative, x) == (IF negative THEN <<Minus>> ELSE <<>>) \o x

Unsigned(text) == IF text[1] = Minus THEN Tail(text) ELSE text

LEMMA SignedIs ==
  ASSUME NEW x \in Seq(Nat), x # <<>>, x[1] # Minus, NEW negative \in BOOLEAN
  PROVE  /\ Signed(negative, x)[1] = Minus <=> negative
         /\ Unsigned(Signed(negative, x)) = x
         /\ Len(Signed(negative, x)) <= Len(x) + 1
<1>1. PICK l \in Nat : l = Len(x)
  OBVIOUS
<1>2. CASE ~negative
  <2>1. Signed(negative, x) = x
    BY <1>2, ConcatEmptySeq DEF Signed
  <2> QED
    BY <1>1, <1>2, <2>1 DEF Unsigned
<1>3. CASE negative
  <2> DEFINE q == <<Minus>>
             s == q \o x
  <2>1. Signed(negative, x) = s
    BY <1>3 DEF Signed
  <2>2. q \in Seq(Nat) /\ Len(q) = 1 /\ q[1] = Minus
    BY DEF Minus
  <2> HIDE DEF q
  <2>3. s \in Seq(Nat) /\ Joined(s, q, x)
    BY <2>2, JoinedIs
  <2> HIDE DEF s
  <2>4. Len(s) = 1 + l /\ s[1] = Minus /\ \A i \in 1..l : s[1 + i] = x[i]
    BY <1>1, <2>2, <2>3 DEF Joined
  <2>5. Tail(s) = x
    <3> DEFINE y == Tail(s)
    <3>1. s # <<>>
      BY <1>1, <2>4
    <3>2. y \in Seq(Nat) /\ Len(y) = Len(s) - 1 /\ \A i \in 1..Len(y) : y[i] = s[i + 1]
      BY <2>3, <3>1, HeadTailProperties
    <3> HIDE DEF y
    <3>3. Len(y) = l /\ \A i \in 1..l : i + 1 = 1 + i
      BY <1>1, <2>4, <3>2
    <3>4. \A i \in 1..l : y[i] = x[i]
      BY <2>4, <3>2, <3>3
    <3>5. y = x
      BY <1>1, <3>2, <3>3, <3>4, SeqEqual
    <3> QED
      BY <3>5 DEF y
  <2>6. Len(s) <= Len(x) + 1
    BY <1>1, <2>4
  <2>7. Unsigned(s) = x
    BY <2>4, <2>5 DEF Unsigned
  <2> QED
    BY <1>3, <2>1, <2>4, <2>6, <2>7
<1> QED
  BY <1>2, <1>3

-----------------------------------------------------------------------------
(* The digits of a mantissa, wherever its point stands.                    *)

\* The mantissa m has its only point at p, or none and p is beyond its end.
PointAt(m, p) ==
  /\ m \in Seq(Nat) /\ p \in 1..(Len(m) + 1)
  /\ \A i \in 1..Len(m) : m[i] = Point <=> i = p

\* q is what DigitsOf keeps of the first i characters of m.
Kept(q, m, p, i) ==
  /\ q \in Seq(Nat) /\ Len(q) = IF i < p THEN i ELSE i - 1
  /\ \A j \in 1..Len(q) : q[j] = m[IF j < p THEN j ELSE j + 1]

LEMMA KeptGrows ==
  ASSUME NEW m, NEW p, PointAt(m, p), NEW i \in 1..Len(m), NEW q,
         Kept(q, m, p, i - 1)
  PROVE  Kept(IF m[i] = Point THEN q ELSE Append(q, m[i]), m, p, i)
<1>1. PICK l \in Nat : l = Len(m) /\ m \in Seq(Nat) /\ p \in 1..(l + 1)
  BY DEF PointAt
<1>2. m[i] = Point <=> i = p
  BY DEF PointAt
<1>3. /\ q \in Seq(Nat) /\ Len(q) = IF i - 1 < p THEN i - 1 ELSE i - 1 - 1
      /\ \A j \in 1..Len(q) : q[j] = m[IF j < p THEN j ELSE j + 1]
  BY DEF Kept
<1>4. CASE i = p
  <2>1. Len(q) = i - 1
    BY <1>1, <1>3, <1>4
  <2>2. Kept(q, m, p, i)
    BY <1>3, <1>4, <2>1 DEF Kept
  <2> QED
    BY <1>2, <1>4, <2>2
<1>5. CASE i # p
  <2> DEFINE x == Append(q, m[i])
  <2>1. m[i] \in Nat
    BY <1>1
  <2>2. PICK k \in Nat : k = Len(q)
    BY <1>3
  <2>3. /\ x \in Seq(Nat) /\ Len(x) = k + 1 /\ x[k + 1] = m[i]
        /\ \A j \in 1..k : x[j] = q[j]
    BY <1>3, <2>1, <2>2, AppendProperties
  <2> HIDE DEF x
  <2>4. k + 1 = IF i < p THEN i ELSE i - 1
    BY <1>1, <1>3, <1>5, <2>2
  <2>5. i = IF k + 1 < p THEN k + 1 ELSE k + 1 + 1
    BY <1>1, <1>5, <2>4
  <2>6. ASSUME NEW j \in 1..(k + 1) PROVE x[j] = m[IF j < p THEN j ELSE j + 1]
    <3>1. CASE j = k + 1
      BY <2>3, <2>5, <3>1
    <3>2. CASE j # k + 1
      <4>1. j \in 1..k
        BY <2>2, <3>2
      <4> QED
        BY <1>3, <2>2, <2>3, <4>1
    <3> QED
      BY <3>1, <3>2
  <2>7. Kept(x, m, p, i)
    BY <2>3, <2>4, <2>6 DEF Kept
  <2> QED
    BY <1>2, <1>5, <2>7 DEF x
<1> QED
  BY <1>4, <1>5

LEMMA DigitsOfIs ==
  ASSUME NEW m, NEW p, PointAt(m, p)
  PROVE  Kept(DigitsOf(m), m, p, Len(m))
<1> DEFINE S == Seq(Nat)
           N == Len(m)
           step == [x \in S \X (1..N) |->
                      IF m[x[2]] = Point THEN x[1] ELSE Append(x[1], m[x[2]])]
           E(f, i) == IF i = 0 THEN <<>>
                      ELSE IF m[i] = Point THEN f[i - 1]
                      ELSE Append(f[i - 1], m[i])
           h == CHOOSE f : f = [i \in 0..N |-> E(f, i)]
<1>1. m \in S /\ N \in Nat /\ p \in 1..(N + 1) /\ <<>> \in S
  BY EmptySeq DEF PointAt
<1>2. step \in [S \X (1..N) -> S]
  <2>1. ASSUME NEW x \in S \X (1..N)
        PROVE  (IF m[x[2]] = Point THEN x[1] ELSE Append(x[1], m[x[2]])) \in S
    <3>1. x[1] \in S /\ x[2] \in 1..N
      OBVIOUS
    <3>2. m[x[2]] \in Nat
      BY <1>1, <3>1
    <3>3. Append(x[1], m[x[2]]) \in S
      BY <3>1, <3>2, AppendProperties
    <3> QED
      BY <3>1, <3>3
  <2> HIDE DEF S, N
  <2> QED
    BY <2>1
<1>3. PICK g : Recursion(g, S, N, <<>>, step)
  <2> HIDE DEF S, step, N
  <2> QED
    BY <1>1, <1>2, Recurs
<1>4. /\ g \in [0..N -> S] /\ g[0] = <<>>
      /\ \A i \in 1..N : g[i] = step[<<g[i - 1], i>>]
  <2> HIDE DEF S, step, N
  <2> QED
    BY <1>3 DEF Recursion
<1>5. \E f : f = [i \in 0..N |-> E(f, i)]
  <2>1. ASSUME NEW i \in 0..N PROVE g[i] = E(g, i)
    <3>1. CASE i = 0
      BY <1>4, <3>1
    <3>2. CASE i # 0
      <4>1. i \in 1..N /\ i - 1 \in 0..N
        BY <1>1, <3>2
      <4>2. g[i - 1] \in S
        BY <1>4, <4>1
      <4>3. g[i] = step[<<g[i - 1], i>>]
        BY <1>4, <4>1
      <4> HIDE DEF S, N
      <4>4. <<g[i - 1], i>> \in S \X (1..N)
        BY <4>1, <4>2
      <4>5. step[<<g[i - 1], i>>]
              = IF m[i] = Point THEN g[i - 1] ELSE Append(g[i - 1], m[i])
        BY <4>4
      <4> QED
        BY <3>2, <4>3, <4>5
    <3> QED
      BY <3>1, <3>2
  <2> HIDE DEF E, S, N, step
  <2>2. g = [i \in 0..N |-> E(g, i)]
    BY <1>4, <2>1
  <2> QED
    BY <2>2
<1>6. h = [i \in 0..N |-> E(h, i)]
  <2> HIDE DEF E, N
  <2> QED
    BY <1>5
<1>7. DigitsOf(m) = h[N]
  BY DEF DigitsOf
<1> HIDE DEF h
<1>8. \A i \in 0..N : h[i] = E(h, i)
  <2> HIDE DEF E, N
  <2> QED
    BY <1>6
<1> DEFINE T == {i \in Nat : i <= N /\ ~Kept(h[i], m, p, i)}
<1>9. ASSUME T # {} PROVE FALSE
  <2>1. PICK i \in T : \A j \in T : i <= j
    <3>1. T \in SUBSET Nat
      OBVIOUS
    <3> HIDE DEF T
    <3> QED
      BY <1>9, <3>1, LeastNatural
  <2>2. i \in Nat /\ i <= N /\ ~Kept(h[i], m, p, i)
    BY <2>1
  <2>3. CASE i = 0
    <3>1. h[0] = <<>>
      BY <1>1, <1>8
    <3>2. Kept(<<>>, m, p, 0)
      BY <1>1 DEF Kept
    <3> QED
      BY <2>2, <2>3, <3>1, <3>2
  <2>4. CASE i # 0
    <3>1. i - 1 \in Nat /\ i - 1 <= N /\ ~(i <= i - 1) /\ i \in 1..N
      BY <1>1, <2>2, <2>4
    <3>2. i - 1 \notin T
      <4> HIDE DEF T
      <4> QED
        BY <2>1, <3>1
    <3>3. Kept(h[i - 1], m, p, i - 1)
      BY <3>1, <3>2
    <3>4. h[i] = IF m[i] = Point THEN h[i - 1] ELSE Append(h[i - 1], m[i])
      BY <1>8, <2>4, <3>1
    <3>5. Kept(h[i], m, p, i)
      BY <3>1, <3>3, <3>4, KeptGrows
    <3> QED
      BY <2>2, <3>5
  <2> QED
    BY <2>3, <2>4
<1>10. N \in Nat /\ N <= N /\ N \notin T
  <2>1. T = {}
    <3> HIDE DEF T
    <3> QED
      BY <1>9
  <2> HIDE DEF T
  <2> QED
    BY <1>1, <2>1
<1> QED
  BY <1>7, <1>10

\* How many characters of m are no points, and the j-th of them.
HowMany(m, p) == IF p <= Len(m) THEN Len(m) - 1 ELSE Len(m)

DigitAt(m, p, j) == m[IF j < p THEN j ELSE j + 1]

\* m has d from its f-th digit on, and zeros around it.
Carries(m, p, f, d) ==
  /\ PointAt(m, p) /\ \A i \in 1..Len(m) : IsDigit(m[i]) \/ i = p
  /\ f \in Nat \ {0} /\ f + Len(d) - 1 <= HowMany(m, p)
  /\ \A j \in 1..HowMany(m, p) :
       DigitAt(m, p, j) = IF f <= j /\ j < f + Len(d) THEN d[j - f + 1] ELSE Zero

\* What CanonicalNumber makes of a text without its sign.
Laid(text) ==
  LET marker == Find(text, Marker)
      mantissa == SubSeq(text, 1, marker - 1)
      exponent == IF marker > Len(text) THEN 0
                  ELSE ParseExponent(Drop(text, marker))
      digits == DigitsOf(mantissa)
      decimal == Find(mantissa, Point) - 1 + exponent
      leading == FirstNonzero(digits) - 1
  IN Layout(Significant(digits), decimal - leading)

LEMMA PointIs ==
  ASSUME NEW m, NEW p, PointAt(m, p)
  PROVE  Find(m, Point) = p
<1>1. PICK l \in Nat : l = Len(m) /\ m \in Seq(Nat) /\ p \in 1..(l + 1)
  BY DEF PointAt
<1>2. \A i \in 1..l : m[i] = Point <=> i = p
  BY <1>1 DEF PointAt
<1>3. \A i \in 1..l : i < p => m[i] # Point
  BY <1>1, <1>2
<1>4. p <= l => m[p] = Point
  <2>1. p <= l => p \in 1..l
    BY <1>1
  <2> QED
    BY <1>2, <2>1
<1> QED
  BY <1>1, <1>3, <1>4, FindIs

\* The zeros around the digits are left out.
LEMMA SignificantIs ==
  ASSUME NEW d, Decimals(d), d # <<>>, NEW q \in Seq(Nat), NEW f \in Nat \ {0},
         f + Len(d) - 1 <= Len(q),
         \A j \in 1..Len(q) :
           q[j] = IF f <= j /\ j < f + Len(d) THEN d[j - f + 1] ELSE Zero
  PROVE  /\ FirstNonzero(q) = f
         /\ Significant(q) = d
<1> DEFINE I == {i \in 1..Len(q) : q[i] # Zero}
<1>1. PICK l \in Nat : l = Len(q)
  OBVIOUS
<1>2. PICK k \in Nat : k = Len(d) /\ d \in Seq(Nat) /\ k > 0
  <2>1. d \in Seq(Nat)
    BY DEF Decimals
  <2> QED
    BY <2>1, EmptySeq
<1>3. d[1] # Zero /\ d[k] # Zero
  BY <1>2 DEF Decimals
<1>4. PICK z \in Nat : z = f + k - 1 /\ f <= z /\ z <= l
  <2>1. f + k - 1 \in Nat /\ f <= f + k - 1
    BY <1>2
  <2> QED
    BY <1>1, <1>2, <2>1
<1>5. f \in I /\ z \in I
  <2>1. f \in 1..Len(q) /\ f < f + Len(d) /\ f - f + 1 = 1
    BY <1>1, <1>2, <1>4
  <2>2. z \in 1..Len(q) /\ f <= z /\ z < f + Len(d) /\ z - f + 1 = k
    BY <1>1, <1>2, <1>4
  <2>3. q[f] = d[1]
    BY <2>1
  <2>4. q[z] = d[k]
    BY <2>2
  <2> QED
    BY <1>3, <2>1, <2>2, <2>3, <2>4
<1>6. \A i \in I : f <= i /\ z >= i
  BY <1>1, <1>2, <1>4
<1>7. I \in SUBSET Int
  OBVIOUS
<1>8. Min(I) = f /\ Max(I) = z
  <2> HIDE DEF I
  <2> QED
    BY <1>5, <1>6, <1>7, MinIs, MaxIs
<1>9. FirstNonzero(q) = f
  BY <1>5, <1>8 DEF FirstNonzero, SelectInSeq
<1>10. SelectLastInSeq(q, LAMBDA c : c # Zero) = z
  BY <1>5, <1>8 DEF SelectLastInSeq
<1>11. SubSeq(q, f, z) = d
  <2> DEFINE s == SubSeq(q, f, z)
  <2>1. Sliced(s, q, f, z)
    BY <1>1, <1>4, SliceIs
  <2> HIDE DEF s
  <2>2. s \in Seq(Nat) /\ Len(s) = k /\ \A i \in 1..k : s[i] = q[f + i - 1]
    <3>1. z - f + 1 = k
      BY <1>2, <1>4
    <3> QED
      BY <2>1, <3>1 DEF Sliced
  <2>3. ASSUME NEW i \in 1..k PROVE s[i] = d[i]
    <3>1. /\ f + i - 1 \in 1..Len(q) /\ f <= f + i - 1
          /\ f + i - 1 < f + Len(d) /\ f + i - 1 - f + 1 = i
      BY <1>1, <1>2, <1>4
    <3>2. q[f + i - 1] = d[i]
      BY <3>1
    <3> QED
      BY <2>2, <3>2
  <2>4. s = d
    BY <1>2, <2>2, <2>3, SeqEqual
  <2> QED
    BY <2>4 DEF s
<1> QED
  BY <1>9, <1>10, <1>11 DEF Significant

LEMMA LaidIs ==
  ASSUME NEW d, Decimals(d), d # <<>>, NEW m, NEW p, NEW f, Carries(m, p, f, d),
         NEW text, NEW e, NEW marked \in BOOLEAN, Cut(text, m, e, marked),
         NEW x \in Int, x = IF marked THEN ParseExponent(e) ELSE 0
  PROVE  Laid(text) = Layout(d, p - f + x)
<1> DEFINE q == DigitsOf(m)
<1>1. PointAt(m, p)
  BY DEF Carries
<1>2. Kept(q, m, p, Len(m))
  BY <1>1, DigitsOfIs
<1> HIDE DEF q
<1>3. PICK l \in Nat : l = Len(m) /\ p \in 1..(l + 1)
  BY <1>1 DEF PointAt
<1>4. Len(q) = HowMany(m, p) /\ q \in Seq(Nat)
  BY <1>2, <1>3 DEF Kept, HowMany
<1>5. f \in Nat \ {0} /\ f + Len(d) - 1 <= Len(q)
  BY <1>4 DEF Carries
<1>6. \A j \in 1..Len(q) :
        q[j] = IF f <= j /\ j < f + Len(d) THEN d[j - f + 1] ELSE Zero
  BY <1>2, <1>4 DEF Kept, Carries, DigitAt
<1>7. FirstNonzero(q) = f /\ Significant(q) = d
  BY <1>4, <1>5, <1>6, SignificantIs
<1>8. Find(m, Point) = p
  BY <1>1, PointIs
<1> DEFINE marker == Find(text, Marker)
<1>9. /\ SubSeq(text, 1, marker - 1) = m /\ Drop(text, marker) = e
      /\ marked <=> marker <= Len(text)
  BY DEF Cut
<1>10. (IF marker > Len(text) THEN 0 ELSE ParseExponent(Drop(text, marker))) = x
  <2>1. text \in Seq(Nat)
    BY DEF Cut
  <2>2. marker \in Int
    <3> DEFINE I == {i \in 1..Len(text) : text[i] = Marker}
    <3>1. I = {} \/ \E i \in I : \A j \in I : i <= j
      <4>1. I \in SUBSET Nat
        OBVIOUS
      <4> HIDE DEF I
      <4> QED
        BY <4>1, LeastNatural
    <3>2. I # {} => Min(I) \in Int
      <4>1. I \in SUBSET Int
        OBVIOUS
      <4> HIDE DEF I
      <4> QED
        BY <3>1, <4>1, MinIs
    <3> QED
      BY <2>1, <3>2 DEF Find, SelectInSeq
  <2>3. marker > Len(text) <=> ~marked
    <3>1. Len(text) \in Int
      BY <2>1
    <3> HIDE DEF marker
    <3> QED
      BY <1>9, <2>2, <3>1
  <2> HIDE DEF marker
  <2> QED
    BY <1>9, <2>3
<1>11. Laid(text) = Layout(Significant(q), (p - 1 + x) - (f - 1))
  <2> DEFINE mantissa == SubSeq(text, 1, marker - 1)
             exponent == IF marker > Len(text) THEN 0
                         ELSE ParseExponent(Drop(text, marker))
  <2>1. Laid(text) = Layout(Significant(DigitsOf(mantissa)),
                            (Find(mantissa, Point) - 1 + exponent)
                              - (FirstNonzero(DigitsOf(mantissa)) - 1))
    BY DEF Laid
  <2>2. mantissa = m /\ exponent = x
    BY <1>9, <1>10
  <2> HIDE DEF mantissa, exponent
  <2> QED
    BY <1>7, <1>8, <2>1, <2>2 DEF q
<1>12. (p - 1 + x) - (f - 1) = p - f + x
  BY <1>3, <1>5
<1> QED
  BY <1>7, <1>11, <1>12

LEMMA WeightsAre ==
  ASSUME NEW d, Decimals(d), NEW m, NEW p, NEW f, Carries(m, p, f, d),
         NEW x \in Int
  PROVE  Weights(m, x) = {<<p - f + x - i, d[i]>> :
                            i \in {j \in DOMAIN d : d[j] # Zero}}
<1> DEFINE weight(i) == IF i < p THEN p - i - 1 ELSE p - i
           W == {<<weight(i) + x, m[i]>> :
                   i \in {j \in DOMAIN m : m[j] \notin {Zero, Point}}}
           V == {<<p - f + x - i, d[i]>> : i \in {j \in DOMAIN d : d[j] # Zero}}
<1>1. PICK l \in Nat : l = Len(m) /\ p \in 1..(l + 1) /\ m \in Seq(Nat)
  BY DEF Carries, PointAt
<1>2. PICK k \in Nat : k = Len(d) /\ d \in Seq(Nat)
  BY DEF Decimals
<1>3. Weights(m, x) = W
  BY PointIs DEF Weights, Carries
<1>4. f \in Nat /\ f > 0 /\ \A i \in 1..l : m[i] = Point <=> i = p
  BY <1>1 DEF Carries, PointAt
<1>5. PICK n \in Int : /\ n = HowMany(m, p) /\ n = (IF p <= l THEN l - 1 ELSE l)
                       /\ f + k - 1 <= n
  <2>1. HowMany(m, p) = (IF p <= l THEN l - 1 ELSE l)
    BY <1>1 DEF HowMany
  <2>2. f + k - 1 <= HowMany(m, p)
    BY <1>2 DEF Carries
  <2>3. HowMany(m, p) \in Int
    BY <1>1, <2>1
  <2> QED
    BY <2>1, <2>2, <2>3
<1>6. \A j \in 1..n :
        m[IF j < p THEN j ELSE j + 1]
          = IF f <= j /\ j < f + k THEN d[j - f + 1] ELSE Zero
  BY <1>2, <1>5 DEF Carries, DigitAt
<1>7. ASSUME NEW i \in 1..l, m[i] # Zero, m[i] # Point
      PROVE  <<weight(i) + x, m[i]>> \in V
  <2>1. i # p
    BY <1>4, <1>7
  <2>2. PICK j \in 1..n : i = IF j < p THEN j ELSE j + 1
    <3>1. CASE i < p
      <4>1. i \in 1..n
        BY <1>1, <1>5, <3>1
      <4> QED
        BY <3>1, <4>1
    <3>2. CASE i > p
      <4>1. i - 1 \in 1..n /\ ~(i - 1 < p) /\ i = i - 1 + 1
        BY <1>1, <1>5, <3>2
      <4> QED
        BY <4>1
    <3> QED
      BY <1>1, <2>1, <3>1, <3>2
  <2>3. m[i] = IF f <= j /\ j < f + k THEN d[j - f + 1] ELSE Zero
    BY <1>6, <2>2
  <2>4. f <= j /\ j < f + k /\ m[i] = d[j - f + 1]
    BY <1>7, <2>3
  <2>5. PICK h \in 1..k : h = j - f + 1
    <3>1. j - f + 1 \in 1..k
      BY <1>2, <1>4, <1>5, <2>4
    <3> QED
      BY <3>1
  <2>6. h \in DOMAIN d /\ d[h] # Zero /\ m[i] = d[h]
    BY <1>2, <1>7, <2>4, <2>5
  <2>7. weight(i) + x = p - f + x - h
    <3>1. p \in Int /\ f \in Int /\ x \in Int /\ j \in Int /\ n \in Int
      BY <1>1, <1>4, <1>5
    <3> QED
      BY <2>2, <2>5, <3>1
  <2> HIDE DEF weight
  <2> QED
    BY <2>6, <2>7
<1>8. ASSUME NEW h \in 1..k, d[h] # Zero
      PROVE  <<p - f + x - h, d[h]>> \in W
  <2>1. PICK j \in 1..n : j = f + h - 1
    <3>1. f + h - 1 \in 1..n
      BY <1>2, <1>4, <1>5
    <3> QED
      BY <3>1
  <2>2. f <= j /\ j < f + k /\ j - f + 1 = h
    BY <1>2, <1>4, <1>5, <2>1
  <2>3. PICK i \in 1..l : i = IF j < p THEN j ELSE j + 1
    <3>1. (IF j < p THEN j ELSE j + 1) \in 1..l
      BY <1>1, <1>5
    <3> QED
      BY <3>1
  <2>4. m[i] = d[h]
    BY <1>6, <2>2, <2>3
  <2>5. i # p
    BY <1>1, <1>5, <2>3
  <2>6. i \in DOMAIN m /\ m[i] \notin {Zero, Point}
    BY <1>1, <1>4, <1>8, <2>4, <2>5
  <2>7. weight(i) + x = p - f + x - h
    <3>1. p \in Int /\ f \in Int /\ x \in Int /\ j \in Int /\ n \in Int /\ h \in Int
      BY <1>1, <1>2, <1>4, <1>5
    <3> QED
      BY <2>1, <2>3, <3>1
  <2> HIDE DEF weight
  <2> QED
    BY <2>4, <2>6, <2>7
<1>9. W = V
  <2>1. ASSUME NEW w \in W PROVE w \in V
    <3>1. PICK i \in {j \in DOMAIN m : m[j] \notin {Zero, Point}} :
            w = <<weight(i) + x, m[i]>>
      <4> HIDE DEF weight
      <4> QED
        OBVIOUS
    <3>2. i \in 1..l /\ m[i] # Zero /\ m[i] # Point
      BY <1>1
    <3> HIDE DEF V, W, weight
    <3> QED
      BY <1>7, <3>1, <3>2
  <2>2. ASSUME NEW w \in V PROVE w \in W
    <3>1. PICK i \in {j \in DOMAIN d : d[j] # Zero} : w = <<p - f + x - i, d[i]>>
      OBVIOUS
    <3>2. i \in 1..k /\ d[i] # Zero
      BY <1>2
    <3> HIDE DEF V, W, weight
    <3> QED
      BY <1>8, <3>1, <3>2
  <2> HIDE DEF V, W
  <2> QED
    BY <2>1, <2>2
<1> QED
  BY <1>3, <1>9

-----------------------------------------------------------------------------
(* The mantissas that are written, by std::to_chars and by Layout.         *)

\* m has the digits d from its f-th on, and the point where JSON and
\* ECMAScript allow one.
Form(m, p, f, d) ==
  /\ Carries(m, p, f, d) /\ Len(m) >= 1 /\ p > 1
  /\ m[1] = Zero => p = 2
  /\ p <= Len(m) => p < Len(m) /\ m[Len(m)] # Zero

LEMMA DigitsAre ==
  ASSUME NEW d, Decimals(d), d # <<>>
  PROVE  /\ d \in Seq(Nat) /\ Len(d) \in 1..17 /\ d[1] # Zero /\ d[Len(d)] # Zero
         /\ \A i \in 1..Len(d) : d[i] \in 48..57
<1>1. d \in Seq(Nat) /\ Len(d) <= 17 /\ d[1] # Zero /\ d[Len(d)] # Zero
  BY DEF Decimals
<1>2. Len(d) \in Nat /\ Len(d) # 0
  BY <1>1, EmptySeq
<1>3. ASSUME NEW i \in 1..Len(d) PROVE d[i] \in 48..57
  <2>1. PICK c \in Nat : c = d[i]
    BY <1>1
  <2>2. IsDigit(d[i])
    BY DEF Decimals
  <2>3. c \in 48..57
    <3>1. 48 <= c /\ c <= 57
      BY <2>1, <2>2 DEF IsDigit
    <3> QED
      BY <3>1
  <2> QED
    BY ONLY <2>1, <2>3
<1>4. Len(d) \in 1..17
  <2>1. PICK l \in Nat : l = Len(d) /\ l # 0 /\ l <= 17
    BY <1>1, <1>2
  <2>2. l \in Nat /\ l # 0 /\ l <= 17
    BY <2>1
  <2>3. l \in 1..17
    BY ONLY <2>2
  <2> QED
    BY <2>1, <2>3
<1> QED
  BY <1>1, <1>3, <1>4

\* No point: zeros follow the digits.
LEMMA WholeIs ==
  ASSUME NEW d, Decimals(d), d # <<>>, NEW z \in Nat
  PROVE  Form(d \o Zeros(z), Len(d) + z + 1, 1, d)
<1> DEFINE y == Zeros(z)
           m == d \o y
<1>1. PICK k \in 1..17 : k = Len(d)
  BY DigitsAre
<1>2. /\ d \in Seq(Nat) /\ d[1] # Zero
      /\ \A i \in 1..k : d[i] \in 48..57
  BY <1>1, DigitsAre
<1>3. y \in Seq(Nat) /\ Len(y) = z /\ \A i \in 1..z : y[i] = Zero
  BY ZerosAre
<1> HIDE DEF y
<1>4. m \in Seq(Nat) /\ Joined(m, d, y)
  BY <1>2, <1>3, JoinedIs
<1> HIDE DEF m
<1>5. PICK l \in Nat : l = k + z
  BY <1>1
<1>6. /\ Len(m) = l /\ (\A i \in 1..k : m[i] = d[i])
      /\ \A i \in 1..z : m[k + i] = Zero
  BY <1>1, <1>3, <1>4, <1>5 DEF Joined
<1>7. \A i \in 1..l : m[i] = IF i <= k THEN d[i] ELSE Zero
  <2>1. ASSUME NEW i \in 1..l PROVE m[i] = IF i <= k THEN d[i] ELSE Zero
    <3>1. CASE i <= k
      <4>1. i \in 1..k
        BY <1>1, <3>1
      <4> QED
        BY <1>6, <3>1, <4>1
    <3>2. CASE ~(i <= k)
      <4>1. i - k \in 1..z /\ k + (i - k) = i
        BY <1>1, <1>5, <3>2
      <4> QED
        BY <1>6, <3>2, <4>1
    <3> QED
      BY <3>1, <3>2
  <2> QED
    BY <2>1
<1>8. \A i \in 1..l : m[i] \in 48..57
  <2>1. ASSUME NEW i \in 1..l PROVE m[i] \in 48..57
    <3>1. CASE i <= k
      <4>1. i \in 1..k /\ m[i] = d[i]
        BY <1>1, <1>7, <3>1
      <4> QED
        BY <1>2, <4>1
    <3>2. CASE ~(i <= k)
      BY <1>7, <3>2 DEF Zero
    <3> QED
      BY <3>1, <3>2
  <2> QED
    BY <2>1
<1>9. PICK p \in Nat : p = Len(d) + z + 1 /\ p = l + 1
  BY <1>1, <1>5
<1>10. PointAt(m, p)
  <2>1. \A i \in 1..l : m[i] # Point /\ i # p
    BY <1>5, <1>8, <1>9 DEF Point
  <2>2. p \in 1..(l + 1)
    BY <1>5, <1>9
  <2> QED
    BY <1>4, <1>6, <2>1, <2>2 DEF PointAt
<1>11. HowMany(m, p) = l /\ \A j \in 1..l : DigitAt(m, p, j) = m[j]
  <2>1. ~(p <= l) /\ \A j \in 1..l : j < p
    BY <1>5, <1>9
  <2> QED
    BY <1>6, <2>1 DEF HowMany, DigitAt
<1>12. Carries(m, p, 1, d)
  <2>1. \A i \in 1..l : IsDigit(m[i])
    BY <1>8 DEF IsDigit
  <2>2. 1 \in Nat \ {0} /\ 1 + Len(d) - 1 <= l
    BY <1>1, <1>5
  <2>3. ASSUME NEW j \in 1..l
        PROVE  m[j] = IF 1 <= j /\ j < 1 + Len(d) THEN d[j - 1 + 1] ELSE Zero
    <3>1. (1 <= j /\ j < 1 + Len(d) <=> j <= k) /\ j - 1 + 1 = j
      BY <1>1, <1>5
    <3> QED
      BY <1>7, <3>1
  <2> QED
    BY <1>6, <1>10, <1>11, <2>1, <2>2, <2>3 DEF Carries
<1>13. m[1] # Zero
  <2>1. 1 \in 1..l /\ 1 <= k
    BY <1>1, <1>5
  <2> QED
    BY <1>2, <1>7, <2>1
<1>14. Len(m) >= 1 /\ p > 1 /\ ~(p <= Len(m))
  BY <1>1, <1>5, <1>6, <1>9
<1>15. Form(m, p, 1, d)
  BY <1>12, <1>13, <1>14 DEF Form
<1> QED
  BY <1>9, <1>15 DEF m, y

\* A point among the digits.
LEMMA PointedIs ==
  ASSUME NEW d, Decimals(d), d # <<>>, NEW n \in 1..(Len(d) - 1),
         NEW m \in Seq(Nat), Len(m) = Len(d) + 1, m[n + 1] = Point,
         \A i \in 1..n : m[i] = d[i],
         \A i \in 1..(Len(d) - n) : m[n + 1 + i] = d[n + i]
  PROVE  Form(m, n + 1, 1, d)
<1>1. PICK k \in 1..17 : k = Len(d)
  BY DigitsAre
<1>2. /\ d \in Seq(Nat) /\ d[1] # Zero /\ d[k] # Zero
      /\ \A i \in 1..k : d[i] \in 48..57
  BY <1>1, DigitsAre
<1>3. PICK p \in Nat : p = n + 1 /\ p <= k /\ p > 1
  BY <1>1
<1>4. \A i \in 1..(k - n) : m[p + i] = d[n + i]
  BY <1>1, <1>3
<1>5. ASSUME NEW j \in 1..k
      PROVE  m[IF j < p THEN j ELSE j + 1] = d[j]
  <2>1. CASE j < p
    <3>1. j \in 1..n
      BY <1>3, <2>1
    <3> QED
      BY <2>1, <3>1
  <2>2. CASE ~(j < p)
    <3>1. PICK i \in 1..(k - n) : i = j - n
      <4>1. j - n \in 1..(k - n)
        BY <1>1, <1>3, <2>2
      <4> QED
        BY <4>1
    <3>2. p + i = j + 1 /\ n + i = j
      BY <1>1, <1>3, <3>1
    <3> QED
      BY <1>4, <2>2, <3>2
  <2> QED
    BY <2>1, <2>2
<1>6. ASSUME NEW i \in 1..(k + 1), i # p
      PROVE  m[i] \in 48..57
  <2>1. PICK j \in 1..k : i = IF j < p THEN j ELSE j + 1
    <3>1. CASE i < p
      <4>1. i \in 1..k
        BY <1>1, <1>3, <3>1
      <4> QED
        BY <3>1, <4>1
    <3>2. CASE i > p
      <4>1. i - 1 \in 1..k /\ ~(i - 1 < p) /\ i - 1 + 1 = i
        BY <1>1, <1>3, <3>2
      <4> QED
        BY <4>1
    <3> QED
      BY <1>3, <1>6, <3>1, <3>2
  <2> QED
    BY <1>2, <1>5, <2>1
<1>7. PointAt(m, p)
  <2>1. m[p] = Point
    BY <1>3
  <2>2. ASSUME NEW i \in 1..(k + 1), i # p PROVE m[i] # Point
    <3>1. PICK c \in 48..57 : c = m[i]
      BY <1>6, <2>2
    <3>2. c # Point
      BY ONLY c \in 48..57 DEF Point
    <3> QED
      BY <3>1, <3>2
  <2>3. p \in 1..(k + 1 + 1)
    BY <1>1, <1>3
  <2> QED
    BY <1>1, <2>1, <2>2, <2>3 DEF PointAt
<1>8. HowMany(m, p) = k /\ \A j \in 1..k : DigitAt(m, p, j) = d[j]
  <2>1. p <= k + 1 /\ k + 1 - 1 = k
    BY <1>1, <1>3
  <2> QED
    BY <1>1, <1>5, <2>1 DEF HowMany, DigitAt
<1>9. Carries(m, p, 1, d)
  <2>1. ASSUME NEW i \in 1..(k + 1) PROVE IsDigit(m[i]) \/ i = p
    <3>1. \A c \in 48..57 : IsDigit(c)
      BY ONLY DEF IsDigit
    <3>2. i = p \/ m[i] \in 48..57
      BY <1>6
    <3> QED
      BY <3>1, <3>2
  <2>2. 1 \in Nat \ {0} /\ 1 + Len(d) - 1 <= k
    BY <1>1
  <2>3. ASSUME NEW j \in 1..k
        PROVE  DigitAt(m, p, j)
                 = IF 1 <= j /\ j < 1 + Len(d) THEN d[j - 1 + 1] ELSE Zero
    <3>1. 1 <= j /\ j < 1 + Len(d) /\ j - 1 + 1 = j
      BY <1>1
    <3> QED
      BY <1>8, <3>1
  <2> QED
    BY <1>1, <1>7, <1>8, <2>1, <2>2, <2>3 DEF Carries
<1>10. m[1] # Zero
  <2>1. 1 \in 1..n
    OBVIOUS
  <2> QED
    BY <1>2, <2>1
<1>11. m[Len(m)] # Zero /\ p < Len(m) /\ Len(m) >= 1
  <2>1. ~(k < p) /\ k \in 1..k
    BY <1>1, <1>3
  <2>2. m[k + 1] = d[k]
    BY <1>5, <2>1
  <2>3. Len(m) = k + 1
    BY <1>1
  <2>4. p < k + 1 /\ k + 1 >= 1
    BY <1>1, <1>3
  <2> QED
    BY <1>2, <2>2, <2>3, <2>4
<1> QED
  BY <1>3, <1>9, <1>10, <1>11 DEF Form

\* Zeros before the digits, and after the point.
LEMMA SmallIs ==
  ASSUME NEW d, Decimals(d), d # <<>>, NEW z \in Nat
  PROVE  Form(<<Zero, Point>> \o Zeros(z) \o d, 2, z + 2, d)
<1> DEFINE y == Zeros(z)
           q == <<Zero, Point>>
           v == q \o y
           m == v \o d
<1>1. PICK k \in 1..17 : k = Len(d)
  BY DigitsAre
<1>2. /\ d \in Seq(Nat) /\ d[k] # Zero
      /\ \A i \in 1..k : d[i] \in 48..57
  BY <1>1, DigitsAre
<1>3. y \in Seq(Nat) /\ Len(y) = z /\ \A i \in 1..z : y[i] = Zero
  BY ZerosAre
<1>4. q \in Seq(Nat) /\ Len(q) = 2 /\ q[1] = Zero /\ q[2] = Point
  BY DEF Zero, Point
<1> HIDE DEF y, q
<1>5. v \in Seq(Nat) /\ Joined(v, q, y)
  BY <1>3, <1>4, JoinedIs
<1> HIDE DEF v
<1>6. m \in Seq(Nat) /\ Joined(m, v, d)
  BY <1>2, <1>5, JoinedIs
<1> HIDE DEF m
<1>7. /\ Len(v) = 2 + z /\ v[1] = Zero /\ v[2] = Point
      /\ \A i \in 1..z : v[2 + i] = Zero
  <2>1. /\ Len(v) = 2 + z /\ (\A i \in 1..2 : v[i] = q[i])
        /\ \A i \in 1..z : v[2 + i] = y[i]
    BY <1>3, <1>4, <1>5 DEF Joined
  <2>2. 1 \in 1..2 /\ 2 \in 1..2
    OBVIOUS
  <2> QED
    BY <1>3, <1>4, <2>1, <2>2
<1>8. /\ Len(m) = 2 + z + k /\ (\A i \in 1..(2 + z) : m[i] = v[i])
      /\ \A i \in 1..k : m[2 + z + i] = d[i]
  BY <1>1, <1>6, <1>7 DEF Joined
<1>9. m[1] = Zero /\ m[2] = Point /\ \A i \in 1..z : m[2 + i] = Zero
  <2>1. /\ 1 \in 1..(2 + z) /\ 2 \in 1..(2 + z)
        /\ \A i \in 1..z : 2 + i \in 1..(2 + z)
    OBVIOUS
  <2> QED
    BY <1>7, <1>8, <2>1
<1>10. PICK c \in Nat : c = 1 + z + k
  BY <1>1
<1>11. ASSUME NEW j \in 1..c
       PROVE  m[IF j < 2 THEN j ELSE j + 1]
                = IF z + 2 <= j /\ j < z + 2 + k THEN d[j - (z + 2) + 1] ELSE Zero
  <2>1. CASE j = 1
    <3>1. j < 2 /\ ~(z + 2 <= j)
      BY <2>1
    <3> QED
      BY <1>9, <2>1, <3>1
  <2>2. CASE j # 1 /\ j <= z + 1
    <3>1. j - 1 \in 1..z /\ 2 + (j - 1) = j + 1 /\ ~(j < 2) /\ ~(z + 2 <= j)
      BY <1>10, <2>2
    <3>2. m[2 + (j - 1)] = Zero
      BY <1>9, <3>1
    <3> QED
      BY <3>1, <3>2
  <2>3. CASE ~(j <= z + 1)
    <3>1. /\ j - (z + 2) + 1 \in 1..k /\ 2 + z + (j - (z + 2) + 1) = j + 1
          /\ ~(j < 2) /\ z + 2 <= j /\ j < z + 2 + k
      BY <1>1, <1>10, <2>3
    <3>2. m[2 + z + (j - (z + 2) + 1)] = d[j - (z + 2) + 1]
      BY <1>8, <3>1
    <3> QED
      BY <3>1, <3>2
  <2> QED
    BY <2>1, <2>2, <2>3
<1>12. \A i \in 1..Len(m) : i = 1 \/ i = 2 \/ i - 2 \in 1..z \/ i - (2 + z) \in 1..k
  BY <1>1, <1>8
<1>13. ASSUME NEW i \in 1..Len(m), i # 2 PROVE m[i] \in 48..57
  <2>1. CASE i = 1
    BY <1>9, <2>1 DEF Zero
  <2>2. CASE i - 2 \in 1..z
    <3>1. 2 + (i - 2) = i
      OBVIOUS
    <3>2. m[2 + (i - 2)] = Zero
      BY <1>9, <2>2
    <3> QED
      BY <3>1, <3>2 DEF Zero
  <2>3. CASE i - (2 + z) \in 1..k
    <3>1. 2 + z + (i - (2 + z)) = i
      OBVIOUS
    <3>2. m[2 + z + (i - (2 + z))] = d[i - (2 + z)]
      BY <1>8, <2>3
    <3>3. d[i - (2 + z)] \in 48..57
      BY <1>2, <2>3
    <3> QED
      BY <3>1, <3>2, <3>3
  <2> QED
    BY <1>12, <1>13, <2>1, <2>2, <2>3
<1>14. PointAt(m, 2)
  <2>1. 2 \in 1..(Len(m) + 1)
    BY <1>1, <1>8
  <2>2. \A i \in 1..Len(m) : i # 2 => m[i] # Point
    BY <1>13 DEF Point
  <2> QED
    BY <1>6, <1>9, <2>1, <2>2 DEF PointAt
<1>15. HowMany(m, 2) = c
  <2>1. 2 <= Len(m) /\ Len(m) - 1 = c
    BY <1>1, <1>8, <1>10
  <2> QED
    BY <2>1 DEF HowMany
<1>16. Carries(m, 2, z + 2, d)
  <2>1. \A i \in 1..Len(m) : IsDigit(m[i]) \/ i = 2
    BY <1>13 DEF IsDigit
  <2>2. z + 2 \in Nat \ {0} /\ z + 2 + Len(d) - 1 <= c
    BY <1>1, <1>10
  <2>3. \A j \in 1..c : DigitAt(m, 2, j)
           = IF z + 2 <= j /\ j < z + 2 + Len(d) THEN d[j - (z + 2) + 1] ELSE Zero
    BY <1>1, <1>11 DEF DigitAt
  <2> QED
    BY <1>14, <1>15, <2>1, <2>2, <2>3 DEF Carries
<1>17. Len(m) >= 1 /\ 2 < Len(m) /\ m[Len(m)] # Zero
  <2>1. k \in 1..k /\ 2 + z + k = Len(m)
    BY <1>1, <1>8
  <2>2. m[Len(m)] = d[k]
    BY <1>8, <2>1
  <2> QED
    BY <1>1, <1>2, <1>8, <2>2
<1>18. Form(m, 2, z + 2, d)
  BY <1>16, <1>17 DEF Form
<1> QED
  BY <1>18 DEF m, v, y, q

-----------------------------------------------------------------------------
(* Exponents.                                                              *)

\* What up to three digits are worth.
Worth(D) ==
  IF Len(D) = 1 THEN D[1] - Zero
  ELSE IF Len(D) = 2 THEN (D[1] - Zero) * 10 + (D[2] - Zero)
  ELSE ((D[1] - Zero) * 10 + (D[2] - Zero)) * 10 + (D[3] - Zero)

\* D is a number of digits, without a zero before them.
Numeral(D, s) ==
  /\ D \in Seq(Nat) /\ Len(D) \in 1..3 /\ \A i \in 1..Len(D) : IsDigit(D[i])
  /\ Worth(D) = s /\ (s > 0 => D[1] # Zero) /\ (Len(D) = 1 <=> s < 10)

LEMMA DecimalIs ==
  ASSUME NEW s \in Int, 0 <= s, s <= 324
  PROVE  Numeral(Decimal(s), s)
<1> DEFINE D == Decimal(s)
           a == (s \div 100) % 10
           b == (s \div 10) % 10
           c == (s \div 1) % 10
<1>1. a \in 0..9 /\ b \in 0..9 /\ c \in 0..9 /\ s = 100 * a + 10 * b + c
  OBVIOUS
<1>2. D = IF s < 10 THEN <<Zero + c>>
          ELSE IF s < 100 THEN <<Zero + b, Zero + c>>
          ELSE <<Zero + a, Zero + b, Zero + c>>
  BY DEF Decimal
<1> HIDE DEF D, a, b, c
<1> DEFINE A == Zero + a
           B == Zero + b
           C == Zero + c
<1>3. /\ A \in Nat /\ IsDigit(A) /\ A - Zero = a /\ (a > 0 => A # Zero)
      /\ B \in Nat /\ IsDigit(B) /\ B - Zero = b /\ (b > 0 => B # Zero)
      /\ C \in Nat /\ IsDigit(C) /\ C - Zero = c /\ (c > 0 => C # Zero)
  <2>1. A \in Nat /\ IsDigit(A) /\ A - Zero = a /\ (a > 0 => A # Zero)
    BY <1>1 DEF A, B, C, IsDigit, Zero
  <2>2. B \in Nat /\ IsDigit(B) /\ B - Zero = b /\ (b > 0 => B # Zero)
    BY <1>1 DEF A, B, C, IsDigit, Zero
  <2>3. C \in Nat /\ IsDigit(C) /\ C - Zero = c /\ (c > 0 => C # Zero)
    BY <1>1 DEF A, B, C, IsDigit, Zero
  <2> QED
    BY <2>1, <2>2, <2>3
<1>4. D = IF s < 10 THEN <<C>> ELSE IF s < 100 THEN <<B, C>> ELSE <<A, B, C>>
  BY <1>2
<1> HIDE DEF A, B, C
<1>5. CASE s < 10
  <2>1. D = <<C>> /\ s = c
    BY <1>1, <1>5, <1>4
  <2>2. D \in Seq(Nat) /\ Len(D) = 1 /\ D[1] = C
    BY <1>3, <2>1
  <2>3. Worth(D) = s
    BY <1>3, <2>1, <2>2 DEF Worth
  <2>4. \A i \in 1..1 : IsDigit(D[i])
    <3>1. IsDigit(D[1])
      BY <1>3, <2>2
    <3> QED
      BY <3>1
  <2>5. s > 0 => D[1] # Zero
    BY <1>3, <2>1, <2>2
  <2>6. Numeral(D, s)
    BY <1>5, <2>2, <2>3, <2>4, <2>5 DEF Numeral
  <2> QED
    BY <2>6 DEF D
<1>6. CASE ~(s < 10) /\ s < 100
  <2>1. D = <<B, C>> /\ s = b * 10 + c /\ b > 0
    BY <1>1, <1>6, <1>4
  <2>2. D \in Seq(Nat) /\ Len(D) = 2 /\ D[1] = B /\ D[2] = C
    BY <1>3, <2>1
  <2>3. Worth(D) = s
    <3>1. Worth(D) = (D[1] - Zero) * 10 + (D[2] - Zero)
      BY <2>2 DEF Worth
    <3> QED
      BY <1>3, <2>1, <2>2, <3>1
  <2>4. \A i \in 1..2 : IsDigit(D[i])
    <3>1. IsDigit(D[1]) /\ IsDigit(D[2])
      BY <1>3, <2>2
    <3> QED
      BY <3>1
  <2>5. D[1] # Zero
    BY <1>3, <2>1, <2>2
  <2>6. Numeral(D, s)
    BY <1>6, <2>2, <2>3, <2>4, <2>5 DEF Numeral
  <2> QED
    BY <2>6 DEF D
<1>7. CASE ~(s < 100)
  <2>1. D = <<A, B, C>> /\ s = (a * 10 + b) * 10 + c /\ a > 0 /\ ~(s < 10)
    BY <1>1, <1>7, <1>4
  <2>2. D \in Seq(Nat) /\ Len(D) = 3 /\ D[1] = A /\ D[2] = B /\ D[3] = C
    BY <1>3, <2>1
  <2>3. Worth(D) = s
    <3>1. Worth(D) = ((D[1] - Zero) * 10 + (D[2] - Zero)) * 10 + (D[3] - Zero)
      BY <2>2 DEF Worth
    <3> QED
      BY <1>3, <2>1, <2>2, <3>1
  <2>4. \A i \in 1..3 : IsDigit(D[i])
    <3>1. IsDigit(D[1]) /\ IsDigit(D[2]) /\ IsDigit(D[3])
      BY <1>3, <2>2
    <3> QED
      BY <3>1
  <2>5. D[1] # Zero
    BY <1>3, <2>1, <2>2
  <2>6. Numeral(D, s)
    BY <2>1, <2>2, <2>3, <2>4, <2>5 DEF Numeral
  <2> QED
    BY <2>6 DEF D
<1> QED
  BY <1>5, <1>6, <1>7

\* std::to_chars has two digits at least.
Padded(s) == (IF s < 10 THEN <<Zero>> ELSE <<>>) \o Decimal(s)

LEMMA PaddedIs ==
  ASSUME NEW s \in 0..324
  PROVE  /\ Padded(s) \in Seq(Nat) /\ Len(Padded(s)) \in 1..3
         /\ \A i \in 1..Len(Padded(s)) : IsDigit(Padded(s)[i])
         /\ Worth(Padded(s)) = s
<1> DEFINE D == Decimal(s)
           q == <<Zero>>
           P == q \o D
<1>1. Numeral(D, s)
  BY DecimalIs
<1> HIDE DEF D
<1>2. D \in Seq(Nat)
  BY <1>1 DEF Numeral
<1>3. CASE s < 10
  <2>1. Padded(s) = P
    BY <1>3 DEF Padded, D
  <2>2. q \in Seq(Nat) /\ Len(q) = 1 /\ q[1] = Zero
    BY DEF Zero
  <2> HIDE DEF q
  <2>3. P \in Seq(Nat) /\ Joined(P, q, D)
    BY <1>2, <2>2, JoinedIs
  <2> HIDE DEF P
  <2>4. Len(D) = 1 /\ D[1] - Zero = s /\ IsDigit(D[1]) /\ D[1] \in Nat
    <3>1. Len(D) = 1 /\ 1 \in 1..Len(D)
      BY <1>1, <1>3 DEF Numeral
    <3> QED
      BY <1>1, <1>2, <3>1 DEF Numeral, Worth
  <2>5. Len(P) = 2 /\ P[1] = Zero /\ P[2] = D[1]
    <3>1. 1 \in 1..Len(q) /\ 1 \in 1..Len(D) /\ Len(q) + 1 = 2
      BY <2>2, <2>4
    <3> QED
      BY <2>2, <2>3, <2>4, <3>1 DEF Joined
  <2>6. Worth(P) = s
    BY <2>4, <2>5 DEF Worth, Zero
  <2>7. \A i \in 1..2 : IsDigit(P[i])
    <3>1. IsDigit(P[1]) /\ IsDigit(P[2])
      BY <2>4, <2>5 DEF IsDigit, Zero
    <3> QED
      BY <3>1
  <2> QED
    BY <2>1, <2>3, <2>5, <2>6, <2>7
<1>4. CASE ~(s < 10)
  <2>1. Padded(s) = D
    <3>1. Padded(s) = <<>> \o D
      BY <1>4 DEF Padded, D
    <3> QED
      BY <1>2, <3>1, ConcatEmptySeq
  <2> QED
    BY <1>1, <2>1 DEF Numeral
<1> QED
  BY <1>3, <1>4

Exponent(sign, D) == <<sign>> \o D

\* A sign and its digits, as both readers take them apart.
LEMMA ExponentIs ==
  ASSUME NEW sign \in {Plus, Minus}, NEW D \in Seq(Nat), Len(D) \in 1..3
  PROVE  /\ Exponent(sign, D) \in Seq(Nat)
         /\ Len(Exponent(sign, D)) = Len(D) + 1 /\ Exponent(sign, D) # <<>>
         /\ Exponent(sign, D)[1] = sign /\ Tail(Exponent(sign, D)) = D
         /\ \A i \in 1..Len(D) : Exponent(sign, D)[i + 1] = D[i]
<1> DEFINE q == <<sign>>
           e == q \o D
<1>1. q \in Seq(Nat) /\ Len(q) = 1 /\ q[1] = sign
  BY DEF Plus, Minus
<1>2. Exponent(sign, D) = e
  BY DEF Exponent
<1> HIDE DEF q
<1>3. e \in Seq(Nat) /\ Joined(e, q, D)
  BY <1>1, JoinedIs
<1> HIDE DEF e
<1>4. PICK l \in Nat : l = Len(D) /\ l >= 1
  <2>1. PICK k \in 1..3 : k = Len(D)
    OBVIOUS
  <2>2. k \in Nat /\ k >= 1
    OBVIOUS
  <2> QED
    BY <2>1, <2>2
<1>5. Len(e) = l + 1 /\ e[1] = sign /\ \A i \in 1..l : e[1 + i] = D[i]
  BY <1>1, <1>3, <1>4 DEF Joined
<1>6. \A i \in 1..l : e[i + 1] = D[i]
  BY <1>5
<1>7. e # <<>>
  BY <1>4, <1>5
<1>8. Tail(e) = D
  <2> DEFINE y == Tail(e)
  <2>1. y \in Seq(Nat) /\ Len(y) = Len(e) - 1 /\ \A i \in 1..Len(y) : y[i] = e[i + 1]
    BY <1>3, <1>7, HeadTailProperties
  <2> HIDE DEF y
  <2>2. Len(y) = l
    BY <1>4, <1>5, <2>1
  <2>3. \A i \in 1..l : y[i] = D[i]
    BY <1>6, <2>1, <2>2
  <2>4. y = D
    BY <1>4, <2>1, <2>2, <2>3, SeqEqual
  <2> QED
    BY <2>4 DEF y
<1> QED
  BY <1>2, <1>3, <1>4, <1>5, <1>6, <1>7, <1>8

Towards(sign, s) == IF sign = Minus THEN 0 - s ELSE s

LEMMA ParseExponentIs ==
  ASSUME NEW sign \in {Plus, Minus}, NEW D \in Seq(Nat), Len(D) \in 1..3
  PROVE  ParseExponent(Exponent(sign, D)) = Towards(sign, Worth(D))
<1> DEFINE e == Exponent(sign, D)
           N == Len(D)
           step == [x \in Int \X (1..N) |-> x[1] * 10 + (D[x[2]] - Zero)]
           E(f, i) == IF i = 0 THEN 0 ELSE f[i - 1] * 10 + (D[i] - Zero)
           h == CHOOSE f : f = [i \in 0..N |-> E(f, i)]
<1>1. e # <<>> /\ e[1] = sign /\ Tail(e) = D
  BY ExponentIs
<1> HIDE DEF e
<1>2. N \in Nat /\ N \in 1..3 /\ \A i \in 1..N : D[i] - Zero \in Int
  <2>1. N \in Nat /\ N \in 1..3
    OBVIOUS
  <2>2. \A i \in 1..N : D[i] \in Nat
    OBVIOUS
  <2> QED
    BY <2>1, <2>2 DEF Zero
<1>3. step \in [Int \X (1..N) -> Int]
  <2>1. ASSUME NEW x \in Int \X (1..N) PROVE x[1] * 10 + (D[x[2]] - Zero) \in Int
    <3>1. x[1] \in Int /\ x[2] \in 1..N
      OBVIOUS
    <3>2. D[x[2]] - Zero \in Int
      BY <1>2, <3>1
    <3> QED
      BY <3>1, <3>2
  <2> HIDE DEF N
  <2> QED
    BY <2>1
<1>4. PICK g : Recursion(g, Int, N, 0, step)
  <2>1. 0 \in Int /\ N \in Nat
    BY <1>2
  <2> HIDE DEF step, N
  <2> QED
    BY <1>3, <2>1, Recurs
<1>5. /\ g \in [0..N -> Int] /\ g[0] = 0
      /\ \A i \in 1..N : g[i] = step[<<g[i - 1], i>>]
  <2> HIDE DEF step, N
  <2> QED
    BY <1>4 DEF Recursion
<1>6. \E f : f = [i \in 0..N |-> E(f, i)]
  <2>1. ASSUME NEW i \in 0..N PROVE g[i] = E(g, i)
    <3>1. CASE i = 0
      BY <1>5, <3>1
    <3>2. CASE i # 0
      <4>1. i \in 1..N /\ i - 1 \in 0..N
        BY <1>2, <3>2
      <4>2. g[i - 1] \in Int
        BY <1>5, <4>1
      <4>3. g[i] = step[<<g[i - 1], i>>]
        BY <1>5, <4>1
      <4> HIDE DEF N
      <4>4. <<g[i - 1], i>> \in Int \X (1..N)
        BY <4>1, <4>2
      <4>5. step[<<g[i - 1], i>>] = g[i - 1] * 10 + (D[i] - Zero)
        BY <4>4
      <4> QED
        BY <3>2, <4>3, <4>5
    <3> QED
      BY <3>1, <3>2
  <2> HIDE DEF E, N, step
  <2>2. g = [i \in 0..N |-> E(g, i)]
    BY <1>5, <2>1
  <2> QED
    BY <2>2
<1>7. h = [i \in 0..N |-> E(h, i)]
  <2> HIDE DEF E, N
  <2> QED
    BY <1>6
<1>8. ParseExponent(e) = IF sign = Minus THEN 0 - h[N] ELSE h[N]
  <2>1. Magnitude(D) = h[N]
    BY DEF Magnitude
  <2> HIDE DEF h
  <2> QED
    BY <1>1, <2>1 DEF ParseExponent
<1> HIDE DEF h
<1>9. \A i \in 0..N : h[i] = E(h, i)
  <2> HIDE DEF E, N
  <2> QED
    BY <1>7
<1>10. h[N] = Worth(D)
  <2>1. h[0] = 0
    BY <1>2, <1>9
  <2>2. 1 \in 0..N /\ 1 - 1 = 0 /\ 1 \in 1..N
    <3>1. \A z \in 1..3 : 1 \in 0..z /\ 1 - 1 = 0 /\ 1 \in 1..z
      OBVIOUS
    <3>2. N \in 1..3
      BY <1>2
    <3> QED
      BY ONLY <3>1, <3>2
  <2>3. h[1] = 0 * 10 + (D[1] - Zero)
    BY <1>9, <2>1, <2>2
  <2>4. h[1] = D[1] - Zero
    BY <1>2, <2>2, <2>3
  <2>5. CASE N = 1
    BY <2>4, <2>5 DEF Worth
  <2>6. CASE N = 2
    <3>1. 2 \in 0..N /\ 2 - 1 = 1
      BY <2>6
    <3>2. h[2] = (D[1] - Zero) * 10 + (D[2] - Zero)
      BY <1>9, <2>4, <3>1
    <3> QED
      BY <2>6, <3>2 DEF Worth
  <2>7. CASE N = 3
    <3>1. 2 \in 0..N /\ 2 - 1 = 1 /\ 3 \in 0..N /\ 3 - 1 = 2
      BY <2>7
    <3>2. h[2] = (D[1] - Zero) * 10 + (D[2] - Zero)
      BY <1>9, <2>4, <3>1
    <3>3. h[3] = ((D[1] - Zero) * 10 + (D[2] - Zero)) * 10 + (D[3] - Zero)
      BY <1>9, <3>1, <3>2
    <3> QED
      BY <2>7, <3>3 DEF Worth
  <2> QED
    BY <1>2, <2>5, <2>6, <2>7
<1> QED
  BY <1>8, <1>10 DEF e, Towards

LEMMA ExponentReadIs ==
  ASSUME NEW sign \in {Plus, Minus}, NEW D \in Seq(Nat), Len(D) \in 1..3
  PROVE  ExponentRead(Exponent(sign, D)) = Towards(sign, Worth(D))
<1> DEFINE e == Exponent(sign, D)
           place(k) == IF Len(e) - k > 1 THEN e[Len(e) - k] - Zero ELSE 0
           size == place(0) + 10 * place(1) + 100 * place(2)
<1>1. /\ Len(e) = Len(D) + 1 /\ e # <<>> /\ e[1] = sign
      /\ \A i \in 1..Len(D) : e[i + 1] = D[i]
  BY ExponentIs
<1>2. ExponentRead(e) = IF sign = Minus THEN 0 - size ELSE size
  BY <1>1 DEF ExponentRead
<1>3. \A i \in 1..Len(D) : D[i] \in Nat
  OBVIOUS
<1> HIDE DEF e
<1>4. size = Worth(D)
  <2>1. CASE Len(D) = 1
    <3>1. Len(e) = 2 /\ e[2] = D[1] /\ D[1] \in Nat
      <4>1. 1 \in 1..Len(D) /\ 1 + 1 = 2
        BY <2>1
      <4> QED
        BY <1>1, <1>3, <2>1, <4>1
    <3>2. place(0) = D[1] - Zero /\ place(1) = 0 /\ place(2) = 0
      BY <3>1
    <3> HIDE DEF place
    <3> QED
      BY <2>1, <3>1, <3>2 DEF Worth, Zero
  <2>2. CASE Len(D) = 2
    <3>1. Len(e) = 3 /\ e[2] = D[1] /\ e[3] = D[2] /\ D[1] \in Nat /\ D[2] \in Nat
      <4>1. 1 \in 1..Len(D) /\ 1 + 1 = 2 /\ 2 \in 1..Len(D) /\ 2 + 1 = 3
        BY <2>2
      <4> QED
        BY <1>1, <1>3, <2>2, <4>1
    <3>2. place(0) = D[2] - Zero /\ place(1) = D[1] - Zero /\ place(2) = 0
      BY <3>1
    <3> HIDE DEF place
    <3> QED
      BY <2>2, <3>1, <3>2 DEF Worth, Zero
  <2>3. CASE Len(D) = 3
    <3>1. /\ Len(e) = 4 /\ e[2] = D[1] /\ e[3] = D[2] /\ e[4] = D[3]
          /\ D[1] \in Nat /\ D[2] \in Nat /\ D[3] \in Nat
      <4>1. /\ 1 \in 1..Len(D) /\ 1 + 1 = 2 /\ 2 \in 1..Len(D) /\ 2 + 1 = 3
            /\ 3 \in 1..Len(D) /\ 3 + 1 = 4
        BY <2>3
      <4> QED
        BY <1>1, <1>3, <2>3, <4>1
    <3>2. place(0) = D[3] - Zero /\ place(1) = D[2] - Zero /\ place(2) = D[1] - Zero
      BY <3>1
    <3>3. Worth(D) = ((D[1] - Zero) * 10 + (D[2] - Zero)) * 10 + (D[3] - Zero)
      BY <2>3 DEF Worth
    <3>4. PICK a \in Int, b \in Int, c \in Int :
            a = D[1] - Zero /\ b = D[2] - Zero /\ c = D[3] - Zero
      <4>1. \A x \in Nat : x - Zero \in Int
        BY DEF Zero
      <4>2. D[1] - Zero \in Int /\ D[2] - Zero \in Int /\ D[3] - Zero \in Int
        BY ONLY <3>1, <4>1
      <4> QED
        BY ONLY <4>2
    <3>5. Worth(D) = (a * 10 + b) * 10 + c
      BY <3>3, <3>4
    <3>6. size = c + 10 * b + 100 * a
      BY <3>2, <3>4
    <3>7. (a * 10 + b) * 10 + c = c + 10 * b + 100 * a
      BY a \in Int, b \in Int, c \in Int
    <3> QED
      BY <3>5, <3>6, <3>7
  <2> QED
    BY <2>1, <2>2, <2>3
<1> QED
  BY <1>2, <1>4 DEF e, Towards

-----------------------------------------------------------------------------
(* Texts of a number without its sign.                                     *)

LEMMA SplitIs ==
  ASSUME NEW d, Decimals(d), d # <<>>, NEW n \in 1..(Len(d) - 1)
  PROVE  /\ Form(SubSeq(d, 1, n) \o <<Point>> \o Drop(d, n), n + 1, 1, d)
         /\ Len(SubSeq(d, 1, n) \o <<Point>> \o Drop(d, n)) = Len(d) + 1
<1> DEFINE a == SubSeq(d, 1, n)
           q == <<Point>>
           b == Drop(d, n)
           v == a \o q
           m == v \o b
<1>1. PICK k \in 1..17 : k = Len(d)
  BY DigitsAre
<1>2. d \in Seq(Nat) /\ n \in Nat /\ n < k /\ n >= 1
  BY <1>1, DigitsAre
<1>3. a \in Seq(Nat) /\ Len(a) = n /\ \A i \in 1..n : a[i] = d[i]
  <2>1. Sliced(a, d, 1, n)
    BY <1>1, <1>2, SliceIs
  <2>2. n - 1 + 1 = n /\ \A i \in 1..n : 1 + i - 1 = i
    BY <1>2
  <2> HIDE DEF a
  <2> QED
    BY <2>1, <2>2 DEF Sliced
<1>4. b \in Seq(Nat) /\ Len(b) = k - n /\ \A i \in 1..(k - n) : b[i] = d[n + i]
  <2>1. b = SubSeq(d, n + 1, k)
    BY <1>1 DEF Drop
  <2>2. Sliced(SubSeq(d, n + 1, k), d, n + 1, k)
    BY <1>1, <1>2, SliceIs
  <2>3. k - (n + 1) + 1 = k - n /\ \A i \in 1..(k - n) : n + 1 + i - 1 = n + i
    BY <1>1, <1>2
  <2> HIDE DEF b
  <2> QED
    BY <2>1, <2>2, <2>3 DEF Sliced
<1>5. q \in Seq(Nat) /\ Len(q) = 1 /\ q[1] = Point
  BY DEF Point
<1> HIDE DEF a, b, q
<1>6. v \in Seq(Nat) /\ Joined(v, a, q)
  BY <1>3, <1>5, JoinedIs
<1> HIDE DEF v
<1>7. m \in Seq(Nat) /\ Joined(m, v, b)
  BY <1>4, <1>6, JoinedIs
<1> HIDE DEF m
<1>8. Len(v) = n + 1 /\ v[n + 1] = Point /\ \A i \in 1..n : v[i] = d[i]
  BY <1>3, <1>5, <1>6 DEF Joined
<1>9. /\ Len(m) = Len(v) + Len(b) /\ \A i \in 1..Len(v) : m[i] = v[i]
      /\ \A i \in 1..Len(b) : m[Len(v) + i] = b[i]
  BY <1>7 DEF Joined
<1>10. Len(m) = Len(d) + 1
  <2>1. Len(m) = n + 1 + (k - n)
    BY <1>4, <1>8, <1>9
  <2>2. n + 1 + (k - n) = k + 1
    BY <1>2
  <2> QED
    BY <1>1, <2>1, <2>2
<1>11. m[n + 1] = Point /\ \A i \in 1..n : m[i] = d[i]
  <2>1. n + 1 \in 1..Len(v) /\ \A i \in 1..n : i \in 1..Len(v)
    BY <1>2, <1>8
  <2> QED
    BY <1>8, <1>9, <2>1
<1>12. \A i \in 1..(Len(d) - n) : m[n + 1 + i] = d[n + i]
  BY <1>1, <1>4, <1>8, <1>9
<1>13. Form(m, n + 1, 1, d)
  BY <1>7, <1>10, <1>11, <1>12, PointedIs
<1> QED
  BY <1>10, <1>13 DEF m, v, a, b, q

\* A digit, and a point if others follow.
First(d) == <<d[1]>> \o (IF Len(d) > 1 THEN <<Point>> \o Drop(d, 1) ELSE <<>>)

LEMMA Associative ==
  ASSUME NEW x \in Seq(Nat), NEW y \in Seq(Nat), NEW z \in Seq(Nat)
  PROVE  (x \o y) \o z = x \o (y \o z)
<1> DEFINE a == x \o y
           b == a \o z
           c == y \o z
           e == x \o c
<1>1. PICK k \in Nat, l \in Nat, h \in Nat : k = Len(x) /\ l = Len(y) /\ h = Len(z)
  OBVIOUS
<1>2. a \in Seq(Nat) /\ Joined(a, x, y) /\ c \in Seq(Nat) /\ Joined(c, y, z)
  BY JoinedIs
<1> HIDE DEF a, c
<1>3. b \in Seq(Nat) /\ Joined(b, a, z) /\ e \in Seq(Nat) /\ Joined(e, x, c)
  BY <1>2, JoinedIs
<1> HIDE DEF b, e
<1>4. /\ Len(a) = k + l /\ (\A i \in 1..k : a[i] = x[i])
      /\ \A i \in 1..l : a[k + i] = y[i]
  BY <1>1, <1>2 DEF Joined
<1>5. /\ Len(c) = l + h /\ (\A i \in 1..l : c[i] = y[i])
      /\ \A i \in 1..h : c[l + i] = z[i]
  BY <1>1, <1>2 DEF Joined
<1>6. /\ Len(b) = k + l + h /\ (\A i \in 1..(k + l) : b[i] = a[i])
      /\ \A i \in 1..h : b[k + l + i] = z[i]
  BY <1>1, <1>3, <1>4 DEF Joined
<1>7. /\ Len(e) = k + (l + h) /\ (\A i \in 1..k : e[i] = x[i])
      /\ \A i \in 1..(l + h) : e[k + i] = c[i]
  BY <1>1, <1>3, <1>5 DEF Joined
<1>8. ASSUME NEW i \in 1..(k + l + h) PROVE b[i] = e[i]
  <2>1. CASE i <= k
    <3>1. i \in 1..k /\ i \in 1..(k + l)
      BY <2>1
    <3> QED
      BY <1>4, <1>6, <1>7, <3>1
  <2>2. CASE ~(i <= k) /\ i <= k + l
    <3>1. PICK j \in 1..l : i = k + j
      <4>1. i - k \in 1..l /\ i = k + (i - k)
        BY <2>2
      <4> QED
        BY <4>1
    <3>2. i \in 1..(k + l) /\ j \in 1..(l + h)
      BY <2>2
    <3>3. b[i] = y[j]
      BY <1>4, <1>6, <3>1, <3>2
    <3>4. e[i] = y[j]
      BY <1>5, <1>7, <3>1, <3>2
    <3> QED
      BY <3>3, <3>4
  <2>3. CASE ~(i <= k + l)
    <3>1. PICK j \in 1..h : i = k + l + j
      <4>1. i - (k + l) \in 1..h /\ i = k + l + (i - (k + l))
        BY <2>3
      <4> QED
        BY <4>1
    <3>2. l + j \in 1..(l + h) /\ i = k + (l + j)
      BY <3>1
    <3>3. b[i] = z[j]
      BY <1>6, <3>1
    <3>4. e[i] = z[j]
      BY <1>5, <1>7, <3>1, <3>2
    <3> QED
      BY <3>3, <3>4
  <2> QED
    BY <2>1, <2>2, <2>3
<1>9. Len(b) = Len(e) /\ Len(b) = k + l + h
  BY <1>6, <1>7
<1>10. b = e
  BY <1>3, <1>8, <1>9, SeqEqual
<1> QED
  BY <1>10 DEF a, b, c, e

LEMMA FirstIs ==
  ASSUME NEW d, Decimals(d), d # <<>>
  PROVE  Form(First(d), 2, 1, d) /\ Len(First(d)) <= 18
<1>1. PICK k \in 1..17 : k = Len(d)
  BY DigitsAre
<1>2. d \in Seq(Nat) /\ d[1] \in Nat
  <2>1. 1 \in 1..Len(d) /\ d \in Seq(Nat)
    BY <1>1, DigitsAre
  <2> QED
    BY <2>1
<1>3. CASE k = 1
  <2>1. First(d) = <<d[1]>>
    BY <1>1, <1>2, <1>3, ConcatEmptySeq DEF First
  <2>2. <<d[1]>> = d
    <3> DEFINE y == <<d[1]>>
    <3>1. y \in Seq(Nat) /\ Len(y) = 1 /\ y[1] = d[1]
      BY <1>2
    <3> HIDE DEF y
    <3>2. Len(d) = 1 /\ \A i \in 1..1 : y[i] = d[i]
      BY <1>1, <1>3, <3>1
    <3>3. y = d
      BY <1>2, <3>1, <3>2, SeqEqual
    <3> QED
      BY <3>3 DEF y
  <2>3. d \o Zeros(0) = d
    <3>1. Zeros(0) = <<>>
      BY ZerosAre, EmptySeq
    <3> QED
      BY <1>2, <3>1, ConcatEmptySeq
  <2>4. Form(d \o Zeros(0), Len(d) + 0 + 1, 1, d)
    BY WholeIs
  <2>5. Len(d) + 0 + 1 = 2 /\ Len(d) <= 18
    BY <1>1, <1>3
  <2> QED
    BY <2>1, <2>2, <2>3, <2>4, <2>5
<1>4. CASE k # 1
  <2> DEFINE b == Drop(d, 1)
             x == <<d[1]>>
             q == <<Point>>
  <2>1. First(d) = x \o (q \o b)
    BY <1>1, <1>4 DEF First
  <2>2. SubSeq(d, 1, 1) = x
    <3> DEFINE y == SubSeq(d, 1, 1)
    <3>1. Sliced(y, d, 1, 1)
      BY <1>1, <1>2, SliceIs
    <3>2. x \in Seq(Nat) /\ Len(x) = 1 /\ x[1] = d[1]
      BY <1>2
    <3> HIDE DEF x, y
    <3>3. y \in Seq(Nat) /\ Len(y) = 1 /\ y[1] = d[1]
      BY <3>1 DEF Sliced
    <3>4. \A i \in 1..1 : y[i] = x[i]
      BY <3>2, <3>3
    <3>5. y = x
      BY <3>2, <3>3, <3>4, SeqEqual
    <3> QED
      BY <3>5 DEF y
  <2>3. x \in Seq(Nat) /\ q \in Seq(Nat)
    BY <1>2 DEF Point
  <2>4. b \in Seq(Nat)
    <3>1. Sliced(SubSeq(d, 2, k), d, 2, k)
      BY <1>1, <1>2, SliceIs
    <3>2. b = SubSeq(d, 2, k)
      BY <1>1 DEF Drop
    <3> HIDE DEF b
    <3> QED
      BY <3>1, <3>2 DEF Sliced
  <2>5. 1 \in 1..(Len(d) - 1) /\ 1 + 1 = 2
    BY <1>1, <1>4
  <2>6. /\ Form(SubSeq(d, 1, 1) \o q \o b, 1 + 1, 1, d)
        /\ Len(SubSeq(d, 1, 1) \o q \o b) = Len(d) + 1
    BY <2>5, SplitIs
  <2> HIDE DEF x, q, b
  <2>7. x \o (q \o b) = (x \o q) \o b
    BY ONLY <2>3, <2>4, Associative
  <2>8. Len(d) + 1 <= 18
    <3>1. k + 1 <= 18
      OBVIOUS
    <3> QED
      BY <1>1, <3>1
  <2> QED
    BY <2>1, <2>2, <2>5, <2>6, <2>7, <2>8
<1> QED
  BY <1>3, <1>4

\* A mantissa of the digits d and an exponent, if marked, that make n.
Parts(text, d, n, marked, e, m, p, f, x) ==
  /\ Cut(text, m, e, marked) /\ Form(m, p, f, d) /\ x \in Int /\ n = p - f + x
  /\ ~marked => x = 0 /\ e = <<>>
  /\ marked => /\ p = 2
               /\ \E sign \in {Plus, Minus}, D \in Seq(Nat) :
                    /\ Len(D) \in 1..3 /\ \A i \in 1..Len(D) : IsDigit(D[i])
                    /\ e = Exponent(sign, D) /\ x = Towards(sign, Worth(D))

Spread(text, d, n, marked, e) == \E m, p, f, x : Parts(text, d, n, marked, e, m, p, f, x)

LEMMA NoMarkerIn ==
  ASSUME NEW m, NEW p, NEW f, NEW d, Form(m, p, f, d)
  PROVE  /\ m \in Seq(Nat) /\ Len(m) >= 1 /\ m[1] # Minus
         /\ \A i \in 1..Len(m) : m[i] # Marker
<1>1. m \in Seq(Nat) /\ \A i \in 1..Len(m) : m[i] = Point <=> i = p
  BY DEF Form, Carries, PointAt
<1>2. ASSUME NEW i \in 1..Len(m) PROVE m[i] # Marker
  <2>1. IsDigit(m[i]) \/ m[i] = Point
    BY <1>1 DEF Form, Carries
  <2> QED
    BY <2>1 DEF IsDigit, Point, Marker
<1>3. Len(m) >= 1 /\ p > 1
  BY DEF Form
<1>4. m[1] # Minus
  <2>1. 1 \in 1..Len(m) /\ 1 # p
    <3>1. p \in Int
      BY <1>1 DEF Form, Carries, PointAt
    <3> QED
      BY <1>1, <1>3, <3>1
  <2>2. IsDigit(m[1])
    BY <2>1 DEF Form, Carries
  <2> QED
    BY <2>2 DEF IsDigit, Minus
<1> QED
  BY <1>1, <1>2, <1>3, <1>4

LEMMA Unmarked ==
  ASSUME NEW m, NEW p, NEW f, NEW d, Form(m, p, f, d), NEW n \in Int, n = p - f
  PROVE  Spread(m, d, n, FALSE, <<>>)
<1>1. m \in Seq(Nat) /\ \A i \in 1..Len(m) : m[i] # Marker
  BY NoMarkerIn
<1>2. Cut(m, m, <<>>, FALSE)
  BY <1>1, Uncut
<1>3. p - f + 0 = n
  <2>1. p \in Int /\ f \in Int
    BY DEF Form, Carries, PointAt
  <2> QED
    BY <2>1
<1>4. 0 \in Int /\ n = p - f + 0
  BY <1>3
<1>5. Parts(m, d, n, FALSE, <<>>, m, p, f, 0)
  BY <1>2, <1>4, Zenon DEF Parts
<1> QED
  BY <1>5 DEF Spread

LEMMA MarkedIs ==
  ASSUME NEW m, NEW d, Form(m, 2, 1, d), NEW n \in Int,
         NEW sign \in {Plus, Minus}, NEW D \in Seq(Nat), Len(D) \in 1..3,
         \A i \in 1..Len(D) : IsDigit(D[i]),
         n - 1 = Towards(sign, Worth(D))
  PROVE  Spread(m \o (<<Marker>> \o Exponent(sign, D)), d, n, TRUE, Exponent(sign, D))
<1> DEFINE e == Exponent(sign, D)
           text == m \o (<<Marker>> \o e)
<1>1. m \in Seq(Nat) /\ \A i \in 1..Len(m) : m[i] # Marker
  BY NoMarkerIn
<1>2. e \in Seq(Nat)
  BY ExponentIs
<1>3. Cut(text, m, e, TRUE)
  <2> HIDE DEF e
  <2> QED
    BY <1>1, <1>2, CutAtMarker
<1> HIDE DEF text
<1>4. n - 1 \in Int /\ n = 2 - 1 + (n - 1)
  OBVIOUS
<1>5. \E g \in {Plus, Minus}, F \in Seq(Nat) :
        /\ Len(F) \in 1..3 /\ \A i \in 1..Len(F) : IsDigit(F[i])
        /\ e = Exponent(g, F) /\ n - 1 = Towards(g, Worth(F))
  OBVIOUS
<1> HIDE DEF e
<1>6. Parts(text, d, n, TRUE, e, m, 2, 1, n - 1)
  BY <1>3, <1>4, <1>5 DEF Parts
<1>7. Spread(text, d, n, TRUE, e)
  BY <1>6 DEF Spread
<1> QED
  BY <1>7 DEF text, e

\* Whichever text it is, CanonicalNumber lays out the same.
LEMMA SpreadLaid ==
  ASSUME NEW d, Decimals(d), d # <<>>, NEW text, NEW n, NEW marked \in BOOLEAN,
         NEW e, Spread(text, d, n, marked, e)
  PROVE  Laid(text) = Layout(d, n)
<1>1. PICK m, p, f, x : Parts(text, d, n, marked, e, m, p, f, x)
  BY DEF Spread
<1>2. /\ Cut(text, m, e, marked) /\ Carries(m, p, f, d) /\ x \in Int
      /\ n = p - f + x
  BY <1>1 DEF Parts, Form
<1>3. x = IF marked THEN ParseExponent(e) ELSE 0
  <2>1. CASE ~marked
    BY <1>1, <2>1 DEF Parts
  <2>2. CASE marked
    <3>1. PICK sign \in {Plus, Minus}, D \in Seq(Nat) :
            /\ Len(D) \in 1..3 /\ e = Exponent(sign, D)
            /\ x = Towards(sign, Worth(D))
      BY <1>1, <2>2 DEF Parts
    <3>2. ParseExponent(Exponent(sign, D)) = Towards(sign, Worth(D))
      BY <3>1, ParseExponentIs
    <3> QED
      BY <2>2, <3>1, <3>2
  <2> QED
    BY <2>1, <2>2
<1>4. Laid(text) = Layout(d, p - f + x)
  BY <1>2, <1>3, LaidIs
<1> QED
  BY <1>2, <1>4

\* Nor does it begin with a sign.
LEMMA SpreadUnsigned ==
  ASSUME NEW d, NEW text, NEW n, NEW marked, NEW e, Spread(text, d, n, marked, e)
  PROVE  text \in Seq(Nat) /\ text # <<>> /\ text[1] # Minus
<1>1. PICK m, p, f, x : Parts(text, d, n, marked, e, m, p, f, x)
  BY DEF Spread
<1>2. m \in Seq(Nat) /\ Len(m) >= 1 /\ m[1] # Minus
  BY <1>1, NoMarkerIn DEF Parts
<1>3. /\ text \in Seq(Nat) /\ Len(m) <= Len(text)
      /\ \A i \in 1..Len(m) : text[i] = m[i]
  BY <1>1 DEF Parts, Cut
<1>4. PICK l \in Nat : l = Len(m) /\ l >= 1
  BY <1>2
<1>5. text[1] # Minus
  <2>1. 1 \in 1..l
    BY <1>4
  <2> QED
    BY <1>2, <1>3, <1>4, <2>1
<1>6. text # <<>>
  <2>1. Len(text) # 0
    BY <1>3, <1>4
  <2> QED
    BY <2>1, EmptySeq
<1> QED
  BY <1>3, <1>5, <1>6

Reassociates(x, y, z) == (x \o y) \o z = x \o (y \o z)

LEMMA Associates ==
  \A x, y, z \in Seq(Nat) : Reassociates(x, y, z)
BY Associative DEF Reassociates

LEMMA MarkerThen ==
  ASSUME NEW F \in Seq(Nat), NEW sign \in {Plus, Minus}, NEW D \in Seq(Nat)
  PROVE  /\ F \o (<<Marker, sign>> \o D) = F \o (<<Marker>> \o Exponent(sign, D))
         /\ (F \o <<Marker, sign>>) \o D = F \o (<<Marker>> \o Exponent(sign, D))
<1>1. PICK q \in Seq(Nat) : q = <<Marker>> /\ Len(q) = 1 /\ q[1] = Marker
  <2>1. <<Marker>> \in Seq(Nat) /\ Len(<<Marker>>) = 1 /\ <<Marker>>[1] = Marker
    BY DEF Marker
  <2> QED
    BY <2>1
<1>2. PICK s \in Seq(Nat) : s = <<sign>> /\ Len(s) = 1 /\ s[1] = sign
  <2>1. <<sign>> \in Seq(Nat) /\ Len(<<sign>>) = 1 /\ <<sign>>[1] = sign
    BY DEF Plus, Minus
  <2> QED
    BY <2>1
<1>3. PICK b \in Seq(Nat) :
        b = <<Marker, sign>> /\ Len(b) = 2 /\ b[1] = Marker /\ b[2] = sign
  <2>1. /\ <<Marker, sign>> \in Seq(Nat) /\ Len(<<Marker, sign>>) = 2
        /\ <<Marker, sign>>[1] = Marker /\ <<Marker, sign>>[2] = sign
    BY DEF Marker, Plus, Minus
  <2> QED
    BY <2>1
<1>4. q \o s = b
  <2>1. PICK y : y = q \o s
    OBVIOUS
  <2>2. y \in Seq(Nat) /\ Joined(y, q, s)
    BY <2>1, JoinedIs
  <2>3. Len(y) = 2 /\ y[1] = Marker /\ y[1 + 1] = sign
    <3>1. 1 \in 1..1 /\ 1 + 1 = 2
      OBVIOUS
    <3> QED
      BY <1>1, <1>2, <2>2, <3>1 DEF Joined
  <2>4. \A i \in 1..2 : y[i] = b[i]
    <3>1. \A i \in 1..2 : i = 1 \/ i = 2
      OBVIOUS
    <3> QED
      BY <1>3, <2>3, <3>1
  <2>5. y = b
    BY <1>3, <2>2, <2>3, <2>4, SeqEqual
  <2> QED
    BY <2>1, <2>5
<1>5. (q \o s) \o D = q \o (s \o D)
  <2>1. Reassociates(q, s, D)
    BY Associates
  <2> QED
    BY ONLY <2>1 DEF Reassociates
<1>6. (F \o b) \o D = F \o (b \o D)
  <2>1. Reassociates(F, b, D)
    BY Associates
  <2> QED
    BY ONLY <2>1 DEF Reassociates
<1>7. Exponent(sign, D) = s \o D
  BY <1>2 DEF Exponent
<1> QED
  BY <1>1, <1>3, <1>4, <1>5, <1>6, <1>7

LEMMA LengthsAdd ==
  ASSUME NEW x \in Seq(Nat), NEW y \in Seq(Nat)
  PROVE  Len(x \o y) = Len(x) + Len(y)
BY ConcatProperties

LEMMA ScientificIs ==
  ASSUME NEW d, Decimals(d), d # <<>>, NEW n \in Int, 0 - 323 <= n, n <= 309, NEW number,
         NEW negative, number = Number(negative, d, n)
  PROVE  /\ \E e : Spread(Scientific(number), d, n, TRUE, e)
         /\ Len(Scientific(number)) <= 24
<1> DEFINE s == IF n - 1 < 0 THEN 0 - (n - 1) ELSE n - 1
           sign == IF n - 1 < 0 THEN Minus ELSE Plus
           z == IF s < 10 THEN <<Zero>> ELSE <<>>
           F == First(d)
           P == Padded(s)
           e == Exponent(sign, P)
           b == <<Marker, sign>>
           D == Decimal(s)
<1>1. s \in 0..324 /\ sign \in {Plus, Minus} /\ n - 1 = Towards(sign, s)
  BY DEF Towards, Plus, Minus
<1>2. PICK k \in 1..17 : k = Len(d)
  BY DigitsAre
<1>3. Form(F, 2, 1, d) /\ Len(F) <= 18 /\ F \in Seq(Nat)
  BY FirstIs, NoMarkerIn
<1>4. Scientific(number) = ((F \o b) \o z) \o D
  <2>1. Len(d) > 1 <=> Len(d) # 1
    <3>1. k > 1 <=> k # 1
      OBVIOUS
    <3> QED
      BY <1>2, <3>1
  <2>2. F = <<d[1]>> \o (IF Len(d) = 1 THEN <<>> ELSE <<Point>> \o Drop(d, 1))
    BY <2>1 DEF First
  <2>3. number.digits = d /\ number.n = n
    BY DEF Number
  <2> QED
    BY <2>2, <2>3 DEF Scientific
<1>5. P = z \o D
  BY DEF Padded
<1>6. z \in Seq(Nat) /\ D \in Seq(Nat) /\ b \in Seq(Nat) /\ Len(b) = 2
  <2>1. z \in Seq(Nat)
    BY EmptySeq DEF Zero
  <2>2. Numeral(D, s)
    <3>1. s \in 0..324
      BY <1>1
    <3>2. PICK r \in Int : r = s /\ 0 <= r /\ r <= 324
      BY <3>1
    <3>3. Numeral(Decimal(r), r)
      BY ONLY <3>2, r \in Int, DecimalIs
    <3> HIDE DEF s
    <3> QED
      BY <3>2, <3>3
  <2>3. sign \in Nat /\ Marker \in Nat
    BY DEF Plus, Minus, Marker
  <2> QED
    BY <2>1, <2>2, <2>3 DEF Numeral
<1>7. /\ P \in Seq(Nat) /\ Len(P) \in 1..3
      /\ \A i \in 1..Len(P) : IsDigit(P[i])
      /\ Worth(P) = s
  <2> HIDE DEF s
  <2> QED
    BY <1>1, PaddedIs
<1> HIDE DEF s, sign, z, F, P, b, D
<1>8. ((F \o b) \o z) \o D = (F \o b) \o P
  <2>1. F \o b \in Seq(Nat)
    BY <1>3, <1>6, ConcatProperties
  <2>2. ((F \o b) \o z) \o D = (F \o b) \o (z \o D)
    BY <1>6, <2>1, Associative
  <2> QED
    BY <1>5, <2>2
<1>9. (F \o b) \o P = F \o (<<Marker>> \o e)
  <2>1. (F \o <<Marker, sign>>) \o P = F \o (<<Marker>> \o Exponent(sign, P))
    BY <1>1, <1>3, <1>7, MarkerThen
  <2> QED
    BY <2>1 DEF b
<1>10. Spread(F \o (<<Marker>> \o e), d, n, TRUE, e)
  <2>1. n - 1 = Towards(sign, Worth(P)) /\ n \in Int
    BY <1>1, <1>7
  <2> QED
    BY <1>1, <1>3, <1>7, <2>1, MarkedIs
<1>11. Len((F \o b) \o P) <= 24
  <2>1. F \o b \in Seq(Nat)
    BY <1>3, <1>6, ConcatProperties
  <2>2. Len((F \o b) \o P) = Len(F \o b) + Len(P) /\ Len(F \o b) = Len(F) + Len(b)
    BY <1>3, <1>6, <1>7, <2>1, LengthsAdd
  <2>3. PICK l \in Nat, h \in 1..3 : l = Len(F) /\ h = Len(P)
    BY <1>3, <1>7
  <2>4. l <= 18
    BY <1>3, <2>3
  <2>5. l + 2 + h <= 24
    BY <2>4, l \in Nat, h \in 1..3
  <2> QED
    BY <1>6, <2>2, <2>3, <2>5
<1>12. Scientific(number) = F \o (<<Marker>> \o e)
  BY <1>4, <1>8, <1>9
<1>13. Len(Scientific(number)) <= 24
  BY <1>4, <1>8, <1>11
<1> HIDE DEF e
<1> QED
  BY <1>10, <1>12, <1>13

LEMMA FixedIs ==
  ASSUME NEW d, Decimals(d), d # <<>>, NEW n \in Int, NEW number,
         NEW negative, number = Number(negative, d, n)
  PROVE  Spread(Fixed(number), d, n, FALSE, <<>>)
<1>1. PICK k \in 1..17 : k = Len(d)
  BY DigitsAre
<1>2. n \in Int /\ number.digits = d /\ number.n = n
  BY DEF Number
<1>3. CASE n <= 0
  <2>1. Fixed(number) = <<Zero, Point>> \o Zeros(0 - n) \o d
    BY <1>2, <1>3 DEF Fixed
  <2>2. PICK z \in Nat : z = 0 - n
    BY <1>2, <1>3
  <2>3. PICK f : f = z + 2 /\ Form(<<Zero, Point>> \o Zeros(z) \o d, 2, f, d)
    BY SmallIs
  <2>4. n = 2 - f
    BY <1>2, <2>2, <2>3
  <2>5. Spread(<<Zero, Point>> \o Zeros(z) \o d, d, n, FALSE, <<>>)
    BY <1>2, <2>3, <2>4, Unmarked
  <2> QED
    BY <2>1, <2>2, <2>5
<1>4. CASE n > 0 /\ n >= k
  <2>1. Fixed(number) = d \o Zeros(n - k)
    BY <1>1, <1>2, <1>4 DEF Fixed
  <2>2. PICK z \in Nat : z = n - k
    BY <1>2, <1>4
  <2>3. PICK p : p = Len(d) + z + 1 /\ Form(d \o Zeros(z), p, 1, d)
    BY WholeIs
  <2>4. n = p - 1
    BY <1>1, <1>2, <2>2, <2>3
  <2>5. Spread(d \o Zeros(z), d, n, FALSE, <<>>)
    BY <1>2, <2>3, <2>4, Unmarked
  <2> QED
    BY <2>1, <2>2, <2>5
<1>5. CASE n > 0 /\ ~(n >= k)
  <2>1. Fixed(number) = SubSeq(d, 1, n) \o <<Point>> \o Drop(d, n)
    BY <1>1, <1>2, <1>5 DEF Fixed
  <2>2. n \in 1..(Len(d) - 1)
    BY <1>1, <1>2, <1>5
  <2>3. PICK p : /\ p = n + 1
                 /\ Form(SubSeq(d, 1, n) \o <<Point>> \o Drop(d, n), p, 1, d)
    BY <2>2, SplitIs
  <2>5. n = p - 1
    BY <1>2, <2>3
  <2>4. Spread(SubSeq(d, 1, n) \o <<Point>> \o Drop(d, n), d, n, FALSE, <<>>)
    BY <1>2, <2>3, <2>5, Unmarked
  <2> QED
    BY <2>1, <2>4
<1>6. n <= 0 \/ (n > 0 /\ n >= k) \/ (n > 0 /\ ~(n >= k))
  OBVIOUS
<1> QED
  BY <1>3, <1>4, <1>5, <1>6

\* Layout writes an exponent where ECMAScript does, without a zero before it.
LEMMA LayoutIs ==
  ASSUME NEW d, Decimals(d), d # <<>>, NEW n \in Int, 0 - 323 <= n, n <= 309
  PROVE  \E e : /\ Spread(Layout(d, n), d, n, ~Plain(n), e)
                /\ ~Plain(n) => e[2] # Zero
<1>1. PICK k \in 1..17 : k = Len(d)
  BY DigitsAre
<1>2. n \in Int
  OBVIOUS
<1>3. CASE Plain(n) /\ k <= n
  <2>1. Layout(d, n) = d \o Zeros(n - k)
    BY <1>1, <1>3 DEF Layout
  <2>2. PICK z \in Nat : z = n - k
    BY <1>2, <1>3
  <2>3. PICK p : p = Len(d) + z + 1 /\ Form(d \o Zeros(z), p, 1, d)
    BY WholeIs
  <2>4. n = p - 1
    BY <1>1, <1>2, <2>2, <2>3
  <2>5. Spread(d \o Zeros(z), d, n, FALSE, <<>>)
    BY <1>2, <2>3, <2>4, Unmarked
  <2>6. ~Plain(n) = FALSE
    BY <1>3
  <2> QED
    BY <1>3, <2>1, <2>2, <2>5, <2>6
<1>4. CASE Plain(n) /\ ~(k <= n) /\ 0 < n
  <2>1. Layout(d, n) = SubSeq(d, 1, n) \o <<Point>> \o Drop(d, n)
    BY <1>1, <1>4 DEF Layout
  <2>2. n \in 1..(Len(d) - 1)
    BY <1>1, <1>2, <1>4
  <2>3. PICK p : /\ p = n + 1
                 /\ Form(SubSeq(d, 1, n) \o <<Point>> \o Drop(d, n), p, 1, d)
    BY <2>2, SplitIs
  <2>7. n = p - 1
    BY <1>2, <2>3
  <2>4. Spread(SubSeq(d, 1, n) \o <<Point>> \o Drop(d, n), d, n, FALSE, <<>>)
    BY <1>2, <2>3, <2>7, Unmarked
  <2>5. ~Plain(n) = FALSE
    BY <1>4
  <2> QED
    BY <1>4, <2>1, <2>4, <2>5
<1>5. CASE Plain(n) /\ ~(k <= n) /\ ~(0 < n)
  <2>1. Layout(d, n) = <<Zero, Point>> \o Zeros(0 - n) \o d
    BY <1>1, <1>5 DEF Layout
  <2>2. PICK z \in Nat : z = 0 - n
    BY <1>2, <1>5
  <2>3. PICK f : f = z + 2 /\ Form(<<Zero, Point>> \o Zeros(z) \o d, 2, f, d)
    BY SmallIs
  <2>4. n = 2 - f
    BY <1>2, <2>2, <2>3
  <2>5. Spread(<<Zero, Point>> \o Zeros(z) \o d, d, n, FALSE, <<>>)
    BY <1>2, <2>3, <2>4, Unmarked
  <2>6. ~Plain(n) = FALSE
    BY <1>5
  <2> QED
    BY <1>5, <2>1, <2>2, <2>5, <2>6
<1>6. CASE ~Plain(n)
  <2> DEFINE s == IF n - 1 < 0 THEN 0 - (n - 1) ELSE n - 1
             sign == IF n - 1 < 0 THEN Minus ELSE Plus
             D == Decimal(s)
             F == First(d)
             e == Exponent(sign, D)
  <2>1. s \in 0..324 /\ s > 0 /\ sign \in {Plus, Minus} /\ n - 1 = Towards(sign, s)
    BY <1>6 DEF Plain, Towards, Plus, Minus
  <2>2. Numeral(D, s)
    <3>1. s \in 0..324
      BY <2>1
    <3>2. PICK r \in Int : r = s /\ 0 <= r /\ r <= 324
      BY <3>1
    <3>3. Numeral(Decimal(r), r)
      BY ONLY <3>2, r \in Int, DecimalIs
    <3> HIDE DEF s
    <3> QED
      BY <3>2, <3>3
  <2>3. Form(F, 2, 1, d) /\ F \in Seq(Nat)
    BY FirstIs, NoMarkerIn
  <2>4. Layout(d, n) = F \o (<<Marker, sign>> \o D)
    BY <1>6 DEF Layout, First
  <2> HIDE DEF s, sign, D, F
  <2>5. /\ D \in Seq(Nat) /\ Len(D) \in 1..3 /\ \A i \in 1..Len(D) : IsDigit(D[i])
        /\ Worth(D) = s /\ D[1] # Zero
    BY <2>1, <2>2 DEF Numeral
  <2>6. F \o (<<Marker, sign>> \o D) = F \o (<<Marker>> \o e)
    BY <2>1, <2>3, <2>5, MarkerThen
  <2>7. Spread(F \o (<<Marker>> \o e), d, n, TRUE, e)
    <3>1. n - 1 = Towards(sign, Worth(D)) /\ n \in Int
      BY <2>1, <2>5
    <3> QED
      BY <2>1, <2>3, <2>5, <3>1, MarkedIs
  <2>8. e[2] # Zero
    <3>1. \A i \in 1..Len(D) : e[i + 1] = D[i]
      BY <2>1, <2>5, ExponentIs
    <3>2. 1 \in 1..Len(D) /\ 1 + 1 = 2
      <4>1. PICK l \in 1..3 : l = Len(D)
        BY <2>5
      <4> QED
        BY <4>1
    <3>3. e[2] = D[1]
      BY <3>1, <3>2
    <3> QED
      BY <2>5, <3>3
  <2>9. ~Plain(n) = TRUE
    BY <1>6
  <2> HIDE DEF e
  <2> QED
    BY <2>4, <2>6, <2>7, <2>8, <2>9
<1> QED
  BY <1>3, <1>4, <1>5, <1>6

-----------------------------------------------------------------------------
(* Every number is written as one text, and that reads as the number.      *)

LEMMA CanonicalIsLaid ==
  ASSUME NEW x \in Seq(Nat), x # <<>>, x[1] # Minus, NEW negative \in BOOLEAN
  PROVE  CanonicalNumber(Signed(negative, x)) = Signed(negative, Laid(x))
<1> DEFINE rep == Signed(negative, x)
<1>1. (rep[1] = Minus <=> negative) /\ Unsigned(rep) = x
  BY SignedIs
<1> HIDE DEF rep
<1>2. CASE rep[1] = Minus
  <2>1. Tail(rep) = x /\ negative
    BY <1>1, <1>2 DEF Unsigned
  <2> QED
    BY <1>2, <2>1 DEF CanonicalNumber, Laid, Signed, rep
<1>3. CASE rep[1] # Minus
  <2>1. rep = x /\ ~negative
    BY <1>1, <1>3 DEF Unsigned
  <2> QED
    BY <1>3, <2>1 DEF CanonicalNumber, Laid, Signed, rep
<1> QED
  BY <1>2, <1>3

LEMMA OneText ==
  ASSUME NEW d, Decimals(d), d # <<>>, NEW n \in Int, 0 - 323 <= n, n <= 309,
         NEW negative \in BOOLEAN
  PROVE  NumberTexts(Number(negative, d, n)) = {Signed(negative, Layout(d, n))}
<1> DEFINE number == Number(negative, d, n)
           F == Fixed(number)
           S == Scientific(number)
           R == Signed(negative, Layout(d, n))
<1>1. Spread(F, d, n, FALSE, <<>>)
  BY FixedIs
<1>2. (\E e : Spread(S, d, n, TRUE, e)) /\ Len(S) <= 24
  BY ScientificIs
<1>3. PICK e : Spread(S, d, n, TRUE, e)
  BY <1>2
<1>4. number.digits = d /\ number.negative = negative
  BY DEF Number
<1> HIDE DEF number
<1>5. ToChars(number) = {text \in {Signed(negative, F), Signed(negative, S)} :
                           Len(text) <= BufferSize}
  BY <1>4 DEF ToChars, Signed
<1> HIDE DEF F, S
<1>6. F \in Seq(Nat) /\ F # <<>> /\ F[1] # Minus /\ Laid(F) = Layout(d, n)
  BY <1>1, SpreadUnsigned, SpreadLaid
<1>7. S \in Seq(Nat) /\ S # <<>> /\ S[1] # Minus /\ Laid(S) = Layout(d, n)
  BY <1>3, SpreadUnsigned, SpreadLaid
<1>8. CanonicalNumber(Signed(negative, F)) = R
  BY <1>6, CanonicalIsLaid
<1>9. CanonicalNumber(Signed(negative, S)) = R
  BY <1>7, CanonicalIsLaid
<1>10. Len(Signed(negative, S)) <= BufferSize
  <2>1. Len(Signed(negative, S)) <= Len(S) + 1
    BY <1>7, SignedIs
  <2>2. PICK l \in Nat : l = Len(S)
    BY <1>7
  <2>3. Signed(negative, S) \in Seq(Nat)
    <3>1. (IF negative THEN <<Minus>> ELSE <<>>) \in Seq(Nat)
      BY EmptySeq DEF Minus
    <3> QED
      BY <1>7, <3>1, ConcatProperties DEF Signed
  <2>4. PICK h \in Nat : h = Len(Signed(negative, S))
    BY <2>3
  <2>5. h <= l + 1 /\ l <= 24
    BY <1>2, <2>1, <2>2, <2>4
  <2>6. h <= 128
    BY <2>5, h \in Nat, l \in Nat
  <2> QED
    BY <2>4, <2>6 DEF BufferSize
<1> HIDE DEF R
<1>11. Signed(negative, S) \in ToChars(number)
  BY <1>5, <1>10
<1>12. \A text \in ToChars(number) : CanonicalNumber(text) = R
  BY <1>5, <1>8, <1>9
<1>13. {CanonicalNumber(text) : text \in ToChars(number)} = {R}
  BY <1>11, <1>12
<1> QED
  BY <1>4, <1>13 DEF NumberTexts, number, R

LEMMA LaidOutReads ==
  ASSUME NEW d, Decimals(d), d # <<>>, NEW text, NEW n \in Int,
         NEW marked \in BOOLEAN, NEW e, Spread(text, d, n, marked, e),
         marked <=> ~Plain(n), marked => e[2] # Zero, NEW negative \in BOOLEAN
  PROVE  NumberReads(Signed(negative, text), Number(negative, d, n))
<1> DEFINE s == Signed(negative, text)
           number == Number(negative, d, n)
           V == {<<n - i, d[i]>> : i \in {j \in DOMAIN d : d[j] # Zero}}
<1>1. PICK m, p, f, x : Parts(text, d, n, marked, e, m, p, f, x)
  BY DEF Spread
<1>2. PICK k \in 1..17 : k = Len(d)
  BY DigitsAre
<1>3. d \in Seq(Nat) /\ d[1] # Zero /\ DOMAIN d = 1..k
  BY <1>2, DigitsAre
<1>4. number.digits = d /\ number.negative = negative /\ number.n = n
  BY DEF Number
<1>5. (s[1] = Minus <=> negative) /\ Unsigned(s) = text
  <2>1. text \in Seq(Nat) /\ text # <<>> /\ text[1] # Minus
    BY SpreadUnsigned
  <2> QED
    BY <2>1, SignedIs
<1> HIDE DEF s, number
<1>6. /\ Cut(text, m, e, marked) /\ Form(m, p, f, d) /\ x \in Int
      /\ n = p - f + x
  BY <1>1 DEF Parts
<1>7. /\ Carries(m, p, f, d) /\ Len(m) >= 1 /\ p > 1 /\ (m[1] = Zero => p = 2)
      /\ p <= Len(m) => p < Len(m) /\ m[Len(m)] # Zero
  BY <1>6 DEF Form
<1>8. Weights(m, x) = V
  <2>1. Weights(m, x) = {<<p - f + x - i, d[i]>> :
                            i \in {j \in DOMAIN d : d[j] # Zero}}
    BY <1>6, <1>7, WeightsAre
  <2>2. \A i \in DOMAIN d : p - f + x - i = n - i
    <3>1. p \in Int /\ f \in Int
      BY <1>7 DEF Carries, PointAt
    <3> QED
      BY <1>3, <1>6, <3>1
  <2> QED
    BY <2>1, <2>2
<1>9. ExponentRead(e) = x
  <2>1. CASE ~marked
    <3>1. e = <<>> /\ x = 0
      BY <1>1, <2>1 DEF Parts
    <3> QED
      BY <3>1 DEF ExponentRead
  <2>2. CASE marked
    <3>1. PICK sign \in {Plus, Minus}, D \in Seq(Nat) :
            /\ Len(D) \in 1..3 /\ e = Exponent(sign, D)
            /\ x = Towards(sign, Worth(D))
      BY <1>1, <2>2 DEF Parts
    <3>2. ExponentRead(Exponent(sign, D)) = Towards(sign, Worth(D))
      BY <3>1, ExponentReadIs
    <3> QED
      BY <3>1, <3>2
  <2> QED
    BY <2>1, <2>2
<1>10. EcmaScriptForm(m, x, marked)
  <2> DEFINE high == {w[1] : w \in Weights(m, x)}
  <2>1. n - 1 \in high
    <3>1. 1 \in {j \in DOMAIN d : d[j] # Zero}
      BY <1>2, <1>3
    <3>2. <<n - 1, d[1]>> \in V
      BY <3>1
    <3>3. <<n - 1, d[1]>>[1] = n - 1
      OBVIOUS
    <3> HIDE DEF V
    <3> QED
      BY <1>8, <3>2, <3>3
  <2>2. \A h \in high : h \in Int /\ h <= n - 1
    <3>1. ASSUME NEW h \in high PROVE h \in Int /\ h <= n - 1
      <4>1. PICK w \in V : h = w[1]
        <5> HIDE DEF V
        <5> QED
          BY <1>8
      <4>2. PICK i \in {j \in DOMAIN d : d[j] # Zero} : w = <<n - i, d[i]>>
        OBVIOUS
      <4>3. h = n - i /\ i \in 1..k
        BY <1>3, <4>1, <4>2
      <4> QED
        BY <4>3
    <3> QED
      BY <3>1
  <2> HIDE DEF high
  <2>3. high # {} /\ Max(high) = n - 1
    <3>1. high \in SUBSET Int
      BY <2>2
    <3>2. \A h \in high : n - 1 >= h
      BY <2>2, <3>1
    <3> QED
      BY <2>1, <3>1, <3>2, MaxIs
  <2>4. Find(m, Point) = p
    BY <1>7, PointIs DEF Carries
  <2>5. \A i \in DOMAIN m : IsDigit(m[i]) \/ i = p
    <3>1. m \in Seq(Nat)
      BY <1>7 DEF Carries, PointAt
    <3>2. DOMAIN m = 1..Len(m)
      BY <3>1
    <3> QED
      BY <1>7, <3>2 DEF Carries
  <2>6. p <= Len(m) => p < Len(m) /\ Last(m) # Zero
    BY <1>7 DEF Last
  <2>7. marked => p = 2
    BY <1>1 DEF Parts
  <2>8. marked <=> high # {} /\ Max(high) \notin -6..20
    <3>1. n - 1 \in -6..20 <=> Plain(n)
      BY DEF Plain
    <3> QED
      BY <2>3, <3>1
  <2> QED
    BY <1>7, <2>4, <2>5, <2>6, <2>7, <2>8 DEF EcmaScriptForm, high
<1>11. e # <<>> =>
         /\ Len(e) \in 2..4 /\ e[1] \in {Plus, Minus}
         /\ e[2] # Zero /\ \A i \in 2..Len(e) : IsDigit(e[i])
  <2>1. ASSUME e # <<>>
        PROVE  /\ Len(e) \in 2..4 /\ e[1] \in {Plus, Minus}
               /\ e[2] # Zero /\ \A i \in 2..Len(e) : IsDigit(e[i])
    <3>1. marked
      BY <1>1, <2>1 DEF Parts
    <3>2. PICK sign \in {Plus, Minus}, D \in Seq(Nat) :
            /\ Len(D) \in 1..3 /\ (\A i \in 1..Len(D) : IsDigit(D[i]))
            /\ e = Exponent(sign, D)
      BY <1>1, <3>1 DEF Parts
    <3>3. /\ Len(Exponent(sign, D)) = Len(D) + 1 /\ Exponent(sign, D)[1] = sign
          /\ \A i \in 1..Len(D) : Exponent(sign, D)[i + 1] = D[i]
      BY <3>2, ExponentIs
    <3>4. PICK l \in 1..3 : l = Len(D)
      BY <3>2
    <3>5. Len(e) = l + 1 /\ e[1] = sign /\ \A i \in 1..l : e[i + 1] = D[i]
      BY <3>2, <3>3, <3>4
    <3>6. ASSUME NEW i \in 2..(l + 1) PROVE IsDigit(e[i])
      <4>1. i - 1 \in 1..l /\ i - 1 + 1 = i
        OBVIOUS
      <4>2. e[i - 1 + 1] = D[i - 1]
        BY <3>5, <4>1
      <4> QED
        BY <3>2, <3>4, <4>1, <4>2
    <3>7. l + 1 \in 2..4
      OBVIOUS
    <3> QED
      BY <3>1, <3>5, <3>6, <3>7
  <2> QED
    BY <2>1
<1>12. /\ SubSeq(text, 1, Find(text, Marker) - 1) = m
       /\ Drop(text, Find(text, Marker)) = e
       /\ marked <=> Find(text, Marker) <= Len(text)
  BY <1>6 DEF Cut
<1>13. (IF s[1] = Minus THEN Tail(s) ELSE s) = text
  BY <1>5 DEF Unsigned
<1>14. NumberReads(s, number)
  <2> HIDE DEF V
  <2>1. Weights(m, x) = {<<number.n - i, number.digits[i]>> :
             i \in {j \in DOMAIN number.digits : number.digits[j] # Zero}}
    BY <1>4, <1>8 DEF V
  <2>2. s[1] = Minus <=> number.negative /\ number.digits # <<>>
    BY <1>4, <1>5
  <2>3. EcmaScriptForm(m, x, Find(text, Marker) <= Len(text))
    <3>1. marked = (Find(text, Marker) <= Len(text))
      BY <1>12
    <3> QED
      BY <1>10, <3>1
  <2> QED
    BY <1>9, <1>11, <1>12, <1>13, <2>1, <2>2, <2>3 DEF NumberReads
<1> QED
  BY <1>14 DEF s, number

LEMMA ZeroReads ==
  ASSUME NEW negative \in BOOLEAN, NEW n
  PROVE  NumberReads(<<Zero>>, Number(negative, <<>>, n))
<1> DEFINE z == <<Zero>>
           number == Number(negative, <<>>, n)
<1>1. /\ z \in Seq(Nat) /\ Len(z) = 1 /\ z[1] = Zero /\ DOMAIN z = 1..1
      /\ Zero # Minus /\ Zero # Marker /\ Zero # Point /\ IsDigit(Zero)
  BY DEF Zero, Minus, Marker, Point, IsDigit
<1>2. number.digits = <<>> /\ number.negative = negative /\ number.n = n
  BY DEF Number
<1> HIDE DEF z, number
<1>3. Find(z, Marker) = 2 /\ Find(z, Point) = 2
  <2>1. \A i \in 1..Len(z) : z[i] # Marker /\ z[i] # Point
    BY <1>1
  <2>2. 2 \in 1..(Len(z) + 1) /\ ~(2 <= Len(z))
    BY <1>1
  <2> QED
    BY <1>1, <2>1, <2>2, FindIs
<1>4. SubSeq(z, 1, 2 - 1) = z /\ Drop(z, 2) = <<>>
  <2>1. SubSeq(z, 1, Len(z)) = z
    BY <1>1, SubSeqFull
  <2>2. SubSeq(z, 2 + 1, 1) = <<>>
    BY SubSeqEmpty
  <2> QED
    BY <1>1, <2>1, <2>2 DEF Drop
<1>5. ExponentRead(<<>>) = 0
  BY DEF ExponentRead
<1>6. Weights(z, 0) = {}
  BY <1>1 DEF Weights
<1>7. EcmaScriptForm(z, 0, FALSE)
  <2>1. {w[1] : w \in Weights(z, 0)} = {}
    BY <1>6
  <2>2. \A i \in DOMAIN z : IsDigit(z[i]) \/ i = 2
    BY <1>1
  <2>3. 2 > 1 /\ ~(2 <= Len(z))
    BY <1>1
  <2> DEFINE high == {w[1] : w \in Weights(z, 0)}
  <2>4. high = {}
    BY <2>1
  <2> HIDE DEF high
  <2> QED
    BY <1>3, <2>2, <2>3, <2>4 DEF EcmaScriptForm, high
<1>8. {<<number.n - i, number.digits[i]>> :
         i \in {j \in DOMAIN number.digits : number.digits[j] # Zero}} = {}
  BY <1>2
<1>9. (2 <= Len(z)) = FALSE
  BY <1>1
<1>10. NumberReads(z, number)
  BY <1>1, <1>2, <1>3, <1>4, <1>5, <1>6, <1>7, <1>8, <1>9 DEF NumberReads
<1> QED
  BY <1>10 DEF z, number

LEMMA NumberIs ==
  ASSUME LeafKept, value.kind = "number"
  PROVE  /\ Cardinality(NumberTexts(value)) = 1
         /\ \A text \in NumberTexts(value) : NumberReads(text, value)
<1> DEFINE d == value.digits
           n == value.n
           negative == value.negative
<1>1. /\ value = Number(negative, d, n) /\ negative \in BOOLEAN /\ Decimals(d)
      /\ n \in -323..309
  BY DEF LeafKept
<1>2. n \in Int /\ 0 - 323 <= n /\ n <= 309
  <2> HIDE DEF n
  <2> QED
    BY <1>1
<1> HIDE DEF d, n, negative
<1>3. \A x : Cardinality({x}) = 1
  BY FS_Singleton
<1>4. CASE d = <<>>
  <2>1. NumberTexts(value) = {<<Zero>>}
    BY <1>4 DEF NumberTexts, d
  <2>2. NumberReads(<<Zero>>, value)
    BY <1>1, <1>4, ZeroReads
  <2> QED
    BY <1>3, <2>1, <2>2
<1>5. CASE d # <<>>
  <2>1. NumberTexts(value) = {Signed(negative, Layout(d, n))}
    BY <1>1, <1>2, <1>5, OneText
  <2>2. PICK e : /\ Spread(Layout(d, n), d, n, ~Plain(n), e)
                 /\ ~Plain(n) => e[2] # Zero
    BY <1>1, <1>2, <1>5, LayoutIs
  <2>3. NumberReads(Signed(negative, Layout(d, n)), Number(negative, d, n))
    <3>1. PICK marked \in BOOLEAN : marked = ~Plain(n)
      <4>1. CASE Plain(n)
        <5>1. ~Plain(n) = FALSE
          BY <4>1
        <5> QED
          BY <5>1
      <4>2. CASE ~Plain(n)
        <5>1. ~Plain(n) = TRUE
          BY <4>2
        <5> QED
          BY <5>1
      <4> QED
        BY <4>1, <4>2
    <3> QED
      BY <1>1, <1>2, <1>5, <2>2, <3>1, LaidOutReads
  <2> QED
    BY <1>1, <1>3, <2>1, <2>3
<1> QED
  BY <1>4, <1>5

\* A double of any digits and any place of its point that canonical_number
\* writes comes out as one text, whichever of its forms std::to_chars took, and
\* that text reads as the number and has ECMAScript's form: the shortest
\* digits, and an exponent only from 1e21 and below 1e-6.
THEOREM NumbersReadBack == SpecLeaf => []NumberIsItsValue
<1>1. LeafKept => NumberIsItsValue
  BY NumberIs DEF NumberIsItsValue
<1> QED
  BY <1>1, LeavesKept, PTL
=============================================================================
