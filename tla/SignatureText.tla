--------------------------- MODULE SignatureText ---------------------------
(***************************************************************************)
(* What the texts of public keys and signatures are held to before OpenSSL *)
(* sees their bytes: decode_strict_ed25519_public_key and the signature    *)
(* envelope of src/src/signed_document.cpp. A text is spelt digit by       *)
(* digit; and points are added up, to be compared with the affine law.     *)
(***************************************************************************)
EXTENDS Base64Url, Edwards

CONSTANTS
  Symbols,    \* what the first places of a text may hold
  Later,      \* what the places after them may hold
  FirstPart,  \* bound: how many places are first
  MaxText,    \* bound: how many there are
  Addends     \* the points that are added

OnCurve(x, y) ==
  Subtract(Multiply(y, y), Multiply(x, x))
    = Add(1, Multiply(CurveD, Multiply(Multiply(x, x), Multiply(y, y))))

ASSUME SpellingAssumption ==
  /\ \A p \in Addends : p \in Field \X Field /\ OnCurve(p[1], p[2])
  /\ ByteSize = ByteValues
  /\ Symbols \cup Later \subseteq {Padding, Foreign} \cup 0..(DigitValues - 1)

\* decode_strict_ed25519_public_key.
DecodeKey(text) ==
  LET bytes == Base64UrlDecode(text)
  IN IF bytes # Undecoded /\ ValidPoint(bytes, FALSE) THEN bytes ELSE Undecoded

\* The value of a signature in parse_signature_envelope.
DecodeSignature(text) ==
  LET bytes == Base64UrlDecode(text)
  IN IF bytes # Undecoded /\ ValidSignature(bytes) THEN bytes ELSE Undecoded

-----------------------------------------------------------------------------
VARIABLES
  text,    \* the text spelt so far
  point,   \* the sum of points
  sum      \* the same sum by the affine law

vars == <<text, point, sum>>

Zero == <<0, 1>>

Init == text = <<>> /\ point = Affine(0, 1) /\ sum = Zero

Spell ==
  /\ point = Affine(0, 1) /\ Len(text) < MaxText
  /\ \E c \in IF Len(text) < FirstPart THEN Symbols ELSE Later :
       text' = Append(text, c)
  /\ UNCHANGED <<point, sum>>

Reciprocal(a) == Exponentiate(a, P - 2)

\* The addition law of the curve, on pairs of coordinates.
AffineSum(p, q) ==
  LET product == Multiply(CurveD, Multiply(Multiply(p[1], q[1]), Multiply(p[2], q[2])))
      cross == Add(Multiply(p[1], q[2]), Multiply(p[2], q[1]))
      straight == Add(Multiply(p[2], q[2]), Multiply(p[1], q[1]))
  IN <<Multiply(cross, Reciprocal(Add(1, product))),
       Multiply(straight, Reciprocal(Subtract(1, product)))>>

AddPoint ==
  /\ text = <<>>
  /\ \E p \in Addends :
       /\ point' = PointAdd(point, Affine(p[1], p[2]))
       /\ sum' = AffineSum(sum, p)
  /\ UNCHANGED text

Next == Spell \/ AddPoint

Spec == Init /\ [][Next]_vars
-----------------------------------------------------------------------------
Multiple(p, n) ==
  LET times[k \in 0..n] == IF k = 0 THEN Zero ELSE AffineSum(times[k - 1], p)
  IN times[n]

\* The bytes, lowest first, of a number below ByteSize^PointSize.
LittleBytes(number) ==
  [i \in 1..PointSize |-> (number \div Power(ByteSize, i - 1)) % ByteSize]

PointBytes(p) == LittleBytes(p[2] + (p[1] % 2) * Half)

\* The points that bytes may be meant to encode.
Meant(bytes) ==
  LET y == (LittleInteger(SubSeq(bytes, 1, PointSize)) % Half) % P
  IN {p \in Field \X {y} : OnCurve(p[1], p[2])}

\* A text is taken for a public key exactly if it is the one spelling of the
\* one encoding of a point of the prime subgroup other than zero: no key has
\* two texts, and no small factor of the curve's order is left in any.
KeysArePrimeOrderPoints ==
  LET lenient == DecodeLeniently(text)
  IN DecodeKey(text) # Undecoded <=>
       /\ lenient # Undecoded /\ Len(lenient) = PointSize
       /\ \E p \in Meant(lenient) :
            /\ text = Base64UrlEncode(PointBytes(p))
            /\ p # Zero /\ Multiple(p, Order) = Zero

\* A text is taken for a signature exactly if it is the one spelling of a
\* point of the prime subgroup and a scalar below its order: a signature made
\* over cannot be spelt anew, neither in its text nor in its bytes.
SignaturesHaveOneText ==
  LET lenient == DecodeLeniently(text)
  IN DecodeSignature(text) # Undecoded <=>
       /\ lenient # Undecoded /\ Len(lenient) = 2 * PointSize
       /\ \E p \in Meant(lenient), s \in 0..(Order - 1) :
            /\ text = Base64UrlEncode(PointBytes(p) \o LittleBytes(s))
            /\ Multiple(p, Order) = Zero

\* Points are added and multiplied without a division and without a case of
\* their own, for points of small order and for a point added to itself as
\* for others: the result is that of the affine law.
AdditionIsAffine ==
  LET equals(q, p) == /\ q.z # 0
                      /\ q.x = Multiply(p[1], q.z) /\ q.y = Multiply(p[2], q.z)
                      /\ Multiply(q.t, q.z) = Multiply(q.x, q.y)
  IN text = <<>> =>
     /\ equals(point, sum)
     /\ \A scalar \in {Order - 1, Order, 16} :
          equals(ScalarMultiply(point, scalar), Multiple(sum, scalar))
=============================================================================
