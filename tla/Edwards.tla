------------------------------ MODULE Edwards ------------------------------
(***************************************************************************)
(* Points of the twisted Edwards curve of Ed25519, as validate_point of    *)
(* src/src/signed_document.cpp computes with them in OpenSSL's integers:   *)
(* -x^2 + y^2 = 1 + d x^2 y^2 over the field of P elements. P, d, a root   *)
(* of -1 and the order of the prime subgroup are constants of the code.    *)
(*                                                                         *)
(* A point is encoded in PointSize bytes, the lowest first: y, and in the  *)
(* highest bit whether x is odd.                                           *)
(***************************************************************************)
EXTENDS Integers, Sequences

CONSTANTS P, CurveD, SqrtM1, Order, PointSize, ByteSize

Field == 0..(P - 1)

Add(a, b) == (a + b) % P
Subtract(a, b) == (a - b) % P
Multiply(a, b) == (a * b) % P

Exponentiate(value, exponent) ==
  LET power[n \in 0..exponent] ==
        IF n = 0 THEN 1
        ELSE LET half == power[n \div 2]
             IN Multiply(Multiply(half, half), IF n % 2 = 1 THEN value ELSE 1)
  IN power[exponent]

Power(base, exponent) ==
  LET power[n \in 0..exponent] == IF n = 0 THEN 1 ELSE power[n - 1] * base
  IN power[exponent]

\* What a point is encoded as is below twice Half.
Half == Power(ByteSize, PointSize) \div 2

\* What makes the formulas complete: P is a prime (as Fermat has it), 5 modulo
\* 8, and d is no square.
ASSUME EdwardsAssumption ==
  /\ P \in Nat /\ P % 8 = 5 /\ CurveD \in Field /\ SqrtM1 \in Field
  /\ \A x \in Field \ {0} : Exponentiate(x, P - 1) = 1
  /\ (SqrtM1 * SqrtM1) % P = P - 1
  /\ \A x \in Field : (x * x) % P # CurveD
  /\ ByteSize \in Nat /\ ByteSize % 2 = 0 /\ PointSize \in Nat \ {0}
  /\ P <= Half /\ Order \in 1..(2 * Half)

\* The last byte first.
LittleInteger(bytes) ==
  LET number[n \in 0..Len(bytes)] ==
        IF n = 0 THEN 0
        ELSE number[n - 1] * ByteSize + bytes[Len(bytes) - n + 1]
  IN number[Len(bytes)]

Point(x, y, z, t) == [x |-> x, y |-> y, z |-> z, t |-> t]

Affine(x, y) == Point(x, y, 1, Multiply(x, y))

\* Mutant: the sum is that of the untwisted curve.
PointAddUntwisted(left, right) ==
  LET a == Multiply(Subtract(left.y, left.x), Subtract(right.y, right.x))
      b == Multiply(Add(left.y, left.x), Add(right.y, right.x))
      c == Multiply(Multiply(Multiply(2, CurveD), left.t), right.t)
      d == Multiply(Multiply(2, left.z), right.z)
      e == Subtract(b, a)
      f == Subtract(d, c)
      g == Add(d, c)
      h == Subtract(b, a)
  IN Point(Multiply(e, f), Multiply(g, h), Multiply(f, g), Multiply(e, h))

PointAdd(left, right) ==
  LET a == Multiply(Subtract(left.y, left.x), Subtract(right.y, right.x))
      b == Multiply(Add(left.y, left.x), Add(right.y, right.x))
      c == Multiply(Multiply(Multiply(2, CurveD), left.t), right.t)
      d == Multiply(Multiply(2, left.z), right.z)
      e == Subtract(b, a)
      f == Subtract(d, c)
      g == Add(d, c)
      h == Add(b, a)
  IN Point(Multiply(e, f), Multiply(g, h), Multiply(f, g), Multiply(e, h))

Identity(point) == point.x = 0 /\ point.y = point.z

\* BN_num_bits.
Bits(scalar) ==
  CHOOSE n \in 0..scalar :
    Power(2, n) > scalar /\ \A m \in 0..(n - 1) : Power(2, m) <= scalar

\* Doubling and adding, from the lowest bit of the scalar.
ScalarMultiply(point, scalar) ==
  LET after[bit \in 0..Bits(scalar)] ==
        IF bit = 0 THEN [result |-> Affine(0, 1), point |-> point]
        ELSE LET at == after[bit - 1] IN
          [result |-> IF (scalar \div Power(2, bit - 1)) % 2 = 1
                      THEN PointAdd(at.result, at.point) ELSE at.result,
           point |-> PointAdd(at.point, at.point)]
  IN after[Bits(scalar)].result

\* The root of a square, of a value that has one.
SquareRoot(square) ==
  LET x == Exponentiate(square, (P + 3) \div 8)
  IN IF Multiply(x, x) = square THEN x ELSE Multiply(x, SqrtM1)

\* Mutant: y may be what another, smaller y is congruent to.
ReducedY(y) == y >= 0

CanonicalY(y) == y < P

\* validate_point.
ValidPoint(encoded, allowIdentity) ==
  LET number == LittleInteger(encoded)
      sign == number \div Half
      y == number % Half
      squared == Multiply(y, y)
      xSquared == Multiply(Subtract(squared, 1),
                    Exponentiate(Add(Multiply(CurveD, squared), 1), P - 2))
      root == SquareRoot(xSquared)
      point == Affine(IF root % 2 = sign THEN root ELSE P - root, y)
  IN /\ Len(encoded) = PointSize
     /\ CanonicalY(y)
     /\ Multiply(root, root) = xSquared
     /\ ~(root = 0 /\ sign = 1)
     /\ Identity(point) => allowIdentity
     /\ Identity(ScalarMultiply(point, Order))

\* validate_signature_encoding: R is a point, S is below the order.
ValidSignature(bytes) ==
  /\ Len(bytes) = 2 * PointSize
  /\ ValidPoint(SubSeq(bytes, 1, PointSize), TRUE)
  /\ LittleInteger(SubSeq(bytes, PointSize + 1, 2 * PointSize)) < Order
=============================================================================
