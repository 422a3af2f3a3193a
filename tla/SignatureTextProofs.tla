------------------------ MODULE SignatureTextProofs ------------------------
(***************************************************************************)
(* That keys and signatures have one text each, and that points are added  *)
(* as the affine law has it, for every curve and size of the assumptions.  *)
(*                                                                         *)
(* Edwards is computed in integers modulo P, so the proofs speak of        *)
(* integers: Null(a) says that P divides a. Fermat's theorem, which the    *)
(* assumption states for P, makes a field of them (Domain, HasInverse);    *)
(* and, d being no square while -1 is one, no sum has a denominator of     *)
(* zero (Complete). The sum of three points, multiplied out, differs in    *)
(* its two orders by a combination of the equations of the curve           *)
(* (Abscissae, Ordinates), which makes the law associative.                *)
(*                                                                         *)
(* Extended coordinates stand for points (Represents): PointAdd keeps to   *)
(* that, and so does ScalarMultiply, by the bits of the scalar. A point is *)
(* decoded from the one root of its parity (Extracted, Extracts), bytes    *)
(* are those of their number (LittleBytesAre, OfTheirNumber), and a text   *)
(* is that of its bytes (EncodedReadsBack, StrictIs).                      *)
(***************************************************************************)
EXTENDS SignatureText, FiniteSetTheorems, SequenceTheorems,
        WellFoundedInduction, TLAPS

-----------------------------------------------------------------------------
(* Recursion.                                                              *)

LEMMA LeastNatural ==
  ASSUME NEW T \in SUBSET Nat, T # {}
  PROVE  \E n \in T : \A m \in T : n <= m
<1>1. PICK n \in T : \A m \in T : ~(<<m, n>> \in OpToRel(<, Nat))
  BY NatLessThanWellFounded, WFMin
<1>2. ASSUME NEW m \in T PROVE n <= m
  <2>1. ~(<<m, n>> \in OpToRel(<, Nat))
    BY <1>1
  <2>2. <<m, n>> \in Nat \X Nat
    OBVIOUS
  <2>3. ~(m < n)
    BY <2>1, <2>2 DEF OpToRel
  <2> QED
    BY <2>3
<1> QED
  BY <1>2

\* What is computed along a sequence, a step for each of its places, exists.
Recursion(f, S, N, base, step) ==
  /\ f \in [0..N -> S] /\ f[0] = base
  /\ \A i \in 1..N : f[i] = step[<<f[i - 1], i>>]

LEMMA Recurs ==
  ASSUME NEW S, NEW N \in Nat, NEW base \in S, NEW step \in [S \X (1..N) -> S]
  PROVE  \E f : Recursion(f, S, N, base, step)
<1> DEFINE Good(n) == \E f \in [0..n -> S] : f[0] = base
                        /\ \A i \in 1..n : f[i] = step[<<f[i - 1], i>>]
           T == {n \in Nat : n <= N /\ ~Good(n)}
<1>1. SUFFICES ASSUME T # {} PROVE FALSE
  <2>1. Good(N)
    <3>1. T = {}
      <4> HIDE DEF T
      <4> QED
        BY <1>1
    <3>2. N \in Nat /\ N <= N
      OBVIOUS
    <3> HIDE DEF Good
    <3> QED
      BY <3>1, <3>2
  <2>2. PICK f \in [0..N -> S] : f[0] = base
                        /\ \A i \in 1..N : f[i] = step[<<f[i - 1], i>>]
    BY <2>1
  <2>3. Recursion(f, S, N, base, step)
    BY <2>2 DEF Recursion
  <2> QED
    BY <2>3
<1>2. PICK m \in T : \A n \in T : m <= n
  <2>1. T \in SUBSET Nat
    OBVIOUS
  <2> HIDE DEF T
  <2> QED
    BY <1>1, <2>1, LeastNatural
<1>3. m \in Nat /\ m <= N /\ ~Good(m)
  OBVIOUS
<1>4. CASE m = 0
  <2>1. [i \in 0..0 |-> base] \in [0..0 -> S]
    OBVIOUS
  <2>2. Good(0)
    <3>1. [i \in 0..0 |-> base][0] = base /\ \A i \in 1..0 : FALSE
      OBVIOUS
    <3> QED
      BY <2>1, <3>1
  <2> QED
    BY <1>3, <1>4, <2>2
<1>5. CASE m > 0
  <2>1. m - 1 \in Nat /\ m - 1 <= N /\ m - 1 \notin T
    BY <1>2, <1>3, <1>5
  <2>2. Good(m - 1)
    BY <2>1
  <2>3. PICK f \in [0..(m - 1) -> S] : f[0] = base
                 /\ \A i \in 1..(m - 1) : f[i] = step[<<f[i - 1], i>>]
    BY <2>2
  <2> DEFINE next == step[<<f[m - 1], m>>]
             g == [i \in 0..m |-> IF i = m THEN next ELSE f[i]]
  <2>4. f[m - 1] \in S /\ next \in S
    <3>1. m - 1 \in 0..(m - 1) /\ m \in 1..N
      BY <1>3, <1>5
    <3>2. f[m - 1] \in S
      BY <3>1
    <3>3. <<f[m - 1], m>> \in S \X (1..N)
      BY <3>1, <3>2
    <3> QED
      BY <3>2, <3>3
  <2>5. \A i \in 0..m : i = m \/ i \in 0..(m - 1)
    BY <1>3, <1>5
  <2>6. g \in [0..m -> S]
    <3> HIDE DEF next
    <3> QED
      BY <2>4, <2>5
  <2>7. g[0] = base
    BY <1>3, <1>5, <2>3
  <2>8. ASSUME NEW i \in 1..m PROVE g[i] = step[<<g[i - 1], i>>]
    <3>1. CASE i = m
      <4>1. m - 1 \in 0..m /\ m - 1 # m /\ m \in 0..m
        BY <1>3, <1>5
      <4>2. g[m - 1] = f[m - 1] /\ g[m] = next
        BY <4>1
      <4> QED
        BY <3>1, <4>2
    <3>2. CASE i # m
      <4>1. i \in 1..(m - 1) /\ i \in 0..m /\ i - 1 \in 0..m /\ i - 1 # m
        BY <1>3, <1>5, <3>2
      <4>2. g[i] = f[i] /\ g[i - 1] = f[i - 1]
        BY <3>2, <4>1
      <4> HIDE DEF g
      <4> QED
        BY <2>3, <4>1, <4>2
    <3> QED
      BY <3>1, <3>2
  <2>9. Good(m)
    <3> HIDE DEF g
    <3> QED
      BY <2>6, <2>7, <2>8
  <2> QED
    BY <1>3, <2>9
<1> QED
  BY <1>3, <1>4, <1>5
\* One that never ends, and what agrees with it as far as it goes.
Endless(f, S, base, step) ==
  /\ f \in [Nat -> S] /\ f[0] = base
  /\ \A i \in Nat \ {0} : f[i] = step[<<f[i - 1], i>>]

\* A recursion as far as N.
Follows(f, N, base, step) ==
  f[0] = base /\ \A i \in 1..N : f[i] = step[<<f[i - 1], i>>]

LEMMA OneRecursion ==
  ASSUME NEW N \in Nat, NEW f, NEW g, NEW base, NEW step,
         Follows(f, N, base, step), Follows(g, N, base, step)
  PROVE  \A i \in 0..N : f[i] = g[i]
<1> USE DEF Follows
<1> DEFINE T == {i \in 0..N : f[i] # g[i]}
<1>1. SUFFICES ASSUME T # {} PROVE FALSE
  OBVIOUS
<1>2. PICK m \in T : \A n \in T : m <= n
  <2>1. T \in SUBSET Nat
    OBVIOUS
  <2> HIDE DEF T
  <2> QED
    BY <1>1, <2>1, LeastNatural
<1>3. m \in 0..N /\ f[m] # g[m]
  OBVIOUS
<1>4. m # 0
  BY <1>3
<1>5. m \in 1..N /\ m - 1 \in 0..N /\ ~(m <= m - 1)
  BY <1>3, <1>4
<1>6. f[m - 1] = g[m - 1]
  BY <1>2, <1>5
<1> QED
  BY <1>3, <1>5, <1>6

LEMMA RecursForever ==
  ASSUME NEW S, NEW base \in S, NEW step \in [S \X (Nat \ {0}) -> S]
  PROVE  \E f : Endless(f, S, base, step)
<1> DEFINE part(N) == [x \in S \X (1..N) |-> step[x]]
           upTo(N) == CHOOSE f : Recursion(f, S, N, base, part(N))
           f == [N \in Nat |-> upTo(N)[N]]
<1>1. ASSUME NEW N \in Nat
      PROVE  /\ upTo(N) \in [0..N -> S] /\ upTo(N)[0] = base
             /\ \A i \in 1..N : upTo(N)[i] = step[<<upTo(N)[i - 1], i>>]
  <2>1. part(N) \in [S \X (1..N) -> S]
    <3>1. \A x \in S \X (1..N) : x \in S \X (Nat \ {0})
      OBVIOUS
    <3>2. \A x \in S \X (1..N) : step[x] \in S
      BY <3>1
    <3> QED
      BY <3>2
  <2> DEFINE p == part(N)
  <2>2. \E g : Recursion(g, S, N, base, p)
    <3> HIDE DEF p
    <3> QED
      BY <2>1, Recurs DEF p
  <2>3. Recursion(upTo(N), S, N, base, part(N))
    BY <2>2
  <2> DEFINE u == upTo(N)
  <2> HIDE DEF u
  <2>4. Recursion(u, S, N, base, part(N))
    BY <2>3 DEF u
  <2>5. u \in [0..N -> S] /\ u[0] = base
    BY <2>4 DEF Recursion
  <2>6. ASSUME NEW i \in 1..N PROVE u[i] = step[<<u[i - 1], i>>]
    <3>1. i - 1 \in 0..N
      OBVIOUS
    <3>2. <<u[i - 1], i>> \in S \X (1..N)
      BY <2>5, <3>1
    <3>3. u[i] = part(N)[<<u[i - 1], i>>]
      BY <2>4 DEF Recursion
    <3> QED
      BY <3>2, <3>3
  <2> QED
    BY <2>5, <2>6 DEF u
<1> HIDE DEF upTo
<1>2. f \in [Nat -> S]
  <2>1. ASSUME NEW N \in Nat PROVE upTo(N)[N] \in S
    <3>1. N \in 0..N
      OBVIOUS
    <3> QED
      BY <1>1, <3>1
  <2> QED
    BY <2>1
<1>3. f[0] = base
  BY <1>1
<1>4. ASSUME NEW i \in Nat \ {0} PROVE f[i] = step[<<f[i - 1], i>>]
  <2>1. i \in 1..i /\ i \in Nat /\ i - 1 \in Nat /\ i - 1 \in 0..(i - 1)
        /\ \A j \in 1..(i - 1) : j \in 1..i
    OBVIOUS
  <2>2. f[i] = upTo(i)[i] /\ f[i - 1] = upTo(i - 1)[i - 1]
    BY <2>1
  <2>3. upTo(i)[i] = step[<<upTo(i)[i - 1], i>>]
    BY <1>1, <2>1
  <2>4. PICK a, b : a = upTo(i) /\ b = upTo(i - 1)
    OBVIOUS
  <2>5. a[0] = base /\ \A j \in 1..(i - 1) : a[j] = step[<<a[j - 1], j>>]
    BY <1>1, <2>1, <2>4
  <2>6. b[0] = base /\ \A j \in 1..(i - 1) : b[j] = step[<<b[j - 1], j>>]
    BY <1>1, <2>1, <2>4
  <2>7. Follows(a, i - 1, base, step) /\ Follows(b, i - 1, base, step)
    BY <2>5, <2>6 DEF Follows
  <2>8. \A j \in 0..(i - 1) : a[j] = b[j]
    BY <2>1, <2>7, OneRecursion
  <2> HIDE DEF f
  <2> QED
    BY <2>1, <2>2, <2>3, <2>4, <2>8
<1> HIDE DEF f
<1>5. Endless(f, S, base, step)
  BY <1>2, <1>3, <1>4 DEF Endless
<1> QED
  BY <1>5

-----------------------------------------------------------------------------
(* The field. Null(a): the integer a is a multiple of P.                   *)

Null(a) == \E k \in Int : a = k * P

LEMMA Modulus == P \in Nat /\ P >= 5 /\ P # 0 /\ P > 0
BY EdwardsAssumption

LEMMA NullSum ==
  ASSUME NEW a \in Int, NEW b \in Int, Null(a), Null(b)
  PROVE  Null(a + b) /\ Null(a - b)
<1>1. PICK k \in Int : a = k * P
  BY DEF Null
<1>2. PICK l \in Int : b = l * P
  BY DEF Null
<1>3. a + b = (k + l) * P /\ a - b = (k - l) * P /\ k + l \in Int /\ k - l \in Int
  BY <1>1, <1>2, Modulus
<1> QED
  BY <1>3 DEF Null

LEMMA NullTimes ==
  ASSUME NEW a \in Int, NEW c \in Int, Null(a)
  PROVE  Null(c * a) /\ Null(a * c)
<1>1. PICK k \in Int : a = k * P
  BY DEF Null
<1>2. c * a = (c * k) * P /\ a * c = (c * k) * P /\ c * k \in Int
  BY <1>1, Modulus
<1> QED
  BY <1>2 DEF Null

LEMMA Quotient ==
  ASSUME NEW a \in Int, NEW M \in Int, M > 0
  PROVE  \E q \in Int, r \in 0..(M - 1) :
           q = a \div M /\ r = a % M /\ a = M * q + r
<1>1. a \div M \in Int /\ a % M \in 0..(M - 1)
  OBVIOUS
<1>2. PICK q \in Int, r \in Int : q = a \div M /\ r = a % M
  BY <1>1
<1>3. a = M * q + r
  BY <1>2, Z3
<1> QED
  BY <1>1, <1>2, <1>3

LEMMA OneQuotient ==
  ASSUME NEW a \in Int, NEW M \in Int, M > 0,
         NEW q \in Int, NEW r \in Int, 0 <= r, r < M, a = M * q + r
  PROVE  q = a \div M /\ r = a % M
<1>1. PICK p \in Int, s \in 0..(M - 1) : p = a \div M /\ s = a % M /\ a = M * p + s
  BY Quotient
<1>2. M * (p - q) = r - s
  BY <1>1
<1>3. p - q = 0
  <2>1. PICK d \in Int : d = p - q
    OBVIOUS
  <2>2. ~(d >= 1) /\ ~(d <= 0 - 1)
    BY <1>1, <1>2, <2>1
  <2> QED
    BY <2>1, <2>2
<1> QED
  BY <1>1, <1>2, <1>3

LEMMA Reduced ==
  ASSUME NEW a \in Int
  PROVE  a % P \in Field /\ Null((a % P) - a) /\ Null(a - (a % P))
<1>1. PICK q \in Int, r \in 0..(P - 1) :
        q = a \div P /\ r = a % P /\ a = P * q + r
  <2>1. P \in Int /\ P > 0
    BY Modulus
  <2> QED
    BY <2>1, Quotient
<1>2. r - a = (0 - q) * P /\ a - r = q * P /\ 0 - q \in Int
  BY <1>1, Modulus
<1>3. Null(r - a) /\ Null(a - r)
  BY <1>2 DEF Null
<1>4. r \in Field
  BY DEF Field
<1>5. r = a % P
  BY <1>1
<1> QED
  BY <1>3, <1>4, <1>5

LEMMA Distinct ==
  ASSUME NEW a \in Field, NEW b \in Field, Null(a - b)
  PROVE  a = b
<1>1. PICK k \in Int : a - b = k * P
  BY DEF Null
<1>2. a \in Int /\ b \in Int /\ a - b < P /\ a - b > 0 - P
  BY Modulus DEF Field
<1>3. ~(k >= 1) /\ ~(k <= 0 - 1)
  BY <1>1, <1>2, Modulus
<1>4. k = 0
  BY <1>3
<1>5. a - b = 0
  BY <1>1, <1>4, Modulus
<1> QED
  BY <1>2, <1>5

LEMMA NullInField ==
  ASSUME NEW a \in Field, Null(a)
  PROVE  a = 0
<1>1. 0 \in Field /\ a - 0 = a
  BY Modulus DEF Field
<1>2. Null(a - 0)
  BY <1>1
<1> QED
  BY <1>1, <1>2, Distinct

LEMMA NullZero == Null(0) /\ 0 \in Field /\ 1 \in Field /\ Field \subseteq Int
<1>1. 0 = 0 * P /\ 0 \in Int
  BY Modulus
<1> QED
  BY <1>1, Modulus DEF Null, Field

LEMMA NullOpposite ==
  ASSUME NEW a \in Int, NEW b \in Int, Null(a - b)
  PROVE  Null(b - a)
<1>1. (0 - 1) * (a - b) = b - a /\ a - b \in Int /\ 0 - 1 \in Int
  OBVIOUS
<1> QED
  BY <1>1, NullTimes

LEMMA SameRemainder ==
  ASSUME NEW a \in Int, NEW b \in Int, Null(a - b)
  PROVE  a % P = b % P
<1>1. PICK r \in Field, s \in Field : r = a % P /\ s = b % P
  BY Reduced
<1>2. r \in Int /\ s \in Int /\ Null(r - a) /\ Null(s - b)
  BY <1>1, Reduced, NullZero
<1>3. Null((r - a) - (s - b))
  BY <1>2, NullSum
<1>4. Null(((r - a) - (s - b)) + (a - b))
  BY <1>2, <1>3, NullSum
<1>5. ((r - a) - (s - b)) + (a - b) = r - s
  BY <1>2
<1> QED
  BY <1>1, <1>4, <1>5, Distinct

LEMMA ReducedIs ==
  ASSUME NEW a \in Int, NEW b \in Field, Null(a - b)
  PROVE  a % P = b
<1>1. PICK r \in Field : r = a % P
  BY Reduced
<1>2. r \in Int /\ b \in Int /\ Null(r - a)
  BY <1>1, Reduced, NullZero
<1>3. Null((r - a) + (a - b))
  BY <1>2, NullSum
<1>4. (r - a) + (a - b) = r - b
  BY <1>2
<1> QED
  BY <1>1, <1>3, <1>4, Distinct

\* A sum of multiples of what is null.
LEMMA Combined ==
  ASSUME NEW a \in Int, NEW b \in Int, NEW c \in Int,
         NEW u \in Int, NEW v \in Int, NEW w \in Int,
         Null(a), Null(b), Null(c)
  PROVE  Null(u * a + v * b + w * c)
<1>1. Null(u * a) /\ Null(v * b) /\ Null(w * c)
        /\ u * a \in Int /\ v * b \in Int /\ w * c \in Int
  BY NullTimes
<1>2. Null(u * a + v * b) /\ u * a + v * b \in Int
  BY <1>1, NullSum
<1> QED
  BY <1>1, <1>2, NullSum

\* The operations of the field, as those of the integers.
LEMMA Operations ==
  ASSUME NEW a \in Int, NEW b \in Int
  PROVE  /\ Add(a, b) \in Field /\ Null(Add(a, b) - (a + b))
         /\ Subtract(a, b) \in Field /\ Null(Subtract(a, b) - (a - b))
         /\ Multiply(a, b) \in Field /\ Null(Multiply(a, b) - a * b)
<1>1. PICK u \in Int, v \in Int, w \in Int : u = a + b /\ v = a - b /\ w = a * b
  OBVIOUS
<1>2. /\ u % P \in Field /\ Null((u % P) - u)
      /\ v % P \in Field /\ Null((v % P) - v)
      /\ w % P \in Field /\ Null((w % P) - w)
  BY Reduced
<1> QED
  BY <1>1, <1>2 DEF Add, Subtract, Multiply

\* Two integers may stand for each other.
LEMMA Products ==
  ASSUME NEW a \in Int, NEW b \in Int, NEW c \in Int, NEW d \in Int,
         Null(a - c), Null(b - d)
  PROVE  Null(a * b - c * d)
<1>1. Null(b * (a - c)) /\ Null(c * (b - d)) /\ b * (a - c) \in Int /\ c * (b - d) \in Int
  <2>1. PICK u \in Int, v \in Int : u = a - c /\ v = b - d
    OBVIOUS
  <2>2. Null(u) /\ Null(v)
    BY <2>1
  <2>3. Null(b * u) /\ Null(c * v)
    BY <2>2, NullTimes
  <2>4. b * u \in Int /\ c * v \in Int
    OBVIOUS
  <2> QED
    BY <2>1, <2>3, <2>4
<1>3. Null(b * (a - c) + c * (b - d))
  BY <1>1, NullSum
<1>2. b * (a - c) + c * (b - d) = a * b - c * d
  OBVIOUS
<1> QED
  BY <1>2, <1>3

LEMMA Replaced ==
  ASSUME NEW a \in Int, NEW b \in Int, NEW c \in Int, Null(a - b), Null(b - c)
  PROVE  Null(a - c)
<1>1. Null((a - b) + (b - c))
  BY NullSum
<1> QED
  BY <1>1

-----------------------------------------------------------------------------
(* Powers.                                                                 *)

LEMMA Induction ==
  ASSUME NEW T, 0 \in T, \A n \in Nat : n \in T => n + 1 \in T
  PROVE  \A n \in Nat : n \in T
<1> DEFINE R == {n \in Nat : n \notin T}
<1>1. SUFFICES ASSUME R # {} PROVE FALSE
  OBVIOUS
<1>2. PICK m \in R : \A n \in R : m <= n
  <2>1. R \in SUBSET Nat
    OBVIOUS
  <2> HIDE DEF R
  <2> QED
    BY <1>1, <2>1, LeastNatural
<1>3. m \in Nat /\ m \notin T /\ m # 0
  OBVIOUS
<1>4. m - 1 \in Nat /\ ~(m <= m - 1) /\ (m - 1) + 1 = m
  BY <1>3
<1>5. m - 1 \in T
  BY <1>2, <1>4
<1> QED
  BY <1>3, <1>4, <1>5

\* Powers(f, v): f has the powers of v.
Powers(f, v) ==
  f \in [Nat -> Int] /\ f[0] = 1 /\ \A i \in Nat \ {0} : f[i] = f[i - 1] * v

LEMMA PowersExist ==
  ASSUME NEW v \in Int
  PROVE  \E f : Powers(f, v)
<1> DEFINE step == [x \in Int \X (Nat \ {0}) |-> x[1] * v]
<1>1. step \in [Int \X (Nat \ {0}) -> Int]
  OBVIOUS
<1>2. PICK f : Endless(f, Int, 1, step)
  <2>1. 1 \in Int
    OBVIOUS
  <2> HIDE DEF step
  <2> QED
    BY <1>1, <2>1, RecursForever
<1>3. f \in [Nat -> Int] /\ f[0] = 1
  BY <1>2 DEF Endless
<1>4. ASSUME NEW i \in Nat \ {0} PROVE f[i] = f[i - 1] * v
  <2>1. f[i] = step[<<f[i - 1], i>>]
    BY <1>2 DEF Endless
  <2>2. i - 1 \in Nat
    OBVIOUS
  <2>3. f[i - 1] \in Int
    BY <1>3, <2>2
  <2>4. <<f[i - 1], i>> \in Int \X (Nat \ {0})
    BY <2>3
  <2> QED
    BY <2>1, <2>4
<1> QED
  BY <1>3, <1>4 DEF Powers

LEMMA PowerIs ==
  ASSUME NEW v \in Int, NEW f, Powers(f, v), NEW n \in Nat
  PROVE  Power(v, n) = f[n]
<1> DEFINE power == CHOOSE g : g = [m \in 0..n |-> IF m = 0 THEN 1 ELSE g[m - 1] * v]
           part == [m \in 0..n |-> f[m]]
           step == [x \in Int \X (1..n) |-> x[1] * v]
<1>1. f \in [Nat -> Int] /\ f[0] = 1 /\ \A i \in Nat \ {0} : f[i] = f[i - 1] * v
  BY DEF Powers
<1>2. part = [m \in 0..n |-> IF m = 0 THEN 1 ELSE part[m - 1] * v]
  <2>1. ASSUME NEW m \in 0..n
        PROVE  f[m] = IF m = 0 THEN 1 ELSE part[m - 1] * v
    <3>1. CASE m = 0
      BY <1>1, <3>1
    <3>2. CASE m # 0
      <4>1. m \in Nat \ {0} /\ m - 1 \in 0..n
        BY <3>2
      <4>2. part[m - 1] = f[m - 1]
        BY <4>1
      <4> HIDE DEF part
      <4> QED
        BY <1>1, <3>2, <4>1, <4>2
    <3> QED
      BY <3>1, <3>2
  <2> QED
    BY <2>1
<1>3. power = [m \in 0..n |-> IF m = 0 THEN 1 ELSE power[m - 1] * v]
  <2> HIDE DEF part
  <2> QED
    BY <1>2
<1>4. Power(v, n) = power[n]
  BY DEF Power
<1> HIDE DEF power
<1>5. power[0] = 1 /\ \A m \in 1..n : power[m] = power[m - 1] * v
  <2>1. 0 \in 0..n
    OBVIOUS
  <2>2. power[0] = 1
    BY <1>3, <2>1
  <2>3. ASSUME NEW m \in 1..n PROVE power[m] = power[m - 1] * v
    <3>1. m \in 0..n /\ m # 0
      OBVIOUS
    <3> QED
      BY <1>3, <3>1
  <2> QED
    BY <2>2, <2>3
<1> DEFINE T == {m \in Nat : m <= n => power[m] = f[m]}
<1>6. 0 \in T
  BY <1>1, <1>5
<1>7. ASSUME NEW m \in Nat, m \in T PROVE m + 1 \in T
  <2>1. CASE m + 1 <= n
    <3>1. m <= n /\ m + 1 \in 1..n /\ m + 1 \in Nat \ {0} /\ (m + 1) - 1 = m
      BY <2>1
    <3>2. power[m] = f[m]
      BY <1>7, <3>1
    <3>3. power[m + 1] = power[m] * v
      BY <1>5, <3>1
    <3>4. f[m + 1] = f[m] * v
      BY <1>1, <3>1
    <3> QED
      BY <3>1, <3>2, <3>3, <3>4
  <2>2. CASE ~(m + 1 <= n)
    BY <2>2
  <2> QED
    BY <2>1, <2>2
<1>8. n \in T
  <2> HIDE DEF T
  <2> QED
    BY <1>6, <1>7, Induction
<1> QED
  BY <1>4, <1>8

LEMMA PowerBasics ==
  ASSUME NEW v \in Int
  PROVE  /\ Power(v, 0) = 1
         /\ \A n \in Nat : /\ Power(v, n) \in Int
                           /\ Power(v, n + 1) = Power(v, n) * v
<1>1. PICK f : Powers(f, v)
  BY PowersExist
<1>2. f \in [Nat -> Int] /\ f[0] = 1 /\ \A i \in Nat \ {0} : f[i] = f[i - 1] * v
  BY <1>1 DEF Powers
<1>3. \A n \in Nat : Power(v, n) = f[n]
  BY <1>1, PowerIs
<1>4. ASSUME NEW n \in Nat
      PROVE  Power(v, n) \in Int /\ Power(v, n + 1) = Power(v, n) * v
  <2>1. n + 1 \in Nat \ {0} /\ (n + 1) - 1 = n /\ n + 1 \in Nat
    OBVIOUS
  <2>2. f[n + 1] = f[n] * v
    BY <1>2, <2>1
  <2>3. Power(v, n) = f[n] /\ Power(v, n + 1) = f[n + 1] /\ f[n] \in Int
    BY <1>2, <1>3, <2>1
  <2> QED
    BY <2>2, <2>3
<1>5. Power(v, 0) = 1
  BY <1>2, <1>3
<1> QED
  BY <1>4, <1>5

LEMMA PowerOfSum ==
  ASSUME NEW v \in Int, NEW m \in Nat
  PROVE  \A n \in Nat : Power(v, m + n) = Power(v, m) * Power(v, n)
<1> DEFINE T == {n \in Nat : Power(v, m + n) = Power(v, m) * Power(v, n)}
<1>1. 0 \in T
  <2>1. m + 0 = m /\ Power(v, 0) = 1 /\ Power(v, m) \in Int
    BY PowerBasics
  <2> QED
    BY <2>1
<1>2. ASSUME NEW n \in Nat, n \in T PROVE n + 1 \in T
  <2>1. m + n \in Nat /\ m + (n + 1) = (m + n) + 1
    OBVIOUS
  <2>2. PICK a \in Int, b \in Int, c \in Int :
          a = Power(v, m) /\ b = Power(v, n) /\ c = Power(v, m + n)
    BY <2>1, PowerBasics
  <2>3. Power(v, n + 1) = b * v /\ Power(v, (m + n) + 1) = c * v /\ c = a * b
    BY <1>2, <2>1, <2>2, PowerBasics
  <2>4. c * v = a * (b * v)
    BY <2>3
  <2>5. Power(v, m + (n + 1)) = Power(v, m) * Power(v, n + 1)
    BY <2>1, <2>2, <2>3, <2>4
  <2> QED
    BY <2>5
<1>3. \A n \in Nat : n \in T
  <2> HIDE DEF T
  <2> QED
    BY <1>1, <1>2, Induction
<1> QED
  BY <1>3

\* The power of a square.
LEMMA PowerOfSquare ==
  ASSUME NEW v \in Int
  PROVE  \A n \in Nat : Power(v * v, n) = Power(v, n) * Power(v, n)
<1> DEFINE T == {n \in Nat : Power(v * v, n) = Power(v, n) * Power(v, n)}
<1>0. v * v \in Int
  OBVIOUS
<1>1. 0 \in T
  <2>1. Power(v * v, 0) = 1 /\ Power(v, 0) = 1
    BY <1>0, PowerBasics
  <2> QED
    BY <2>1
<1>2. ASSUME NEW n \in Nat, n \in T PROVE n + 1 \in T
  <2>1. PICK a \in Int, b \in Int : a = Power(v, n) /\ b = Power(v * v, n)
    BY <1>0, PowerBasics
  <2>2. b = a * a
    BY <1>2, <2>1
  <2>3. Power(v, n + 1) = a * v /\ Power(v * v, n + 1) = b * (v * v)
    BY <1>0, <2>1, PowerBasics
  <2>4. b * (v * v) = (a * v) * (a * v)
    BY <2>2
  <2> QED
    BY <2>3, <2>4
<1>3. \A n \in Nat : n \in T
  <2> HIDE DEF T
  <2> QED
    BY <1>1, <1>2, Induction
<1> QED
  BY <1>3

LEMMA PowersAgree ==
  ASSUME NEW v \in Int, NEW w \in Int, Null(v - w)
  PROVE  \A n \in Nat : Null(Power(v, n) - Power(w, n))
<1> DEFINE T == {n \in Nat : Null(Power(v, n) - Power(w, n))}
<1>1. 0 \in T
  <2>1. Power(v, 0) = 1 /\ Power(w, 0) = 1
    BY PowerBasics
  <2>2. 1 - 1 = 0
    OBVIOUS
  <2> QED
    BY <2>1, <2>2, NullZero
<1>2. ASSUME NEW n \in Nat, n \in T PROVE n + 1 \in T
  <2>1. PICK a \in Int, b \in Int : a = Power(v, n) /\ b = Power(w, n)
    BY PowerBasics
  <2>2. Null(a - b)
    BY <1>2, <2>1
  <2>3. Power(v, n + 1) = a * v /\ Power(w, n + 1) = b * w
    BY <2>1, PowerBasics
  <2>4. Null(a * v - b * w)
    BY <2>2, Products
  <2> QED
    BY <2>3, <2>4
<1>3. \A n \in Nat : n \in T
  <2> HIDE DEF T
  <2> QED
    BY <1>1, <1>2, Induction
<1> QED
  BY <1>3

\* A step of Exponentiate.
Squaring(v, half, m) ==
  Multiply(Multiply(half, half), IF m % 2 = 1 THEN v ELSE 1)

LEMMA SquaringIs ==
  ASSUME NEW v \in Int, NEW m \in Nat, NEW half \in Field,
         Null(half - Power(v, m \div 2))
  PROVE  /\ Squaring(v, half, m) \in Field
         /\ Null(Squaring(v, half, m) - Power(v, m))
<1>1. PICK k \in Nat, b \in 0..1 : k = m \div 2 /\ b = m % 2 /\ m = (k + k) + b
  <2>1. m \div 2 \in Nat /\ m % 2 \in 0..1 /\ m = (m \div 2 + m \div 2) + (m % 2)
    OBVIOUS
  <2> QED
    BY <2>1
<1>2. half \in Int
  BY NullZero
<1>3. PICK a \in Int : a = Power(v, k)
  BY PowerBasics
<1>4. Power(v, k + k) = a * a
  BY <1>3, PowerOfSum
<1>5. Null(half * half - a * a)
  BY <1>1, <1>2, <1>3, Products
<1>6. PICK s \in Field : s = Multiply(half, half) /\ Null(s - half * half)
  BY <1>2, Operations
<1>7. s \in Int
  BY NullZero
<1>8. Null(s - a * a)
  <2>1. PICK x \in Int, y \in Int : x = half * half /\ y = a * a
    BY <1>2
  <2>2. Null(s - x) /\ Null(x - y)
    BY <1>5, <1>6, <2>1
  <2> QED
    BY <1>7, <2>1, <2>2, Replaced
<1>9. PICK f \in Int : f = IF m % 2 = 1 THEN v ELSE 1
  OBVIOUS
<1>10. PICK r \in Field : r = Multiply(s, f) /\ Null(r - s * f)
  BY <1>7, Operations
<1>11. PICK c \in Int : c = a * a /\ Null(s - c)
  BY <1>8
<1>12. Null(s * f - c * f)
  <2>1. f - f = 0
    OBVIOUS
  <2>2. Null(f - f)
    BY <2>1, NullZero
  <2> QED
    BY <1>7, <1>11, <2>2, Products
<1>13. c * f = Power(v, m)
  <2>1. CASE b = 1
    <3>1. f = v /\ m = (k + k) + 1 /\ k + k \in Nat
      BY <1>1, <1>9, <2>1
    <3>2. Power(v, (k + k) + 1) = Power(v, k + k) * v
      BY <3>1, PowerBasics
    <3> QED
      BY <1>4, <1>11, <3>1, <3>2
  <2>2. CASE b # 1
    <3>1. f = 1 /\ m = k + k
      BY <1>1, <1>9, <2>2
    <3> QED
      BY <1>4, <1>11, <3>1
  <2> QED
    BY <2>1, <2>2
<1>14. r \in Int /\ s * f \in Int /\ c * f \in Int
  BY <1>7, NullZero
<1>15. Null(r - c * f)
  <2>1. PICK x \in Int, y \in Int : x = s * f /\ y = c * f
    BY <1>14
  <2>2. Null(r - x) /\ Null(x - y)
    BY <1>10, <1>12, <2>1
  <2> QED
    BY <1>14, <2>1, <2>2, Replaced
<1> QED
  BY <1>6, <1>9, <1>10, <1>13, <1>15 DEF Squaring

LEMMA ExponentiateIs ==
  ASSUME NEW v \in Int, NEW n \in Nat
  PROVE  Exponentiate(v, n) \in Field /\ Null(Exponentiate(v, n) - Power(v, n))
<1> DEFINE power == CHOOSE g : g = [m \in 0..n |->
                      IF m = 0 THEN 1 ELSE Squaring(v, g[m \div 2], m)]
           part == [m \in 0..n |-> Power(v, m) % P]
<1>1. ASSUME NEW m \in 0..n
      PROVE  part[m] \in Field /\ Null(part[m] - Power(v, m))
  <2>1. PICK a \in Int : a = Power(v, m)
    BY PowerBasics
  <2>2. a % P \in Field /\ Null((a % P) - a)
    BY Reduced
  <2>3. part[m] = a % P
    BY <2>1
  <2> QED
    BY <2>1, <2>2, <2>3
<1>2. part = [m \in 0..n |-> IF m = 0 THEN 1 ELSE Squaring(v, part[m \div 2], m)]
  <2>1. ASSUME NEW m \in 0..n
        PROVE  Power(v, m) % P = IF m = 0 THEN 1 ELSE Squaring(v, part[m \div 2], m)
    <3>1. part[m] = Power(v, m) % P
      OBVIOUS
    <3> HIDE DEF part
    <3>2. CASE m = 0
      <4>1. Power(v, m) = 1
        BY <3>2, PowerBasics
      <4>2. 1 - 1 = 0 /\ 1 \in Int
        OBVIOUS
      <4>3. 1 % P = 1
        BY <4>2, ReducedIs, NullZero
      <4> QED
        BY <3>2, <4>1, <4>3
    <3>3. CASE m # 0
      <4>1. m \div 2 \in 0..n /\ m \in Nat
        OBVIOUS
      <4>2. part[m \div 2] \in Field /\ Null(part[m \div 2] - Power(v, m \div 2))
        BY <1>1, <4>1
      <4>3. PICK r \in Field : r = Squaring(v, part[m \div 2], m) /\ Null(r - Power(v, m))
        BY <4>1, <4>2, SquaringIs
      <4>4. PICK a \in Int : a = Power(v, m)
        BY <4>1, PowerBasics
      <4>5. r \in Int /\ Null(r - a)
        BY <4>3, <4>4, NullZero
      <4>6. Null(a - r)
        BY <4>5, NullOpposite
      <4>7. a % P = r
        BY <4>6, ReducedIs
      <4> QED
        BY <3>3, <4>3, <4>4, <4>7
    <3> QED
      BY <3>2, <3>3
  <2> QED
    BY <2>1
<1>3. power = [m \in 0..n |-> IF m = 0 THEN 1 ELSE Squaring(v, power[m \div 2], m)]
  <2> HIDE DEF part
  <2> QED
    BY <1>2
<1>4. Exponentiate(v, n) = power[n]
  BY DEF Exponentiate, Squaring
<1> HIDE DEF power
<1> DEFINE Right(m) == power[m] \in Field /\ Null(power[m] - Power(v, m))
           T == {k \in Nat : \A m \in 0..n : m <= k => Right(m)}
<1>5. Right(0)
  <2>1. 0 \in 0..n
    OBVIOUS
  <2>2. power[0] = 1
    BY <1>3, <2>1
  <2>3. 1 - 1 = 0
    OBVIOUS
  <2>4. Power(v, 0) = 1
    BY PowerBasics
  <2> QED
    BY <2>2, <2>3, <2>4, NullZero
<1>6. 0 \in T
  <2>1. \A m \in 0..n : m <= 0 => m = 0
    OBVIOUS
  <2> HIDE DEF Right
  <2> QED
    BY <1>5, <2>1
<1>7. ASSUME NEW k \in Nat, k \in T PROVE k + 1 \in T
  <2>1. ASSUME NEW m \in 0..n, m <= k + 1 PROVE Right(m)
    <3>1. CASE m = 0
      <4> HIDE DEF Right
      <4> QED
        BY <1>5, <3>1
    <3>2. CASE m # 0
      <4>1. m \div 2 \in 0..n /\ m \div 2 <= k /\ m \in Nat
        BY <2>1, <3>2
      <4>2. Right(m \div 2)
        <5> HIDE DEF Right
        <5> QED
          BY <1>7, <4>1
      <4>3. PICK h \in Field : h = power[m \div 2] /\ Null(h - Power(v, m \div 2))
        BY <4>2
      <4>4. Squaring(v, h, m) \in Field /\ Null(Squaring(v, h, m) - Power(v, m))
        BY <4>1, <4>3, SquaringIs
      <4>5. power[m] = Squaring(v, h, m)
        BY <1>3, <3>2, <4>3
      <4> QED
        BY <4>4, <4>5
    <3> QED
      BY <3>1, <3>2
  <2> HIDE DEF Right
  <2> QED
    BY <2>1
<1>8. n \in T
  <2> HIDE DEF T
  <2> QED
    BY <1>6, <1>7, Induction
<1>9. Right(n)
  <2>1. n \in 0..n /\ n <= n
    OBVIOUS
  <2> HIDE DEF Right
  <2> QED
    BY <1>8, <2>1
<1> QED
  BY <1>4, <1>9

-----------------------------------------------------------------------------
(* Quotients.                                                              *)

LEMMA InverseIs ==
  ASSUME NEW a \in Field, a # 0
  PROVE  /\ Exponentiate(a, P - 2) \in Field
         /\ Null(a * Exponentiate(a, P - 2) - 1)
<1>1. P - 1 \in Nat /\ P - 2 \in Nat /\ (P - 2) + 1 = P - 1
  BY Modulus
<1>2. a \in Int
  BY NullZero
<1>3. Exponentiate(a, P - 1) = 1
  BY EdwardsAssumption
<1>4. PICK e \in Field : e = Exponentiate(a, P - 2) /\ Null(e - Power(a, P - 2))
  BY <1>1, <1>2, ExponentiateIs
<1>5. PICK p \in Int : p = Power(a, P - 2) /\ Power(a, P - 1) = p * a
  BY <1>1, <1>2, PowerBasics
<1>6. Null(1 - p * a)
  BY <1>1, <1>2, <1>3, <1>5, ExponentiateIs
<1>7. e \in Int
  BY NullZero
<1>8. Null(a * (e - p))
  BY <1>2, <1>4, <1>5, <1>7, NullTimes
<1>9. Null(a * (e - p) - (1 - p * a))
  <2>1. a * (e - p) \in Int /\ 1 - p * a \in Int
    BY <1>2, <1>7
  <2> QED
    BY <1>6, <1>8, <2>1, NullSum
<1>10. a * (e - p) - (1 - p * a) = a * e - 1
  BY <1>2, <1>7
<1> QED
  BY <1>4, <1>9, <1>10

\* b is the reciprocal of a.
Inverts(a, b) == Null(a * b - 1)

LEMMA HasInverse ==
  ASSUME NEW a \in Int, ~Null(a)
  PROVE  \E b \in Int : Inverts(a, b)
<1>1. PICK r \in Field : r = a % P /\ Null(r - a)
  BY Reduced
<1>2. r \in Int /\ r # 0
  <2>1. CASE r = 0
    <3>1. (0 - 1) * (r - a) = a
      BY <2>1
    <3>2. Null((0 - 1) * (r - a))
      BY <1>1, <2>1, NullTimes
    <3> QED
      BY <3>1, <3>2
  <2> QED
    BY <2>1, NullZero
<1>3. PICK b \in Field : Null(r * b - 1)
  BY <1>2, InverseIs
<1>4. b \in Int
  BY NullZero
<1>5. Null((r * b - 1) - b * (r - a))
  <2>1. Null(b * (r - a)) /\ b * (r - a) \in Int /\ r * b - 1 \in Int
    BY <1>1, <1>2, <1>4, NullTimes
  <2> QED
    BY <1>3, <2>1, NullSum
<1>6. (r * b - 1) - b * (r - a) = a * b - 1
  BY <1>2, <1>4
<1>7. Inverts(a, b)
  BY <1>5, <1>6 DEF Inverts
<1> QED
  BY <1>4, <1>7

\* A product that is a multiple of P has a factor that is one: P is taken for
\* a prime as Fermat has it, and this is how it is used.
LEMMA Domain ==
  ASSUME NEW a \in Int, NEW b \in Int, Null(a * b), ~Null(a)
  PROVE  Null(b)
<1>1. PICK c \in Int : Inverts(a, c)
  BY HasInverse
<1>2. PICK u \in Int, v \in Int : u = c * (a * b) /\ v = b * (a * c - 1)
  OBVIOUS
<1>3. Null(u) /\ Null(v)
  <2>1. a * b \in Int /\ a * c - 1 \in Int
    OBVIOUS
  <2> QED
    BY <1>1, <1>2, <2>1, NullTimes DEF Inverts
<1>4. u - v = b
  BY <1>2
<1> QED
  BY <1>3, <1>4, NullSum

LEMMA NoFactor ==
  ASSUME NEW a \in Int, NEW b \in Int, ~Null(a), ~Null(b)
  PROVE  ~Null(a * b)
BY Domain

LEMMA Cancelled ==
  ASSUME NEW a \in Int, NEW b \in Int, NEW c \in Int,
         Null(a * b - a * c), ~Null(a)
  PROVE  Null(b - c)
<1>1. a * b - a * c = a * (b - c) /\ b - c \in Int
  OBVIOUS
<1> QED
  BY <1>1, Domain

LEMMA SmallNotNull ==
  /\ ~Null(1) /\ ~Null(2) /\ 1 \in Int /\ 2 \in Int
  /\ CurveD \in Int /\ SqrtM1 \in Int /\ Null(SqrtM1 * SqrtM1 + 1)
<1>1. 1 \in Field /\ 2 \in Field /\ 1 # 0 /\ 2 # 0
  BY Modulus DEF Field
<1>2. CurveD \in Int /\ SqrtM1 \in Int
  BY EdwardsAssumption, NullZero
<1>3. PICK s \in Int : s = SqrtM1 * SqrtM1
  BY <1>2
<1>4. s % P = P - 1
  BY <1>3, EdwardsAssumption
<1>5. Null(s - (P - 1))
  <2>1. Null(s - (s % P))
    BY Reduced
  <2> QED
    BY <1>4, <2>1
<1>6. Null(P)
  <2>1. P = 1 * P /\ 1 \in Int
    BY Modulus
  <2> QED
    BY <2>1 DEF Null
<1>7. P \in Int /\ P - 1 \in Int /\ s - (P - 1) \in Int
  BY Modulus
<1>8. Null((s - (P - 1)) + P)
  BY <1>5, <1>6, <1>7, NullSum
<1>9. (s - (P - 1)) + P = s + 1
  BY Modulus
<1>10. Null(s + 1)
  BY <1>8, <1>9
<1> QED
  BY <1>1, <1>2, <1>3, <1>10, NullInField

\* d is no square.
LEMMA NoRoot ==
  ASSUME NEW u \in Int, NEW t \in Int, Null(u * u - CurveD * (t * t))
  PROVE  Null(t)
<1>1. SUFFICES ASSUME ~Null(t) PROVE FALSE
  OBVIOUS
<1>2. PICK c \in Int : Inverts(t, c)
  BY <1>1, HasInverse
<1>3. CurveD \in Int /\ CurveD \in Field
  BY SmallNotNull, EdwardsAssumption
<1>4. PICK w \in Int : w = u * c
  OBVIOUS
<1>5. w * w - CurveD = (c * c) * (u * u - CurveD * (t * t))
                        + (CurveD * (t * c + 1)) * (t * c - 1)
  BY <1>3, <1>4
<1>6. Null((c * c) * (u * u - CurveD * (t * t)) + (CurveD * (t * c + 1)) * (t * c - 1))
  <2>1. PICK a \in Int, b \in Int, e \in Int, f \in Int :
           /\ a = c * c /\ b = u * u - CurveD * (t * t)
           /\ e = CurveD * (t * c + 1) /\ f = t * c - 1
    BY <1>3
  <2>4. Null(b) /\ Null(f)
    BY <1>2, <2>1 DEF Inverts
  <2>2. Null(a * b) /\ Null(e * f) /\ a * b \in Int /\ e * f \in Int
    BY <2>4, NullTimes
  <2>3. Null(a * b + e * f)
    BY <2>2, NullSum
  <2> QED
    BY <2>1, <2>3
<1>7. Null(w * w - CurveD)
  BY <1>5, <1>6
<1>8. PICK r \in Field : r = w % P /\ Null(r - w)
  BY Reduced
<1>9. r \in Int
  BY NullZero
<1>10. Null(r * r - w * w)
  BY <1>8, <1>9, Products
<1>11. PICK a \in Int, b \in Int : a = r * r /\ b = w * w
  BY <1>9
<1>12. Null(a - CurveD)
  BY <1>3, <1>7, <1>10, <1>11, Replaced
<1>13. a % P = CurveD
  BY <1>3, <1>12, ReducedIs
<1>14. (r * r) % P = CurveD
  BY <1>11, <1>13
<1> QED
  BY <1>14, EdwardsAssumption

-----------------------------------------------------------------------------
(* The curve: its sums have a denominator.                                 *)

\* The equation of the curve, over the integers.
CurveAt(x, y) == Null(((x * x - y * y) + 1) + CurveD * ((x * x) * (y * y)))

\* The product that is added to one in the denominators of a sum.
Shared(x1, y1, x2, y2) == CurveD * ((x1 * x2) * (y1 * y2))

LEMMA OneFactor ==
  ASSUME NEW x1 \in Int, NEW y1 \in Int, NEW x2 \in Int, NEW y2 \in Int,
         CurveAt(x1, y1), CurveAt(x2, y2),
         NEW e \in Int, e = Shared(x1, y1, x2, y2), Null(e * e - 1)
  PROVE  Null((x1 * y1) * (SqrtM1 * x2 + y2))
<1>1. PICK d \in Int, i \in Int : d = CurveD /\ i = SqrtM1 /\ Null(i * i + 1)
  BY SmallNotNull
<1>2. PICK u \in Int, t \in Int :
        u = i * x1 + e * y1 /\ t = (x1 * y1) * (i * x2 + y2)
  OBVIOUS
<1>3. PICK h \in Int, k \in Int, f1 \in Int, f2 \in Int :
        /\ h = i * i + 1 /\ k = e * e - 1
        /\ f1 = ((x1 * x1 - y1 * y1) + 1) + d * ((x1 * x1) * (y1 * y1))
        /\ f2 = ((x2 * x2 - y2 * y2) + 1) + d * ((x2 * x2) * (y2 * y2))
  OBVIOUS
<1>4. Null(h) /\ Null(k) /\ Null(f1) /\ Null(f2)
  BY <1>1, <1>3 DEF CurveAt
<1>5. PICK a \in Int, b \in Int, c \in Int :
        /\ a = x1 * x1 - d * ((x1 * x1) * ((y1 * y1) * (x2 * x2)))
        /\ b = y1 * y1 - 1 /\ c = d * ((x1 * x1) * (y1 * y1))
  OBVIOUS
<1>6. Null(a * h) /\ Null(b * k) /\ Null(c * f2)
      /\ a * h \in Int /\ b * k \in Int /\ c * f2 \in Int
  BY <1>4, NullTimes
<1>7. Null(a * h + b * k) /\ a * h + b * k \in Int
  BY <1>6, NullSum
<1>8. Null((a * h + b * k) + c * f2) /\ (a * h + b * k) + c * f2 \in Int
  BY <1>6, <1>7, NullSum
<1>9. Null(((a * h + b * k) + c * f2) - f1)
  BY <1>4, <1>8, NullSum
<1>10. e = d * ((x1 * x2) * (y1 * y2))
  BY <1>1 DEF Shared
<1>11. ((a * h + b * k) + c * f2) - f1 = u * u - d * (t * t)
  BY <1>2, <1>3, <1>5, <1>10
<1>12. Null(u * u - CurveD * (t * t))
  BY <1>1, <1>9, <1>11
<1>13. Null(t)
  BY <1>12, NoRoot
<1> QED
  BY <1>1, <1>2, <1>13

\* No sum of points has a denominator of zero, d being no square.
LEMMA Complete ==
  ASSUME NEW x1 \in Int, NEW y1 \in Int, NEW x2 \in Int, NEW y2 \in Int,
         CurveAt(x1, y1), CurveAt(x2, y2)
  PROVE  /\ ~Null(1 + Shared(x1, y1, x2, y2))
         /\ ~Null(1 - Shared(x1, y1, x2, y2))
<1>1. PICK d \in Int, i \in Int, e \in Int :
        d = CurveD /\ i = SqrtM1 /\ Null(i * i + 1) /\ e = d * ((x1 * x2) * (y1 * y2))
  BY SmallNotNull
<1>2. e = Shared(x1, y1, x2, y2)
  BY <1>1 DEF Shared
<1>3. SUFFICES ASSUME Null(1 + e) \/ Null(1 - e) PROVE FALSE
  BY <1>2
<1>4. Null(e * e - 1)
  <2>1. CASE Null(1 + e)
    <3>1. PICK a \in Int, b \in Int : a = e - 1 /\ b = 1 + e
      OBVIOUS
    <3>2. Null(a * b)
      BY <2>1, <3>1, NullTimes
    <3>3. a * b = e * e - 1
      BY <3>1
    <3> QED
      BY <3>2, <3>3
  <2>2. CASE Null(1 - e)
    <3>1. PICK a \in Int, b \in Int : a = 0 - (e + 1) /\ b = 1 - e
      OBVIOUS
    <3>2. Null(a * b)
      BY <2>2, <3>1, NullTimes
    <3>3. a * b = e * e - 1
      BY <3>1
    <3> QED
      BY <3>2, <3>3
  <2> QED
    BY <1>3, <2>1, <2>2
<1>5. PICK v \in Int : v = 0 - y2
  OBVIOUS
<1>6. CurveAt(x2, v)
  <2>1. v * v = y2 * y2
    BY <1>5
  <2> QED
    BY <2>1 DEF CurveAt
<1>7. PICK f \in Int : f = Shared(x1, y1, x2, v) /\ f = 0 - e
  <2>1. d * ((x1 * x2) * (y1 * v)) = 0 - e
    BY <1>1, <1>5
  <2> QED
    BY <1>1, <2>1 DEF Shared
<1>8. f * f - 1 = e * e - 1
  BY <1>7
<1>9. Null((x1 * y1) * (i * x2 + y2))
  BY <1>1, <1>2, <1>4, OneFactor
<1>10. Null((x1 * y1) * (i * x2 + v))
  BY <1>1, <1>4, <1>6, <1>7, <1>8, OneFactor
<1>11. PICK a \in Int, b \in Int :
         a = (x1 * y1) * (i * x2 + y2) /\ b = (x1 * y1) * (i * x2 + v)
  OBVIOUS
<1>12. Null(a + b)
  BY <1>9, <1>10, <1>11, NullSum
<1>13. PICK c \in Int, h \in Int : c = i * (d * y2) /\ h = i * i + 1
  OBVIOUS
<1>14. a + b = 2 * ((x1 * y1) * (i * x2))
  BY <1>5, <1>11
<1>15. c * (a + b) = 2 * (e * (i * i))
  BY <1>1, <1>13, <1>14
<1>16. Null(c * (a + b)) /\ c * (a + b) \in Int /\ Null((2 * e) * h) /\ (2 * e) * h \in Int
  <2>1. a + b \in Int /\ 2 * e \in Int /\ Null(h)
    BY <1>1, <1>13
  <2> QED
    BY <1>12, <2>1, NullTimes
<1>17. Null((2 * e) * h - c * (a + b))
  BY <1>16, NullSum
<1>18. (2 * e) * h - c * (a + b) = 2 * e
  BY <1>13, <1>15
<1>19. Null(e)
  BY <1>17, <1>18, SmallNotNull, Domain
<1>20. Null(e * e) /\ e * e \in Int /\ e * e - 1 \in Int
  BY <1>19, NullTimes
<1>21. Null(e * e - (e * e - 1))
  BY <1>4, <1>20, NullSum
<1>22. e * e - (e * e - 1) = 1
  OBVIOUS
<1> QED
  BY <1>21, <1>22, SmallNotNull

\* The two sums that a sum of points is made of.
SumAt(x1, y1, x2, y2, x3, y3) ==
  /\ Null((1 + Shared(x1, y1, x2, y2)) * x3 - (x1 * y2 + y1 * x2))
  /\ Null((1 - Shared(x1, y1, x2, y2)) * y3 - (y1 * y2 + x1 * x2))

LEMMA SumCommutes ==
  ASSUME NEW x1 \in Int, NEW y1 \in Int, NEW x2 \in Int, NEW y2 \in Int,
         NEW x3 \in Int, NEW y3 \in Int, SumAt(x1, y1, x2, y2, x3, y3)
  PROVE  SumAt(x2, y2, x1, y1, x3, y3)
<1>1. /\ (x1 * x2) * (y1 * y2) = (x2 * x1) * (y2 * y1)
      /\ x1 * y2 + y1 * x2 = x2 * y1 + y2 * x1
      /\ y1 * y2 + x1 * x2 = y2 * y1 + x2 * x1
  OBVIOUS
<1> QED
  BY <1>1 DEF SumAt, Shared

\* A sum of points is on the curve.
LEMMA SumOnCurve ==
  ASSUME NEW x1 \in Int, NEW y1 \in Int, NEW x2 \in Int, NEW y2 \in Int,
         NEW x3 \in Int, NEW y3 \in Int,
         CurveAt(x1, y1), CurveAt(x2, y2), SumAt(x1, y1, x2, y2, x3, y3)
  PROVE  CurveAt(x3, y3)
<1>1. PICK d \in Int, g \in Int : d = CurveD /\ g = d * ((x1 * x2) * (y1 * y2))
  BY SmallNotNull
<1>2. PICK m \in Int, n \in Int, s \in Int, t \in Int :
        /\ m = 1 + g /\ n = 1 - g
        /\ s = x1 * y2 + y1 * x2 /\ t = y1 * y2 + x1 * x2
  OBVIOUS
<1>3. ~Null(m) /\ ~Null(n)
  BY <1>1, <1>2, Complete DEF Shared
<1>4. PICK u \in Int, v \in Int : u = m * x3 /\ v = n * y3
  OBVIOUS
<1>5. Null(u - s) /\ Null(v - t)
  BY <1>1, <1>2, <1>4 DEF SumAt, Shared
<1>6. Null(u * u - s * s) /\ Null(v * v - t * t)
  BY <1>5, Products
<1>7. PICK a \in Int, b \in Int, j \in Int, k \in Int :
        /\ a = u * u - s * s /\ b = v * v - t * t
        /\ j = n * n + d * (t * t) /\ k = d * (u * u) - m * m
  OBVIOUS
<1>8. PICK e1 \in Int, e2 \in Int, e3 \in Int :
        /\ e1 = ((x1 * x1 - y1 * y1) + 1) + d * ((x1 * x1) * (y1 * y1))
        /\ e2 = ((x2 * x2 - y2 * y2) + 1) + d * ((x2 * x2) * (y2 * y2))
        /\ e3 = ((x3 * x3 - y3 * y3) + 1) + d * ((x3 * x3) * (y3 * y3))
  OBVIOUS
<1>9. Null(e1) /\ Null(e2) /\ Null(a) /\ Null(b)
  BY <1>1, <1>6, <1>7, <1>8 DEF CurveAt
<1>10. PICK f \in Int :
         f = ((s * s) * (n * n) - (t * t) * (m * m))
             + ((m * m) * (n * n) + d * ((s * s) * (t * t)))
  OBVIOUS
<1>11. PICK h \in Int, l \in Int, p \in Int, r \in Int :
         /\ h = d * ((x1 * x1) * (y1 * y1)) /\ l = d * ((x2 * x2) * (y2 * y2))
         /\ p = y1 * y1 - x1 * x1 /\ r = y2 * y2 - x2 * x2
  OBVIOUS
<1>12. PICK k1 \in Int, k2 \in Int :
         /\ k1 = (h * l + 1) * r - l * (p + (1 + h))
         /\ k2 = (h * l + 1) * (1 + h) - h * (r + (1 + l))
  OBVIOUS
<1>13. f = k1 * e1 + k2 * e2
  <2>1. PICK q1 \in Int, q2 \in Int, c1 \in Int, c2 \in Int :
          /\ q1 = x1 * x1 + y1 * y1 /\ q2 = x2 * x2 + y2 * y2
          /\ c1 = x1 * y1 /\ c2 = x2 * y2
    OBVIOUS
  <2>2. s * s - t * t = 0 - p * r /\ s * s + t * t = q1 * q2 + 4 * (c1 * c2)
    BY <1>2, <1>11, <2>1
  <2>3. s * t = c1 * q2 + c2 * q1
    BY <1>2, <2>1
  <2>4. g = d * (c1 * c2) /\ h = d * (c1 * c1) /\ l = d * (c2 * c2) /\ g * g = h * l
    BY <1>1, <1>11, <2>1
  <2>5. q1 * q1 = p * p + 4 * (c1 * c1) /\ q2 * q2 = r * r + 4 * (c2 * c2)
    BY <1>11, <2>1
  <2>6. /\ d * ((s * t) * (s * t))
             = (h * (q2 * q2) + l * (q1 * q1)) + (2 * g) * (q1 * q2)
        /\ d * ((s * t) * (s * t)) = d * ((s * s) * (t * t))
    BY <2>3, <2>4
  <2>7. (s * s) * (n * n) - (t * t) * (m * m)
          = (s * s - t * t) * (1 + g * g) - (2 * g) * (s * s + t * t)
    BY <1>2
  <2>8. PICK ss \in Int, tt \in Int, qq \in Int, hl \in Int :
          ss = s * s /\ tt = t * t /\ qq = q1 * q2 /\ hl = h * l
    OBVIOUS
  <2>9. (s * s) * (n * n) - (t * t) * (m * m)
          = (0 - p * r) * (1 + hl) - (2 * g) * (qq + 4 * (c1 * c2))
    BY <2>2, <2>4, <2>7, <2>8
  <2>10. g * (c1 * c2) = h * (c2 * c2) /\ g * (c1 * c2) = l * (c1 * c1)
    BY <2>4
  <2>11. d * ((s * s) * (t * t))
          = (h * (r * r) + l * (p * p)) + (8 * (g * (c1 * c2)) + (2 * g) * qq)
    <3>1. PICK y1s \in Int, y2s \in Int, z \in Int, v1 \in Int, v2 \in Int :
            /\ y1s = q1 * q1 /\ y2s = q2 * q2 /\ z = g * (c1 * c2)
            /\ v1 = c1 * c1 /\ v2 = c2 * c2
      OBVIOUS
    <3>2. y1s = p * p + 4 * v1 /\ y2s = r * r + 4 * v2 /\ z = h * v2 /\ z = l * v1
      BY <2>5, <2>10, <3>1
    <3>3. h * y2s + l * y1s = (h * (r * r) + l * (p * p)) + 8 * z
      <4>1. h * y2s = h * (r * r) + 4 * z /\ l * y1s = l * (p * p) + 4 * z
        BY <3>2
      <4> QED
        BY <4>1
    <3>4. d * ((s * s) * (t * t)) = (h * y2s + l * y1s) + (2 * g) * qq
      BY <2>6, <2>8, <3>1
    <3> QED
      BY <3>1, <3>3, <3>4
  <2>12. (m * m) * (n * n) = (1 - hl) * (1 - hl)
    BY <1>2, <2>4, <2>8
  <2>13. f = (((0 - p * r) * (1 + hl) + (1 - hl) * (1 - hl)) + h * (r * r)) + l * (p * p)
    <3>1. PICK z \in Int : z = g * (c1 * c2)
      OBVIOUS
    <3>2. (2 * g) * (qq + 4 * (c1 * c2)) = (2 * g) * qq + 8 * z
      BY <3>1
    <3>3. PICK a1 \in Int, a2 \in Int, a3 \in Int, w \in Int :
            /\ a1 = (s * s) * (n * n) - (t * t) * (m * m)
            /\ a2 = (m * m) * (n * n) /\ a3 = d * ((s * s) * (t * t))
            /\ w = (2 * g) * qq
      OBVIOUS
    <3> QED
      BY <1>10, <2>9, <2>11, <2>12, <3>1, <3>2, <3>3
  <2>14. e1 = (1 + h) - p /\ e2 = (1 + l) - r
    BY <1>8, <1>11
  <2> QED
    BY <1>12, <2>8, <2>13, <2>14
<1>14. Null(f)
  <2>1. Null(k1 * e1) /\ Null(k2 * e2) /\ k1 * e1 \in Int /\ k2 * e2 \in Int
    BY <1>9, NullTimes
  <2>2. Null(k1 * e1 + k2 * e2)
    BY <2>1, NullSum
  <2> QED
    BY <1>13, <2>2
<1>15. ((m * m) * (n * n)) * e3 = (j * a + k * b) + f
  BY <1>4, <1>7, <1>8, <1>10
<1>16. Null(((m * m) * (n * n)) * e3)
  <2>1. Null(j * a) /\ Null(k * b) /\ j * a \in Int /\ k * b \in Int
    BY <1>9, NullTimes
  <2>2. Null(j * a + k * b) /\ j * a + k * b \in Int
    BY <2>1, NullSum
  <2>3. Null((j * a + k * b) + f)
    BY <1>14, <2>2, NullSum
  <2> QED
    BY <1>15, <2>3
<1>17. ~Null((m * m) * (n * n)) /\ (m * m) * (n * n) \in Int
  <2>1. PICK x \in Int, y \in Int : x = m * m /\ y = n * n
    OBVIOUS
  <2>2. ~Null(x) /\ ~Null(y)
    BY <1>3, <2>1, NoFactor
  <2>3. ~Null(x * y)
    BY <2>2, NoFactor
  <2> QED
    BY <2>1, <2>3
<1>18. Null(e3)
  <2>1. PICK x \in Int : x = (m * m) * (n * n)
    OBVIOUS
  <2> QED
    BY <1>16, <1>17, <2>1, Domain
<1> QED
  BY <1>1, <1>8, <1>18 DEF CurveAt

\* There is one sum.
\* The sum of two points is one.
LEMMA OneSum ==
  ASSUME NEW x1 \in Int, NEW y1 \in Int, NEW x2 \in Int, NEW y2 \in Int,
         NEW x3 \in Int, NEW y3 \in Int, NEW x4 \in Int, NEW y4 \in Int,
         CurveAt(x1, y1), CurveAt(x2, y2),
         SumAt(x1, y1, x2, y2, x3, y3), SumAt(x1, y1, x2, y2, x4, y4)
  PROVE  Null(x3 - x4) /\ Null(y3 - y4)
<1>1. PICK g \in Int : g = Shared(x1, y1, x2, y2)
  BY SmallNotNull DEF Shared
<1>2. PICK m \in Int, n \in Int, s \in Int, t \in Int :
        /\ m = 1 + g /\ n = 1 - g
        /\ s = x1 * y2 + y1 * x2 /\ t = y1 * y2 + x1 * x2
  OBVIOUS
<1>3. ~Null(m) /\ ~Null(n)
  BY <1>1, <1>2, Complete
<1>4. Null(m * x3 - s) /\ Null(m * x4 - s) /\ Null(n * y3 - t) /\ Null(n * y4 - t)
  BY <1>1, <1>2 DEF SumAt
<1>5. Null((m * x3 - s) - (m * x4 - s)) /\ Null((n * y3 - t) - (n * y4 - t))
  <2>1. PICK a \in Int, b \in Int, c \in Int, e \in Int :
          /\ a = m * x3 - s /\ b = m * x4 - s
          /\ c = n * y3 - t /\ e = n * y4 - t
    OBVIOUS
  <2> QED
    BY <1>4, <2>1, NullSum
<1>6. /\ (m * x3 - s) - (m * x4 - s) = m * x3 - m * x4
      /\ (n * y3 - t) - (n * y4 - t) = n * y3 - n * y4
  OBVIOUS
<1>7. Null(m * x3 - m * x4) /\ Null(n * y3 - n * y4)
  BY <1>5, <1>6
<1> QED
  BY <1>3, <1>7, Cancelled

\* A sum of three points, without a division.
\* The sum of three points, with the denominators multiplied out.
LEMMA TripleSum ==
  ASSUME NEW x1 \in Int, NEW y1 \in Int, NEW x2 \in Int, NEW y2 \in Int,
         NEW x3 \in Int, NEW y3 \in Int, NEW sx \in Int, NEW sy \in Int,
         NEW rx \in Int, NEW ry \in Int,
         CurveAt(x1, y1), CurveAt(x2, y2), CurveAt(x3, y3),
         SumAt(x1, y1, x2, y2, sx, sy), SumAt(sx, sy, x3, y3, rx, ry),
         NEW d \in Int, d = CurveD, NEW g \in Int, g = d * ((x1 * x2) * (y1 * y2)),
         NEW s \in Int, s = x1 * y2 + y1 * x2,
         NEW t \in Int, t = y1 * y2 + x1 * x2,
         NEW b \in Int, b = (1 + g) * (1 - g), NEW k \in Int, k = d * ((s * x3) * (t * y3)),
         NEW a \in Int, a = s * ((1 - g) * y3) + t * ((1 + g) * x3),
         NEW c \in Int, c = t * ((1 + g) * y3) + s * ((1 - g) * x3)
  PROVE  /\ ~Null(b + k) /\ ~Null(b - k)
         /\ Null((b + k) * rx - a) /\ Null((b - k) * ry - c)
<1>1. CurveAt(sx, sy)
  BY SumOnCurve
<1>2. PICK m \in Int, n \in Int : m = 1 + g /\ n = 1 - g
  OBVIOUS
<1>3. ~Null(m) /\ ~Null(n)
  BY <1>2, Complete DEF Shared
<1>4. Null(m * sx - s) /\ Null(n * sy - t)
  BY <1>2 DEF SumAt, Shared
<1>5. PICK e \in Int : e = d * ((sx * x3) * (sy * y3))
  OBVIOUS
<1>6. ~Null(1 + e) /\ ~Null(1 - e)
  BY <1>1, <1>5, Complete DEF Shared
<1>7. /\ Null((1 + e) * rx - (sx * y3 + sy * x3))
      /\ Null((1 - e) * ry - (sy * y3 + sx * x3))
  BY <1>5 DEF SumAt, Shared
<1>8. PICK u \in Int, v \in Int : u = m * sx /\ v = n * sy
  OBVIOUS
<1>9. PICK fu \in Int, fv \in Int : fu = u - s /\ fv = v - t /\ Null(fu) /\ Null(fv)
  BY <1>4, <1>8
<1>10. b = m * n /\ ~Null(b)
  BY <1>2, <1>3, NoFactor
<1>11. PICK j \in Int : j = d * ((u * x3) * (v * y3)) /\ j = b * e
  <2>1. d * ((u * x3) * (v * y3)) = b * e
    BY <1>5, <1>8, <1>10
  <2> QED
    BY <2>1
<1>12. Null(j - k)
  <2>1. PICK p \in Int, q \in Int : p = d * ((v * y3) * x3) /\ q = d * ((s * x3) * y3)
    OBVIOUS
  <2>2. j - k = p * fu + q * fv
    BY <1>9, <1>11, <2>1
  <2>3. Null(p * fu) /\ Null(q * fv) /\ p * fu \in Int /\ q * fv \in Int
    BY <1>9, NullTimes
  <2> QED
    BY <2>2, <2>3, NullSum
<1>13. ~Null(b + k) /\ ~Null(b - k)
  <2>1. PICK z \in Int, w \in Int : z = 1 + e /\ w = 1 - e
    OBVIOUS
  <2>2. ~Null(b * z) /\ ~Null(b * w)
    BY <1>6, <1>10, <2>1, NoFactor
  <2>3. b * z = b + j /\ b * w = b - j
    BY <1>11, <2>1
  <2>4. (b + k) + (j - k) = b + j /\ (b - k) - (j - k) = b - j
    OBVIOUS
  <2>5. PICK h \in Int, p \in Int, q \in Int : h = j - k /\ p = b + k /\ q = b - k
    OBVIOUS
  <2>6. ~Null(p + h) /\ ~Null(q - h) /\ Null(h)
    BY <1>12, <2>2, <2>3, <2>4, <2>5
  <2>7. ~Null(p) /\ ~Null(q)
    BY <2>6, NullSum
  <2> QED
    BY <2>5, <2>7
<1>14. PICK f \in Int, h \in Int, l \in Int :
         /\ f = (1 + e) * rx - (sx * y3 + sy * x3)
         /\ h = (1 - e) * ry - (sy * y3 + sx * x3)
         /\ l = j - k
  OBVIOUS
<1>15. (b + k) * rx - a
         = ((b * f - rx * l) + (n * y3) * fu) + (m * x3) * fv
  BY <1>2, <1>8, <1>9, <1>10, <1>11, <1>14
<1>16. (b - k) * ry - c
         = ((b * h + ry * l) + (m * y3) * fv) + (n * x3) * fu
  BY <1>2, <1>8, <1>9, <1>10, <1>11, <1>14
<1>17. Null(f) /\ Null(h) /\ Null(l)
  BY <1>7, <1>12, <1>14
<1>18. PICK p1 \in Int, p2 \in Int, p3 \in Int, p4 \in Int :
         p1 = n * y3 /\ p2 = m * x3 /\ p3 = m * y3 /\ p4 = n * x3
  OBVIOUS
<1>19. PICK q1 \in Int, q2 \in Int, q3 \in Int, q4 \in Int, o1 \in Int,
            o2 \in Int, o3 \in Int, o4 \in Int :
         /\ q1 = b * f /\ q2 = rx * l /\ q3 = p1 * fu /\ q4 = p2 * fv
         /\ o1 = b * h /\ o2 = ry * l /\ o3 = p3 * fv /\ o4 = p4 * fu
  OBVIOUS
<1>20. /\ Null(q1) /\ Null(q2) /\ Null(q3) /\ Null(q4)
       /\ Null(o1) /\ Null(o2) /\ Null(o3) /\ Null(o4)
  BY <1>9, <1>17, <1>19, NullTimes
<1>21. Null(q1 - q2) /\ Null(o1 + o2) /\ q1 - q2 \in Int /\ o1 + o2 \in Int
  BY <1>20, NullSum
<1>22. /\ Null((q1 - q2) + q3) /\ (q1 - q2) + q3 \in Int
       /\ Null((o1 + o2) + o3) /\ (o1 + o2) + o3 \in Int
  BY <1>20, <1>21, NullSum
<1>23. Null(((q1 - q2) + q3) + q4) /\ Null(((o1 + o2) + o3) + o4)
  BY <1>20, <1>22, NullSum
<1> QED
  BY <1>13, <1>15, <1>16, <1>18, <1>19, <1>23

\* A polynomial identity, sorted by degree.
LEMMA Spread ==
  ASSUME NEW a \in Int, NEW b \in Int, NEW c \in Int,
         NEW u \in Int, NEW v \in Int, NEW w \in Int,
         NEW r \in Int, NEW s \in Int, NEW t \in Int
  PROVE  ((a + u) * (r + 1) + (b + v) * (s + 1)) + (c + w) * (t + 1)
           = (((a * r + b * s) + c * t)
              + (((u * r + v * s) + w * t) + ((a + b) + c))) + ((u + v) + w)
OBVIOUS

LEMMA Weighted ==
  ASSUME NEW d \in Int, NEW a1 \in Int, NEW a3 \in Int,
         NEW b1 \in Int, NEW b2 \in Int, NEW b3 \in Int,
         NEW f1 \in Int, NEW f2 \in Int, NEW f3 \in Int,
         NEW q1 \in Int, NEW q2 \in Int, NEW q3 \in Int
  PROVE  ((b1 + d * a1) * (f1 + d * q1) + b2 * (f2 + d * q2)) + (b3 + d * a3) * (f3 + d * q3)
           = (((b1 * f1 + b2 * f2) + b3 * f3)
              + d * ((((b1 * q1 + b2 * q2) + b3 * q3) + a1 * f1) + a3 * f3))
             + (d * d) * (a1 * q1 + a3 * q3)
OBVIOUS

\* The sum of three points, twice cleared of its denominators: the symmetric
\* part, and what is left.
LEMMA Uncrossed ==
  ASSUME NEW d \in Int, NEW T \in Int, NEW u \in Int, NEW v \in Int,
         NEW k1 \in Int, NEW k2 \in Int, NEW k3 \in Int,
         NEW q1 \in Int, NEW q2 \in Int, NEW q3 \in Int,
         NEW m1 \in Int, NEW m2 \in Int,
         m1 = (1 - (d * (k1 * k2)) * (d * (k1 * k2))) + d * (k3 * (k1 * q2 + k2 * q1)),
         m2 = (1 - (d * (k2 * k3)) * (d * (k2 * k3))) + d * (k1 * (k2 * q3 + k3 * q2))
  PROVE  (T - (d * (k1 * k2)) * u) * m2 - (T + (d * (k2 * k3)) * v) * m1
           = (d * k2)
             * ((((T * (k1 * q3 - k3 * q1) - k1 * u) - k3 * v)
                 + d * ((T * (k2 * (k1 * k1 - k3 * k3))
                         - k1 * (u * (k1 * (k2 * q3 + k3 * q2))))
                        - k3 * (v * (k3 * (k1 * q2 + k2 * q1)))))
                + (d * d) * (((k2 * k2) * (k3 * v)) * (k1 * k1)
                             + ((k2 * k2) * (k1 * u)) * (k3 * k3)))
<1>1. m2 - m1 = (d * k2) * ((k1 * q3 - k3 * q1) + d * (k2 * (k1 * k1 - k3 * k3)))
  OBVIOUS
<1>2. (T - (d * (k1 * k2)) * u) * m2 - (T + (d * (k2 * k3)) * v) * m1
        = (T * (m2 - m1) - (d * k2) * ((k1 * u) * m2)) - (d * k2) * ((k3 * v) * m1)
  <2> QED
    BY ONLY d \in Int, T \in Int, u \in Int, v \in Int, m1 \in Int, m2 \in Int,
            k1 \in Int, k2 \in Int, k3 \in Int
<1> QED
  BY <1>1, <1>2

\* The parts of the sum of three points, and what is left of it.
AbscissaParts(x1, y1, x2, y2, x3, y3, T, u, v) ==
  /\ T = ((x1 * x2) * x3 + (x1 * y2) * y3) + ((y1 * x2) * y3 + (y1 * y2) * x3)
  /\ u = y1 * (x2 * y3 - y2 * x3) - x1 * (x2 * x3 - y2 * y3)
  /\ v = x1 * (x2 * x3 + y2 * y3) - y1 * (x2 * y3 + y2 * x3)

OrdinateParts(x1, y1, x2, y2, x3, y3, T, u, v) ==
  /\ T = ((y1 * y2) * y3 + (x1 * x2) * y3) + ((x1 * y2) * x3 + (y1 * x2) * x3)
  /\ u = y1 * (y2 * y3 - x2 * x3) - x1 * (y2 * x3 - x2 * y3)
  /\ v = x1 * (x2 * y3 + y2 * x3) - y1 * (x2 * x3 + y2 * y3)

Squares(x1, y1, x2, y2, x3, y3, k1, k2, k3, q1, q2, q3) ==
  /\ k1 = x1 * y1 /\ k2 = x2 * y2 /\ k3 = x3 * y3
  /\ q1 = x1 * x1 + y1 * y1 /\ q2 = x2 * x2 + y2 * y2 /\ q3 = x3 * x3 + y3 * y3

Deficits(x1, y1, x2, y2, x3, y3, k1, k2, k3, d, e1, e2, e3) ==
  /\ e1 = ((x1 * x1 - y1 * y1) + 1) + d * (k1 * k1)
  /\ e2 = ((x2 * x2 - y2 * y2) + 1) + d * (k2 * k2)
  /\ e3 = ((x3 * x3 - y3 * y3) + 1) + d * (k3 * k3)

\* How far the numerators of the two ways to add are apart: a combination of
\* what the three points miss the curve by, which is nothing.
Remains(T, u, v, k1, k2, k3, q1, q2, q3, d, z) ==
  z = (((T * (k1 * q3 - k3 * q1) - k1 * u) - k3 * v)
       + d * ((T * (k2 * (k1 * k1 - k3 * k3))
               - k1 * (u * (k1 * (k2 * q3 + k3 * q2))))
              - k3 * (v * (k3 * (k1 * q2 + k2 * q1)))))
      + (d * d) * (((k2 * k2) * (k3 * v)) * (k1 * k1)
                   + ((k2 * k2) * (k1 * u)) * (k3 * k3))

Spanned(z, e1, e2, e3) ==
  \E i1, i2, i3 \in Int : z = (i1 * e1 + i2 * e2) + i3 * e3

\* The first coordinates.
LEMMA Abscissae ==
  ASSUME NEW x1 \in Int, NEW y1 \in Int, NEW x2 \in Int, NEW y2 \in Int,
         NEW x3 \in Int, NEW y3 \in Int, NEW T \in Int, NEW u \in Int,
         NEW v \in Int, NEW k1 \in Int, NEW k2 \in Int, NEW k3 \in Int,
         NEW q1 \in Int, NEW q2 \in Int, NEW q3 \in Int, NEW d \in Int,
         NEW e1 \in Int, NEW e2 \in Int, NEW e3 \in Int, NEW z \in Int,
         AbscissaParts(x1, y1, x2, y2, x3, y3, T, u, v),
         Squares(x1, y1, x2, y2, x3, y3, k1, k2, k3, q1, q2, q3),
         Deficits(x1, y1, x2, y2, x3, y3, k1, k2, k3, d, e1, e2, e3),
         Remains(T, u, v, k1, k2, k3, q1, q2, q3, d, z)
  PROVE  Spanned(z, e1, e2, e3)
<1> USE DEF AbscissaParts, Squares, Deficits, Remains
<1>1. PICK h1 \in Int, h2 \in Int, h3 \in Int :
        /\ h1 = (x2 * y2) * ((x3 * (x3 * x3)) * (x1 * x2 + y1 * y2) - (y3 * (y3 * y3)) * (x1 * y2 + y1 * x2))
                  + (x3 * y3) * ((x2 * (x2 * x2)) * (x1 * x3 - y1 * y3)
                               + (y2 * (y2 * y2)) * (y1 * x3 - x1 * y3))
        /\ h2 = (x1 * y1) * ((x3 * (x3 * x3)) * (x1 * x2 + y1 * y2) + (y3 * (y3 * y3)) * (x1 * y2 + y1 * x2))
                  - (x3 * y3) * ((x1 * (x1 * x1)) * (x2 * x3 + y2 * y3)
                               + (y1 * (y1 * y1)) * (x2 * y3 + y2 * x3))
        /\ h3 = (x2 * y2) * ((y1 * (y1 * y1)) * (x2 * y3 + y2 * x3) - (x1 * (x1 * x1)) * (x2 * x3 + y2 * y3))
                  + (x1 * y1) * ((x2 * (x2 * x2)) * (y1 * y3 - x1 * x3)
                               + (y2 * (y2 * y2)) * (y1 * x3 - x1 * y3))
  OBVIOUS
<1>2. PICK l1 \in Int, l2 \in Int, l3 \in Int :
        /\ l1 = (x2 * y2) * (x3 * (x1 * x2 + y1 * y2) + y3 * (x1 * y2 + y1 * x2))
        /\ l2 = (x1 * y1) * (x3 * (x1 * x2 + y1 * y2) - y3 * (x1 * y2 + y1 * x2))
                  - (x3 * y3) * (x1 * (x2 * x3 + y2 * y3) - y1 * (x2 * y3 + y2 * x3))
        /\ l3 = 0 - (x2 * y2) * (y1 * (x2 * y3 + y2 * x3) + x1 * (x2 * x3 + y2 * y3))
  OBVIOUS
<1>3. PICK r1 \in Int, r2 \in Int, r3 \in Int :
        r1 = x1 * x1 - y1 * y1 /\ r2 = x2 * x2 - y2 * y2 /\ r3 = x3 * x3 - y3 * y3
  OBVIOUS
<1>4. (h1 * r1 + h2 * r2) + h3 * r3 = 0
  BY <1>1, <1>3
<1>5. (l1 + l2) + l3 = (0 - k1 * u) - k3 * v
  BY <1>2
<1>6. ((l1 * r1 + l2 * r2) + l3 * r3) + ((h1 + h2) + h3) = T * (k1 * q3 - k3 * q1)
  BY <1>1, <1>2, <1>3
<1>7. PICK b1 \in Int, b2 \in Int, b3 \in Int :
        b1 = h1 + l1 /\ b2 = h2 + l2 /\ b3 = h3 + l3
  OBVIOUS
<1>8. PICK a1 \in Int, a3 \in Int : a1 = (k2 * k2) * (k3 * v) /\ a3 = (k2 * k2) * (k1 * u)
  OBVIOUS
<1>9. PICK o1 \in Int, o2 \in Int, o3 \in Int :
        o1 = r1 + 1 /\ o2 = r2 + 1 /\ o3 = r3 + 1
  OBVIOUS
<1>10. PICK w0 \in Int, w1 \in Int, w2 \in Int :
         /\ w0 = ((T * (k1 * q3 - k3 * q1) - k1 * u) - k3 * v)
         /\ w1 = ((T * (k2 * (k1 * k1 - k3 * k3))
                - k1 * (u * (k1 * (k2 * q3 + k3 * q2))))
               - k3 * (v * (k3 * (k1 * q2 + k2 * q1))))
         /\ w2 = (((k2 * k2) * (k3 * v)) * (k1 * k1) + ((k2 * k2) * (k1 * u)) * (k3 * k3))
  OBVIOUS
<1>11. w0 = (b1 * o1 + b2 * o2) + b3 * o3
  <2>1. ((h1 + l1) * (r1 + 1) + (h2 + l2) * (r2 + 1)) + (h3 + l3) * (r3 + 1)
          = (((h1 * r1 + h2 * r2) + h3 * r3)
             + (((l1 * r1 + l2 * r2) + l3 * r3) + ((h1 + h2) + h3))) + ((l1 + l2) + l3)
    BY Spread
  <2>2. PICK z1 \in Int, z2 \in Int, z3 \in Int :
          z1 = T * (k1 * q3 - k3 * q1) /\ z2 = k1 * u /\ z3 = k3 * v
    OBVIOUS
  <2>3. ((h1 + l1) * (r1 + 1) + (h2 + l2) * (r2 + 1)) + (h3 + l3) * (r3 + 1)
          = (z1 - z2) - z3
    BY ONLY <1>4, <1>5, <1>6, <2>1, <2>2
  <2> QED
    BY <1>7, <1>9, <1>10, <2>2, <2>3
<1>12. w1 = ((((b1 * (k1 * k1) + b2 * (k2 * k2)) + b3 * (k3 * k3)) + a1 * o1) + a3 * o3)
  BY <1>1, <1>2, <1>3, <1>7, <1>8, <1>9, <1>10
<1>13. w2 = a1 * (k1 * k1) + a3 * (k3 * k3)
  BY <1>8, <1>10
<1>14. PICK c \in Int, s1 \in Int, s2 \in Int, s3 \in Int :
         c = d /\ s1 = k1 * k1 /\ s2 = k2 * k2 /\ s3 = k3 * k3
  OBVIOUS
<1>15. e1 = o1 + c * s1 /\ e2 = o2 + c * s2 /\ e3 = o3 + c * s3
  BY <1>3, <1>9, <1>14
<1>16. ((b1 + c * a1) * (o1 + c * s1) + b2 * (o2 + c * s2)) + (b3 + c * a3) * (o3 + c * s3)
         = (((b1 * o1 + b2 * o2) + b3 * o3)
            + c * ((((b1 * s1 + b2 * s2) + b3 * s3) + a1 * o1) + a3 * o3))
           + (c * c) * (a1 * s1 + a3 * s3)
  BY Weighted
<1>17. PICK i1 \in Int, i3 \in Int : i1 = b1 + c * a1 /\ i3 = b3 + c * a3
  OBVIOUS
<1>18. (i1 * e1 + b2 * e2) + i3 * e3 = (w0 + d * w1) + (d * d) * w2
  <2>1. PICK w \in Int : w = (((b1 * s1 + b2 * s2) + b3 * s3) + a1 * o1) + a3 * o3
    OBVIOUS
  <2>2. c * w = d * w1 /\ c * c = d * d
    BY ONLY <1>12, <1>14, <2>1, d \in Int, w1 \in Int, c \in Int, w \in Int
  <2> QED
    BY ONLY <1>11, <1>13, <1>14, <1>15, <1>16, <1>17, <2>1, <2>2
<1>19. i1 \in Int /\ b2 \in Int /\ i3 \in Int
  OBVIOUS
<1>20. z = (i1 * e1 + b2 * e2) + i3 * e3
  BY ONLY <1>10, <1>18, z = (w0 + d * w1) + (d * d) * w2
<1> QED
  BY ONLY <1>19, <1>20 DEF Spanned

\* The second coordinates.
LEMMA Ordinates ==
  ASSUME NEW x1 \in Int, NEW y1 \in Int, NEW x2 \in Int, NEW y2 \in Int,
         NEW x3 \in Int, NEW y3 \in Int, NEW T \in Int, NEW u \in Int,
         NEW v \in Int, NEW k1 \in Int, NEW k2 \in Int, NEW k3 \in Int,
         NEW q1 \in Int, NEW q2 \in Int, NEW q3 \in Int, NEW d \in Int,
         NEW e1 \in Int, NEW e2 \in Int, NEW e3 \in Int, NEW z \in Int,
         NEW o \in Int, o = 0 - d,
         OrdinateParts(x1, y1, x2, y2, x3, y3, T, u, v),
         Squares(x1, y1, x2, y2, x3, y3, k1, k2, k3, q1, q2, q3),
         Deficits(x1, y1, x2, y2, x3, y3, k1, k2, k3, o, e1, e2, e3),
         Remains(T, u, v, k1, k2, k3, q1, q2, q3, d, z)
  PROVE  Spanned(z, e1, e2, e3)
<1> USE DEF OrdinateParts, Squares, Deficits, Remains
<1>1. PICK h1 \in Int, h2 \in Int, h3 \in Int :
        /\ h1 = (x2 * y2) * ((y3 * (y3 * y3)) * (x1 * x2 + y1 * y2) - (x3 * (x3 * x3)) * (x1 * y2 + y1 * x2))
                  + (x3 * y3) * ((x2 * (x2 * x2)) * (x1 * y3 - y1 * x3)
                               + (y2 * (y2 * y2)) * (y1 * y3 - x1 * x3))
        /\ h2 = (x1 * y1) * ((y3 * (y3 * y3)) * (x1 * x2 + y1 * y2) + (x3 * (x3 * x3)) * (x1 * y2 + y1 * x2))
                  - (x3 * y3) * ((x1 * (x1 * x1)) * (x2 * y3 + y2 * x3)
                               + (y1 * (y1 * y1)) * (x2 * x3 + y2 * y3))
        /\ h3 = (x2 * y2) * ((x1 * (x1 * x1)) * (x2 * y3 + y2 * x3) - (y1 * (y1 * y1)) * (x2 * x3 + y2 * y3))
                  + (x1 * y1) * ((x2 * (x2 * x2)) * (x1 * y3 - y1 * x3)
                               + (y2 * (y2 * y2)) * (x1 * x3 - y1 * y3))
  OBVIOUS
<1>2. PICK l1 \in Int, l2 \in Int, l3 \in Int :
        /\ l1 = 0 - (x2 * y2) * (y3 * (x1 * x2 + y1 * y2) + x3 * (x1 * y2 + y1 * x2))
        /\ l2 = (x1 * y1) * (x3 * (x1 * y2 + y1 * x2) - y3 * (x1 * x2 + y1 * y2))
                  - (x3 * y3) * (x1 * (x2 * y3 + y2 * x3) - y1 * (x2 * x3 + y2 * y3))
        /\ l3 = (x2 * y2) * (x1 * (x2 * y3 + y2 * x3) + y1 * (x2 * x3 + y2 * y3))
  OBVIOUS
<1>3. PICK r1 \in Int, r2 \in Int, r3 \in Int :
        r1 = x1 * x1 - y1 * y1 /\ r2 = x2 * x2 - y2 * y2 /\ r3 = x3 * x3 - y3 * y3
  OBVIOUS
<1>4. (h1 * r1 + h2 * r2) + h3 * r3 = 0
  BY <1>1, <1>3
<1>5. (l1 + l2) + l3 = (0 - k1 * u) - k3 * v
  BY <1>2
<1>6. ((l1 * r1 + l2 * r2) + l3 * r3) + ((h1 + h2) + h3) = T * (k1 * q3 - k3 * q1)
  BY <1>1, <1>2, <1>3
<1>7. PICK b1 \in Int, b2 \in Int, b3 \in Int :
        b1 = h1 + l1 /\ b2 = h2 + l2 /\ b3 = h3 + l3
  OBVIOUS
<1>8. PICK a1 \in Int, a3 \in Int : a1 = (k2 * k2) * (k3 * v) /\ a3 = (k2 * k2) * (k1 * u)
  OBVIOUS
<1>9. PICK o1 \in Int, o2 \in Int, o3 \in Int :
        o1 = r1 + 1 /\ o2 = r2 + 1 /\ o3 = r3 + 1
  OBVIOUS
<1>10. PICK w0 \in Int, w1 \in Int, w2 \in Int :
         /\ w0 = ((T * (k1 * q3 - k3 * q1) - k1 * u) - k3 * v)
         /\ w1 = ((T * (k2 * (k1 * k1 - k3 * k3))
                - k1 * (u * (k1 * (k2 * q3 + k3 * q2))))
               - k3 * (v * (k3 * (k1 * q2 + k2 * q1))))
         /\ w2 = (((k2 * k2) * (k3 * v)) * (k1 * k1) + ((k2 * k2) * (k1 * u)) * (k3 * k3))
  OBVIOUS
<1>11. w0 = (b1 * o1 + b2 * o2) + b3 * o3
  <2>1. ((h1 + l1) * (r1 + 1) + (h2 + l2) * (r2 + 1)) + (h3 + l3) * (r3 + 1)
          = (((h1 * r1 + h2 * r2) + h3 * r3)
             + (((l1 * r1 + l2 * r2) + l3 * r3) + ((h1 + h2) + h3))) + ((l1 + l2) + l3)
    BY Spread
  <2>2. PICK z1 \in Int, z2 \in Int, z3 \in Int :
          z1 = T * (k1 * q3 - k3 * q1) /\ z2 = k1 * u /\ z3 = k3 * v
    OBVIOUS
  <2>3. ((h1 + l1) * (r1 + 1) + (h2 + l2) * (r2 + 1)) + (h3 + l3) * (r3 + 1)
          = (z1 - z2) - z3
    BY ONLY <1>4, <1>5, <1>6, <2>1, <2>2
  <2> QED
    BY <1>7, <1>9, <1>10, <2>2, <2>3
<1>12. w1 = 0 - ((((b1 * (k1 * k1) + b2 * (k2 * k2)) + b3 * (k3 * k3)) + a1 * o1) + a3 * o3)
  BY <1>1, <1>2, <1>3, <1>7, <1>8, <1>9, <1>10
<1>13. w2 = a1 * (k1 * k1) + a3 * (k3 * k3)
  BY <1>8, <1>10
<1>14. PICK c \in Int, s1 \in Int, s2 \in Int, s3 \in Int :
         c = (0 - d) /\ s1 = k1 * k1 /\ s2 = k2 * k2 /\ s3 = k3 * k3
  OBVIOUS
<1>15. e1 = o1 + c * s1 /\ e2 = o2 + c * s2 /\ e3 = o3 + c * s3
  BY <1>3, <1>9, <1>14
<1>16. ((b1 + c * a1) * (o1 + c * s1) + b2 * (o2 + c * s2)) + (b3 + c * a3) * (o3 + c * s3)
         = (((b1 * o1 + b2 * o2) + b3 * o3)
            + c * ((((b1 * s1 + b2 * s2) + b3 * s3) + a1 * o1) + a3 * o3))
           + (c * c) * (a1 * s1 + a3 * s3)
  BY Weighted
<1>17. PICK i1 \in Int, i3 \in Int : i1 = b1 + c * a1 /\ i3 = b3 + c * a3
  OBVIOUS
<1>18. (i1 * e1 + b2 * e2) + i3 * e3 = (w0 + d * w1) + (d * d) * w2
  <2>1. PICK w \in Int : w = (((b1 * s1 + b2 * s2) + b3 * s3) + a1 * o1) + a3 * o3
    OBVIOUS
  <2>2. c * w = d * w1 /\ c * c = d * d
    BY ONLY <1>12, <1>14, <2>1, d \in Int, w1 \in Int, c \in Int, w \in Int
  <2> QED
    BY ONLY <1>11, <1>13, <1>14, <1>15, <1>16, <1>17, <2>1, <2>2
<1>19. i1 \in Int /\ b2 \in Int /\ i3 \in Int
  OBVIOUS
<1>20. z = (i1 * e1 + b2 * e2) + i3 * e3
  BY ONLY <1>10, <1>18, z = (w0 + d * w1) + (d * d) * w2
<1> QED
  BY ONLY <1>19, <1>20 DEF Spanned

\* r is the quotient of a and m, and a / m is the same quotient as c / n.
Meets(m, r, a) == Null(m * r - a)

Balanced(a, n, c, m) == Null(a * n - c * m)

LEMMA SameRatio ==
  ASSUME NEW m \in Int, NEW n \in Int, NEW a \in Int, NEW c \in Int,
         NEW r \in Int, NEW q \in Int, ~Null(m), ~Null(n),
         Meets(m, r, a), Meets(n, q, c), Balanced(a, n, c, m)
  PROVE  Null(r - q)
<1>1. PICK o1 \in Int, o2 \in Int, o3 \in Int :
        o1 = m * r - a /\ o2 = n * q - c /\ o3 = a * n - c * m
  OBVIOUS
<1>10. Null(o1) /\ Null(o2) /\ Null(o3)
  BY <1>1 DEF Meets, Balanced
<1>2. Null(n * o1) /\ Null(m * o2) /\ n * o1 \in Int /\ m * o2 \in Int
  BY <1>10, NullTimes
<1>3. Null(n * o1 - m * o2) /\ n * o1 - m * o2 \in Int
  BY <1>2, NullSum
<1>4. Null((n * o1 - m * o2) + o3)
  BY <1>2, <1>3, <1>10, NullSum
<1>5. (n * o1 - m * o2) + o3 = (m * n) * (r - q)
  BY <1>1
<1>6. PICK x \in Int, y \in Int : x = m * n /\ y = r - q
  OBVIOUS
<1>7. ~Null(x)
  BY <1>6, NoFactor
<1>8. Null(x * y)
  BY <1>4, <1>5, <1>6
<1>9. Null(y)
  BY <1>7, <1>8, Domain
<1> QED
  BY <1>6, <1>9

\* Two ways of adding three points come to the same.
LEMMA Associates ==
  ASSUME NEW x1 \in Int, NEW y1 \in Int, NEW x2 \in Int, NEW y2 \in Int,
         NEW x3 \in Int, NEW y3 \in Int, NEW sx \in Int, NEW sy \in Int,
         NEW tx \in Int, NEW ty \in Int, NEW rx \in Int, NEW ry \in Int,
         NEW qx \in Int, NEW qy \in Int,
         CurveAt(x1, y1), CurveAt(x2, y2), CurveAt(x3, y3),
         SumAt(x1, y1, x2, y2, sx, sy), SumAt(sx, sy, x3, y3, rx, ry),
         SumAt(x2, y2, x3, y3, tx, ty), SumAt(x1, y1, tx, ty, qx, qy)
  PROVE  Null(rx - qx) /\ Null(ry - qy)
<1>1. PICK d \in Int, g1 \in Int, s1 \in Int, t1 \in Int, b1 \in Int, k1 \in Int :
        /\ d = CurveD /\ g1 = d * ((x1 * x2) * (y1 * y2))
        /\ s1 = x1 * y2 + y1 * x2 /\ t1 = y1 * y2 + x1 * x2
        /\ b1 = (1 + g1) * (1 - g1) /\ k1 = d * ((s1 * x3) * (t1 * y3))
  BY SmallNotNull
<1>2. PICK a1 \in Int, c1 \in Int :
        /\ a1 = s1 * ((1 - g1) * y3) + t1 * ((1 + g1) * x3)
        /\ c1 = t1 * ((1 + g1) * y3) + s1 * ((1 - g1) * x3)
  OBVIOUS
<1>3. PICK g2 \in Int, s2 \in Int, t2 \in Int, b2 \in Int, k2 \in Int :
        /\ g2 = d * ((x2 * x3) * (y2 * y3))
        /\ s2 = x2 * y3 + y2 * x3 /\ t2 = y2 * y3 + x2 * x3
        /\ b2 = (1 + g2) * (1 - g2) /\ k2 = d * ((s2 * x1) * (t2 * y1))
  OBVIOUS
<1>4. PICK a2 \in Int, c2 \in Int :
        /\ a2 = s2 * ((1 - g2) * y1) + t2 * ((1 + g2) * x1)
        /\ c2 = t2 * ((1 + g2) * y1) + s2 * ((1 - g2) * x1)
  OBVIOUS
<1>5. PICK m1 \in Int, n1 \in Int, m2 \in Int, n2 \in Int :
        m1 = b1 + k1 /\ n1 = b1 - k1 /\ m2 = b2 + k2 /\ n2 = b2 - k2
  OBVIOUS
<1>6. /\ ~Null(m1) /\ ~Null(n1) /\ Null(m1 * rx - a1) /\ Null(n1 * ry - c1)
  BY <1>1, <1>2, <1>5, TripleSum
<1>7. /\ ~Null(m2) /\ ~Null(n2) /\ Null(m2 * qx - a2) /\ Null(n2 * qy - c2)
  <2>1. SumAt(tx, ty, x1, y1, qx, qy)
    <3>1. CurveAt(tx, ty)
      BY SumOnCurve
    <3> QED
      BY SumCommutes
  <2> QED
    BY <1>1, <1>3, <1>4, <1>5, <2>1, TripleSum
<1>8. PICK e1 \in Int, e2 \in Int, e3 \in Int :
        /\ e1 = ((x1 * x1 - y1 * y1) + 1) + d * ((x1 * x1) * (y1 * y1))
        /\ e2 = ((x2 * x2 - y2 * y2) + 1) + d * ((x2 * x2) * (y2 * y2))
        /\ e3 = ((x3 * x3 - y3 * y3) + 1) + d * ((x3 * x3) * (y3 * y3))
  OBVIOUS
<1>9. Null(e1) /\ Null(e2) /\ Null(e3)
  BY <1>1, <1>8 DEF CurveAt
<1>10. PICK h1 \in Int, h2 \in Int, h3 \in Int, j1 \in Int, j2 \in Int, j3 \in Int :
         /\ h1 = x1 * y1 /\ h2 = x2 * y2 /\ h3 = x3 * y3
         /\ j1 = x1 * x1 + y1 * y1 /\ j2 = x2 * x2 + y2 * y2 /\ j3 = x3 * x3 + y3 * y3
  OBVIOUS
<1>11. /\ (x1 * x1) * (y1 * y1) = h1 * h1 /\ (x2 * x2) * (y2 * y2) = h2 * h2
       /\ (x3 * x3) * (y3 * y3) = h3 * h3
       /\ g1 = d * (h1 * h2) /\ g2 = d * (h2 * h3)
       /\ s1 * t1 = h1 * j2 + h2 * j1 /\ s2 * t2 = h2 * j3 + h3 * j2
  BY <1>1, <1>3, <1>10
<1>12. /\ e1 = ((x1 * x1 - y1 * y1) + 1) + d * (h1 * h1)
       /\ e2 = ((x2 * x2 - y2 * y2) + 1) + d * (h2 * h2)
       /\ e3 = ((x3 * x3 - y3 * y3) + 1) + d * (h3 * h3)
  BY <1>8, <1>11
<1>13. /\ m1 = (1 - (d * (h1 * h2)) * (d * (h1 * h2))) + d * (h3 * (h1 * j2 + h2 * j1))
       /\ m2 = (1 - (d * (h2 * h3)) * (d * (h2 * h3))) + d * (h1 * (h2 * j3 + h3 * j2))
       /\ n1 = (1 - (d * (h1 * h2)) * (d * (h1 * h2))) - d * (h3 * (h1 * j2 + h2 * j1))
       /\ n2 = (1 - (d * (h2 * h3)) * (d * (h2 * h3))) - d * (h1 * (h2 * j3 + h3 * j2))
  <2>1. /\ b1 = 1 - g1 * g1 /\ b2 = 1 - g2 * g2
        /\ k1 = d * (h3 * (s1 * t1)) /\ k2 = d * (h1 * (s2 * t2))
    BY <1>1, <1>3, <1>10
  <2> QED
    BY <1>5, <1>11, <2>1
<1>14. Null(a1 * m2 - a2 * m1)
  <2>1. PICK T \in Int, u \in Int, v \in Int :
          /\ T = ((x1 * x2) * x3 + (x1 * y2) * y3) + ((y1 * x2) * y3 + (y1 * y2) * x3)
          /\ u = y1 * (x2 * y3 - y2 * x3) - x1 * (x2 * x3 - y2 * y3)
          /\ v = x1 * (x2 * x3 + y2 * y3) - y1 * (x2 * y3 + y2 * x3)
    OBVIOUS
  <2>2. a1 = T - (d * (h1 * h2)) * u /\ a2 = T + (d * (h2 * h3)) * v
    <3>1. a1 = T - g1 * u /\ a2 = T + g2 * v
      BY <1>1, <1>2, <1>3, <1>4, <2>1
    <3> QED
      BY <1>11, <3>1
  <2>3. PICK z \in Int :
          z = (((T * (h1 * j3 - h3 * j1) - h1 * u) - h3 * v)
               + d * ((T * (h2 * (h1 * h1 - h3 * h3))
                       - h1 * (u * (h1 * (h2 * j3 + h3 * j2))))
                      - h3 * (v * (h3 * (h1 * j2 + h2 * j1)))))
              + (d * d) * (((h2 * h2) * (h3 * v)) * (h1 * h1)
                           + ((h2 * h2) * (h1 * u)) * (h3 * h3))
    OBVIOUS
  <2>4. a1 * m2 - a2 * m1 = (d * h2) * z
    BY <1>13, <2>2, <2>3, Uncrossed
  <2>5. PICK i1 \in Int, i2 \in Int, i3 \in Int : z = (i1 * e1 + i2 * e2) + i3 * e3
    <3>1. Spanned(z, e1, e2, e3)
      <4>1. /\ AbscissaParts(x1, y1, x2, y2, x3, y3, T, u, v)
            /\ Squares(x1, y1, x2, y2, x3, y3, h1, h2, h3, j1, j2, j3)
            /\ Deficits(x1, y1, x2, y2, x3, y3, h1, h2, h3, d, e1, e2, e3)
            /\ Remains(T, u, v, h1, h2, h3, j1, j2, j3, d, z)
        BY <1>10, <1>12, <2>1, <2>3
           DEF AbscissaParts, Squares, Deficits, Remains
      <4> QED
        BY <4>1, Abscissae
    <3> QED
      BY <3>1 DEF Spanned
  <2>6. Null(z)
    BY <1>9, <2>5, Combined
  <2>7. PICK w \in Int : w = d * h2
    OBVIOUS
  <2>8. Null(w * z)
    BY <2>6, NullTimes
  <2> QED
    BY <2>4, <2>7, <2>8
<1>15. Null(c1 * n2 - c2 * n1)
  <2>0. PICK o \in Int : o = 0 - d
    OBVIOUS
  <2>1. PICK T \in Int, u \in Int, v \in Int :
          /\ T = ((y1 * y2) * y3 + (x1 * x2) * y3) + ((x1 * y2) * x3 + (y1 * x2) * x3)
          /\ u = y1 * (y2 * y3 - x2 * x3) - x1 * (y2 * x3 - x2 * y3)
          /\ v = x1 * (x2 * y3 + y2 * x3) - y1 * (x2 * x3 + y2 * y3)
    OBVIOUS
  <2>2. c1 = T - (o * (h1 * h2)) * u /\ c2 = T + (o * (h2 * h3)) * v
    <3>1. c1 = T + g1 * u /\ c2 = T - g2 * v
      BY <1>1, <1>2, <1>3, <1>4, <2>1
    <3>2. o * (h1 * h2) = 0 - g1 /\ o * (h2 * h3) = 0 - g2
      BY <1>11, <2>0
    <3> QED
      BY <3>1, <3>2
  <2>3. PICK z \in Int :
          z = (((T * (h1 * j3 - h3 * j1) - h1 * u) - h3 * v)
               + o * ((T * (h2 * (h1 * h1 - h3 * h3))
                       - h1 * (u * (h1 * (h2 * j3 + h3 * j2))))
                      - h3 * (v * (h3 * (h1 * j2 + h2 * j1)))))
              + (o * o) * (((h2 * h2) * (h3 * v)) * (h1 * h1)
                           + ((h2 * h2) * (h1 * u)) * (h3 * h3))
    OBVIOUS
  <2>4. /\ n1 = (1 - (o * (h1 * h2)) * (o * (h1 * h2))) + o * (h3 * (h1 * j2 + h2 * j1))
        /\ n2 = (1 - (o * (h2 * h3)) * (o * (h2 * h3))) + o * (h1 * (h2 * j3 + h3 * j2))
    BY <1>12, <1>13, <2>0
  <2>5. c1 * n2 - c2 * n1 = (o * h2) * z
    BY <2>2, <2>3, <2>4, Uncrossed
  <2>6. PICK i1 \in Int, i2 \in Int, i3 \in Int : z = (i1 * e1 + i2 * e2) + i3 * e3
    <3>1. Spanned(z, e1, e2, e3)
      <4>1. /\ OrdinateParts(x1, y1, x2, y2, x3, y3, T, u, v)
            /\ Squares(x1, y1, x2, y2, x3, y3, h1, h2, h3, j1, j2, j3)
            /\ Deficits(x1, y1, x2, y2, x3, y3, h1, h2, h3, d, e1, e2, e3)
            /\ Remains(T, u, v, h1, h2, h3, j1, j2, j3, o, z)
        BY <1>10, <1>12, <2>1, <2>3
           DEF OrdinateParts, Squares, Deficits, Remains
      <4>2. d = 0 - o
        BY <2>0
      <4> QED
        BY <4>1, <4>2, Ordinates
    <3> QED
      BY <3>1 DEF Spanned
  <2>7. Null(z)
    BY <1>9, <2>6, Combined
  <2>8. PICK w \in Int : w = o * h2
    OBVIOUS
  <2>9. Null(w * z)
    BY <2>7, NullTimes
  <2> QED
    BY <2>5, <2>8, <2>9
<1>16. /\ Meets(m1, rx, a1) /\ Meets(m2, qx, a2) /\ Balanced(a1, m2, a2, m1)
       /\ Meets(n1, ry, c1) /\ Meets(n2, qy, c2) /\ Balanced(c1, n2, c2, n1)
  BY <1>6, <1>7, <1>14, <1>15 DEF Meets, Balanced
<1>17. Null(rx - qx)
  BY <1>6, <1>7, <1>16, SameRatio
<1>18. Null(ry - qy)
  BY <1>6, <1>7, <1>16, SameRatio
<1> QED
  BY <1>17, <1>18

-----------------------------------------------------------------------------
(* Sums of points.                                                         *)

\* a and b are congruent.
Same(a, b) == Null(a - b)

LEMMA OperationsAs ==
  ASSUME NEW a \in Int, NEW b \in Int, NEW c \in Int, NEW d \in Int,
         Same(a, c), Same(b, d)
  PROVE  /\ Add(a, b) \in Field /\ Same(Add(a, b), c + d)
         /\ Subtract(a, b) \in Field /\ Same(Subtract(a, b), c - d)
         /\ Multiply(a, b) \in Field /\ Same(Multiply(a, b), c * d)
<1>1. PICK u \in Int, v \in Int : u = a - c /\ v = b - d /\ Null(u) /\ Null(v)
  BY DEF Same
<1>2. Null(u + v) /\ Null(u - v)
  BY <1>1, NullSum
<1>3. PICK s \in Int, t \in Int, w \in Int : s = Add(a, b) /\ t = Subtract(a, b)
                                             /\ w = Multiply(a, b)
  BY Operations, NullZero
<1>4. /\ s \in Field /\ Null(s - (a + b)) /\ t \in Field /\ Null(t - (a - b))
      /\ w \in Field /\ Null(w - a * b)
  BY <1>3, Operations
<1>5. Null(s - (c + d))
  <2>1. PICK x \in Int, y \in Int : x = a + b /\ y = c + d
    OBVIOUS
  <2>2. Null(s - x) /\ x - y = u + v
    BY <1>1, <1>4, <2>1
  <2>3. Null(x - y)
    BY <1>2, <2>2
  <2>4. Null(s - y)
    BY <2>2, <2>3, Replaced
  <2> QED
    BY <2>1, <2>4
<1>6. Null(t - (c - d))
  <2>1. PICK x \in Int, y \in Int : x = a - b /\ y = c - d
    OBVIOUS
  <2>2. Null(t - x) /\ x - y = u - v
    BY <1>1, <1>4, <2>1
  <2>3. Null(x - y)
    BY <1>2, <2>2
  <2>4. Null(t - y)
    BY <2>2, <2>3, Replaced
  <2> QED
    BY <2>1, <2>4
<1>7. Null(w - c * d)
  <2>1. PICK x \in Int, y \in Int : x = a * b /\ y = c * d
    OBVIOUS
  <2>2. Null(w - x)
    BY <1>4, <2>1
  <2>3. Null(a * b - c * d)
    BY <1>1, Products
  <2>4. Null(x - y)
    BY <2>1, <2>3
  <2>5. Null(w - y)
    BY <2>2, <2>4, Replaced
  <2> QED
    BY <2>1, <2>5
<1> QED
  BY <1>3, <1>4, <1>5, <1>6, <1>7 DEF Same

LEMMA SameItself == \A a \in Int : Same(a, a)
<1>1. \A a \in Int : a - a = 0
  OBVIOUS
<1> QED
  BY <1>1, NullZero DEF Same

LEMMA SameSwapped ==
  ASSUME NEW a \in Int, NEW b \in Int, Same(a, b)
  PROVE  Same(b, a)
BY NullOpposite DEF Same

LEMMA SameThrough ==
  ASSUME NEW a \in Int, NEW b \in Int, NEW c \in Int, Same(a, b), Same(b, c)
  PROVE  Same(a, c)
BY Replaced DEF Same

LEMMA SameEqual ==
  ASSUME NEW a \in Field, NEW b \in Field, Same(a, b)
  PROVE  a = b
BY Distinct DEF Same

LEMMA OnCurveIs ==
  ASSUME NEW x \in Int, NEW y \in Int
  PROVE  OnCurve(x, y) <=> CurveAt(x, y)
<1>1. PICK d \in Int : d = CurveD
  BY SmallNotNull
<1>2. Same(x, x) /\ Same(y, y) /\ Same(d, d) /\ Same(1, 1) /\ 1 \in Int
  BY SameItself
<1>3. PICK xx \in Field, yy \in Field :
        /\ xx = Multiply(x, x) /\ Same(xx, x * x)
        /\ yy = Multiply(y, y) /\ Same(yy, y * y)
  BY <1>2, OperationsAs
<1>4. PICK a \in Int, b \in Int : a = x * x /\ b = y * y
  OBVIOUS
<1>5. xx \in Int /\ yy \in Int /\ Same(xx, a) /\ Same(yy, b)
  BY <1>3, <1>4, NullZero
<1>6. PICK m \in Field, s \in Field :
        /\ m = Multiply(xx, yy) /\ Same(m, a * b)
        /\ s = Subtract(yy, xx) /\ Same(s, b - a)
  BY <1>5, OperationsAs
<1>7. PICK ab \in Int, ba \in Int : ab = a * b /\ ba = b - a
  OBVIOUS
<1>8. m \in Int /\ s \in Int /\ Same(m, ab) /\ Same(s, ba)
  BY <1>6, <1>7, NullZero
<1>9. PICK p \in Field : p = Multiply(d, m) /\ Same(p, d * ab)
  BY <1>2, <1>8, OperationsAs
<1>10. PICK dab \in Int : dab = d * ab
  OBVIOUS
<1>11. p \in Int /\ Same(p, dab)
  BY <1>9, <1>10, NullZero
<1>12. PICK r \in Field : r = Add(1, p) /\ Same(r, 1 + dab)
  BY <1>2, <1>11, OperationsAs
<1>13. PICK e \in Int : e = 1 + dab
  OBVIOUS
<1>14. r \in Int /\ Same(r, e)
  BY <1>12, <1>13, NullZero
<1>15. OnCurve(x, y) <=> s = r
  BY <1>1, <1>3, <1>6, <1>9, <1>12 DEF OnCurve
<1>16. CurveAt(x, y) <=> Same(e, ba)
  <2>1. ((a - b) + 1) + d * (a * b) = e - ba
    BY <1>7, <1>10, <1>13
  <2> QED
    BY <1>1, <1>4, <2>1 DEF CurveAt, Same
<1>17. s = r => Same(e, ba)
  BY <1>8, <1>14, SameSwapped, SameThrough
<1>18. Same(e, ba) => s = r
  <2>1. SUFFICES ASSUME Same(e, ba) PROVE s = r
    OBVIOUS
  <2>2. Same(r, ba) /\ Same(ba, s)
    BY <1>8, <1>14, <2>1, SameSwapped, SameThrough
  <2>3. Same(r, s)
    BY <1>8, <1>14, <2>2, SameThrough
  <2> QED
    BY <2>3, SameEqual
<1> QED
  BY <1>15, <1>16, <1>17, <1>18

\* The points of the curve.
Points == {p \in Field \X Field : OnCurve(p[1], p[2])}

LEMMA PointsAre ==
  ASSUME NEW p \in Points
  PROVE  /\ p \in Field \X Field /\ p = <<p[1], p[2]>>
         /\ p[1] \in Field /\ p[2] \in Field /\ p[1] \in Int /\ p[2] \in Int
         /\ OnCurve(p[1], p[2]) /\ CurveAt(p[1], p[2])
<1>1. /\ p \in Field \X Field /\ p = <<p[1], p[2]>>
      /\ p[1] \in Field /\ p[2] \in Field /\ OnCurve(p[1], p[2])
  BY DEF Points
<1>2. p[1] \in Int /\ p[2] \in Int
  BY <1>1, NullZero
<1> QED
  BY <1>1, <1>2, OnCurveIs

LEMMA PointIs ==
  ASSUME NEW x \in Field, NEW y \in Field, CurveAt(x, y)
  PROVE  <<x, y>> \in Points
<1>1. x \in Int /\ y \in Int
  BY NullZero
<1>2. OnCurve(x, y)
  BY <1>1, OnCurveIs
<1> QED
  BY <1>2 DEF Points

LEMMA AffineSumIs ==
  ASSUME NEW p \in Points, NEW q \in Points
  PROVE  /\ AffineSum(p, q) \in Points
         /\ SumAt(p[1], p[2], q[1], q[2], AffineSum(p, q)[1], AffineSum(p, q)[2])
<1>1. PICK x1 \in Field, y1 \in Field, x2 \in Field, y2 \in Field :
        p[1] = x1 /\ p[2] = y1 /\ q[1] = x2 /\ q[2] = y2
  BY PointsAre
<1>2. CurveAt(x1, y1) /\ CurveAt(x2, y2)
  BY <1>1, PointsAre
<1>3. x1 \in Int /\ y1 \in Int /\ x2 \in Int /\ y2 \in Int /\ 1 \in Int
      /\ Same(x1, x1) /\ Same(y1, y1) /\ Same(x2, x2) /\ Same(y2, y2) /\ Same(1, 1)
  BY NullZero, SameItself
<1>4. PICK d \in Int : d = CurveD /\ Same(d, d)
  BY SmallNotNull, SameItself
<1>5. PICK a \in Int, b \in Int, c \in Int, e \in Int, f \in Int, g \in Int :
        /\ a = x1 * x2 /\ b = y1 * y2 /\ c = a * b /\ e = x1 * y2 /\ f = y1 * x2
        /\ g = d * c
  BY <1>3
<1>6. PICK ma \in Field, mb \in Field, me \in Field, mf \in Field :
        /\ ma = Multiply(x1, x2) /\ Same(ma, a) /\ mb = Multiply(y1, y2) /\ Same(mb, b)
        /\ me = Multiply(x1, y2) /\ Same(me, e) /\ mf = Multiply(y1, x2) /\ Same(mf, f)
  <2>1. PICK ma \in Field, mb \in Field :
          ma = Multiply(x1, x2) /\ Same(ma, a) /\ mb = Multiply(y1, y2) /\ Same(mb, b)
    <3>1. Multiply(x1, x2) \in Field /\ Same(Multiply(x1, x2), a)
      BY <1>3, <1>5, OperationsAs
    <3>2. Multiply(y1, y2) \in Field /\ Same(Multiply(y1, y2), b)
      BY <1>3, <1>5, OperationsAs
    <3> QED
      BY <3>1, <3>2
  <2>2. PICK me \in Field, mf \in Field :
          me = Multiply(x1, y2) /\ Same(me, e) /\ mf = Multiply(y1, x2) /\ Same(mf, f)
    <3>1. Multiply(x1, y2) \in Field /\ Same(Multiply(x1, y2), e)
      BY <1>3, <1>5, OperationsAs
    <3>2. Multiply(y1, x2) \in Field /\ Same(Multiply(y1, x2), f)
      BY <1>3, <1>5, OperationsAs
    <3> QED
      BY <3>1, <3>2
  <2> QED
    BY <2>1, <2>2
<1>7. ma \in Int /\ mb \in Int /\ me \in Int /\ mf \in Int
  BY NullZero
<1>8. PICK mc \in Field : mc = Multiply(ma, mb) /\ Same(mc, c)
  BY <1>5, <1>6, <1>7, OperationsAs
<1>9. mc \in Int
  BY NullZero
<1>10. PICK mg \in Field : mg = Multiply(d, mc) /\ Same(mg, g)
  BY <1>4, <1>5, <1>8, <1>9, OperationsAs
<1>11. mg \in Int
  BY NullZero
<1>12. PICK s \in Int, t \in Int, m \in Int, n \in Int :
         s = e + f /\ t = b + a /\ m = 1 + g /\ n = 1 - g
  OBVIOUS
<1>13. PICK ms \in Field, mt \in Field, mm \in Field, mn \in Field :
         /\ ms = Add(me, mf) /\ Same(ms, s) /\ mt = Add(mb, ma) /\ Same(mt, t)
         /\ mm = Add(1, mg) /\ Same(mm, m) /\ mn = Subtract(1, mg) /\ Same(mn, n)
  <2>1. PICK ms \in Field, mt \in Field :
          ms = Add(me, mf) /\ Same(ms, s) /\ mt = Add(mb, ma) /\ Same(mt, t)
    <3>1. Add(me, mf) \in Field /\ Same(Add(me, mf), s)
      BY <1>6, <1>7, <1>12, OperationsAs
    <3>2. Add(mb, ma) \in Field /\ Same(Add(mb, ma), t)
      BY <1>6, <1>7, <1>12, OperationsAs
    <3> QED
      BY <3>1, <3>2
  <2>2. PICK mm \in Field, mn \in Field :
          mm = Add(1, mg) /\ Same(mm, m) /\ mn = Subtract(1, mg) /\ Same(mn, n)
    <3>1. PICK o \in Int : o = 1 /\ Same(o, o)
      BY <1>3
    <3>2. m = o + g /\ n = o - g
      BY <1>12, <3>1
    <3>3. PICK mm \in Field, mn \in Field :
            mm = Add(o, mg) /\ Same(mm, m) /\ mn = Subtract(o, mg) /\ Same(mn, n)
      BY <1>10, <1>11, <3>1, <3>2, OperationsAs
    <3> QED
      BY <3>1, <3>3
  <2> QED
    BY <2>1, <2>2
<1>14. ms \in Int /\ mt \in Int /\ mm \in Int /\ mn \in Int
  BY NullZero
<1>15. g = Shared(x1, y1, x2, y2)
  BY <1>4, <1>5 DEF Shared
<1>16. ~Null(m) /\ ~Null(n)
  BY <1>2, <1>3, <1>12, <1>15, Complete
<1>17. mm # 0 /\ mn # 0
  <2>1. ASSUME NEW z \in Int, Same(0, z) PROVE Null(z)
    <3>1. Same(z, 0) /\ z - 0 = z
      BY <2>1, SameSwapped
    <3> QED
      BY <3>1 DEF Same
  <2> QED
    BY <1>13, <1>16, <2>1
<1>18. PICK im \in Field, ni \in Field :
         /\ im = Reciprocal(mm) /\ Null(mm * im - 1)
         /\ ni = Reciprocal(mn) /\ Null(mn * ni - 1)
  BY <1>17, InverseIs DEF Reciprocal
<1>19. im \in Int /\ ni \in Int /\ Same(im, im) /\ Same(ni, ni)
  BY NullZero, SameItself
<1>20. PICK x3 \in Field, y3 \in Field :
         /\ x3 = Multiply(ms, im) /\ Same(x3, s * im)
         /\ y3 = Multiply(mt, ni) /\ Same(y3, t * ni)
  BY <1>13, <1>14, <1>19, OperationsAs
<1>21. x3 \in Int /\ y3 \in Int
  BY NullZero
<1>22. ASSUME NEW z \in Int, NEW r \in Int, NEW o \in Int, NEW w \in Int, NEW i \in Int,
              Same(z, r * i), Same(o, w), Null(o * i - 1)
       PROVE  Null(w * z - r)
  <2>1. PICK k1 \in Int, k2 \in Int, k3 \in Int :
          /\ k1 = z - r * i /\ k2 = o - w /\ k3 = o * i - 1
          /\ Null(k1) /\ Null(k2) /\ Null(k3)
    BY <1>22 DEF Same
  <2>2. PICK l \in Int : l = 0 - (r * i)
    OBVIOUS
  <2>3. w * z - r = (w * k1 + l * k2) + r * k3
    BY <2>1, <2>2
  <2>4. Null((w * k1 + l * k2) + r * k3)
    BY <2>1, Combined
  <2> QED
    BY <2>3, <2>4
<1>23. Null(m * x3 - s) /\ Null(n * y3 - t)
  BY <1>13, <1>14, <1>18, <1>19, <1>20, <1>21, <1>22
<1>24. SumAt(x1, y1, x2, y2, x3, y3)
  BY <1>5, <1>12, <1>15, <1>23 DEF SumAt
<1>25. AffineSum(p, q) = <<x3, y3>>
  BY <1>1, <1>4, <1>6, <1>8, <1>10, <1>13, <1>18, <1>20 DEF AffineSum
<1>26. CurveAt(x3, y3)
  BY <1>2, <1>3, <1>21, <1>24, SumOnCurve
<1> QED
  BY <1>1, <1>24, <1>25, <1>26, PointIs

\* Points are equal that are the same sum.
LEMMA OnePoint ==
  ASSUME NEW p \in Points, NEW q \in Points, Null(p[1] - q[1]), Null(p[2] - q[2])
  PROVE  p = q
<1>1. p[1] = q[1] /\ p[2] = q[2]
  BY PointsAre, Distinct
<1> QED
  BY <1>1, PointsAre

LEMMA SumIsCommutative ==
  ASSUME NEW p \in Points, NEW q \in Points
  PROVE  AffineSum(p, q) = AffineSum(q, p)
<1>1. PICK r \in Points, s \in Points : r = AffineSum(p, q) /\ s = AffineSum(q, p)
  BY AffineSumIs
<1>2. /\ SumAt(p[1], p[2], q[1], q[2], r[1], r[2])
      /\ SumAt(q[1], q[2], p[1], p[2], s[1], s[2])
  BY <1>1, AffineSumIs
<1>3. SumAt(p[1], p[2], q[1], q[2], s[1], s[2])
  BY <1>2, PointsAre, SumCommutes
<1>4. Null(r[1] - s[1]) /\ Null(r[2] - s[2])
  <2>1. PICK a \in Int, b \in Int, c \in Int, d \in Int :
          p[1] = a /\ p[2] = b /\ q[1] = c /\ q[2] = d /\ CurveAt(a, b) /\ CurveAt(c, d)
    BY PointsAre
  <2>2. PICK rx \in Int, ry \in Int, sx \in Int, sy \in Int :
          r[1] = rx /\ r[2] = ry /\ s[1] = sx /\ s[2] = sy
    BY PointsAre
  <2>3. SumAt(a, b, c, d, rx, ry) /\ SumAt(a, b, c, d, sx, sy)
    BY <1>2, <1>3, <2>1, <2>2
  <2>4. Null(rx - sx) /\ Null(ry - sy)
    BY <2>1, <2>3, OneSum
  <2> QED
    BY <2>2, <2>4
<1> QED
  BY <1>1, <1>4, OnePoint

\* The law of the curve is associative: a multiple of a point does not depend
\* on how ScalarMultiply adds it up.
THEOREM SumIsAssociative ==
  ASSUME NEW p \in Points, NEW q \in Points, NEW r \in Points
  PROVE  AffineSum(AffineSum(p, q), r) = AffineSum(p, AffineSum(q, r))
<1>1. PICK s \in Points, t \in Points : s = AffineSum(p, q) /\ t = AffineSum(q, r)
  BY AffineSumIs
<1>2. PICK u \in Points, v \in Points : u = AffineSum(s, r) /\ v = AffineSum(p, t)
  BY AffineSumIs
<1>3. /\ SumAt(p[1], p[2], q[1], q[2], s[1], s[2])
      /\ SumAt(q[1], q[2], r[1], r[2], t[1], t[2])
  BY <1>1, AffineSumIs
<1>4. /\ SumAt(s[1], s[2], r[1], r[2], u[1], u[2])
      /\ SumAt(p[1], p[2], t[1], t[2], v[1], v[2])
  BY <1>2, AffineSumIs
<1>5. Null(u[1] - v[1]) /\ Null(u[2] - v[2])
  <2>1. PICK x1 \in Int, y1 \in Int, x2 \in Int, y2 \in Int, x3 \in Int, y3 \in Int :
          /\ p[1] = x1 /\ p[2] = y1 /\ q[1] = x2 /\ q[2] = y2 /\ r[1] = x3 /\ r[2] = y3
          /\ CurveAt(x1, y1) /\ CurveAt(x2, y2) /\ CurveAt(x3, y3)
    BY PointsAre
  <2>2. PICK sx \in Int, sy \in Int, tx \in Int, ty \in Int :
          s[1] = sx /\ s[2] = sy /\ t[1] = tx /\ t[2] = ty
    BY PointsAre
  <2>3. PICK ux \in Int, uy \in Int, vx \in Int, vy \in Int :
          u[1] = ux /\ u[2] = uy /\ v[1] = vx /\ v[2] = vy
    BY PointsAre
  <2>4. /\ SumAt(x1, y1, x2, y2, sx, sy) /\ SumAt(sx, sy, x3, y3, ux, uy)
        /\ SumAt(x2, y2, x3, y3, tx, ty) /\ SumAt(x1, y1, tx, ty, vx, vy)
    BY <1>3, <1>4, <2>1, <2>2, <2>3
  <2>5. Null(ux - vx) /\ Null(uy - vy)
    BY <2>1, <2>4, Associates
  <2> QED
    BY <2>3, <2>5
<1> QED
  BY <1>1, <1>2, <1>5, OnePoint

LEMMA ZeroIsPoint == Zero \in Points
<1>1. 0 \in Field /\ 1 \in Field
  BY NullZero
<1>2. CurveD \in Int
  BY SmallNotNull
<1>3. ((0 * 0 - 1 * 1) + 1) + CurveD * ((0 * 0) * (1 * 1)) = 0
  BY <1>2
<1>4. CurveAt(0, 1)
  BY <1>3, NullZero DEF CurveAt
<1> QED
  BY <1>1, <1>4, PointIs DEF Zero

\* Zero is neutral.
LEMMA ZeroIsNeutral ==
  ASSUME NEW p \in Points
  PROVE  AffineSum(Zero, p) = p /\ AffineSum(p, Zero) = p
<1>1. PICK r \in Points : r = AffineSum(Zero, p)
  BY ZeroIsPoint, AffineSumIs
<1>2. Zero[1] = 0 /\ Zero[2] = 1
  BY DEF Zero
<1>3. PICK x \in Int, y \in Int : p[1] = x /\ p[2] = y /\ CurveAt(x, y)
  BY PointsAre
<1>4. SumAt(0, 1, x, y, r[1], r[2]) /\ CurveAt(0, 1)
  BY <1>1, <1>2, <1>3, ZeroIsPoint, AffineSumIs, PointsAre
<1>5. SumAt(0, 1, x, y, x, y)
  <2>1. CurveD \in Int
    BY SmallNotNull
  <2>2. CurveD * ((0 * x) * (1 * y)) = 0
    BY <2>1
  <2>3. (1 + 0) * x - (0 * y + 1 * x) = 0 /\ (1 - 0) * y - (1 * y + 0 * x) = 0
    OBVIOUS
  <2> QED
    BY <2>2, <2>3, NullZero DEF SumAt, Shared
<1>6. r[1] \in Int /\ r[2] \in Int /\ 0 \in Int /\ 1 \in Int
  BY PointsAre
<1>7. Null(r[1] - x) /\ Null(r[2] - y)
  BY <1>3, <1>4, <1>5, <1>6, OneSum
<1>8. r = p
  BY <1>3, <1>7, OnePoint
<1> QED
  BY <1>1, <1>8, ZeroIsPoint, SumIsCommutative

\* Extended coordinates that stand for a point.
Scaled(x, y, z, t, a, b) ==
  ~Null(z) /\ Same(x, a * z) /\ Same(y, b * z) /\ Same(t, (a * b) * z)

Represents(q, p) ==
  \E x, y, z, t \in Field :
    /\ q = Point(x, y, z, t)
    /\ z # 0 /\ x = Multiply(p[1], z) /\ y = Multiply(p[2], z)
    /\ Multiply(t, z) = Multiply(x, y)

LEMMA RepresentsIs ==
  ASSUME NEW x \in Field, NEW y \in Field, NEW z \in Field, NEW t \in Field,
         NEW a \in Field, NEW b \in Field
  PROVE  (/\ z # 0 /\ x = Multiply(a, z) /\ y = Multiply(b, z)
          /\ Multiply(t, z) = Multiply(x, y))
           <=> Scaled(x, y, z, t, a, b)
<1>1. /\ x \in Int /\ y \in Int /\ z \in Int /\ t \in Int /\ a \in Int /\ b \in Int
      /\ Same(x, x) /\ Same(y, y) /\ Same(z, z) /\ Same(t, t) /\ Same(a, a) /\ Same(b, b)
  BY NullZero, SameItself
<1>2. PICK az \in Int, bz \in Int, tz \in Int, xy \in Int :
        az = a * z /\ bz = b * z /\ tz = t * z /\ xy = x * y
  BY <1>1
<1>3. PICK maz \in Field, mbz \in Field, mtz \in Field, mxy \in Field :
        /\ maz = Multiply(a, z) /\ mbz = Multiply(b, z)
        /\ mtz = Multiply(t, z) /\ mxy = Multiply(x, y)
        /\ Same(maz, az) /\ Same(mbz, bz) /\ Same(mtz, tz) /\ Same(mxy, xy)
  <2>1. PICK maz \in Field, mbz \in Field :
          maz = Multiply(a, z) /\ mbz = Multiply(b, z) /\ Same(maz, az) /\ Same(mbz, bz)
    BY <1>1, <1>2, OperationsAs
  <2>2. PICK mtz \in Field, mxy \in Field :
          mtz = Multiply(t, z) /\ mxy = Multiply(x, y) /\ Same(mtz, tz) /\ Same(mxy, xy)
    BY <1>1, <1>2, OperationsAs
  <2> QED
    BY <2>1, <2>2
<1>4. maz \in Int /\ mbz \in Int /\ mtz \in Int /\ mxy \in Int
  BY NullZero
<1>5. ASSUME NEW m \in Field, NEW n \in Int, NEW o \in Field, Same(m, n)
      PROVE  o = m <=> Same(o, n)
  <2>1. m \in Int /\ o \in Int
    BY NullZero
  <2>2. Same(o, n) => Same(o, m)
    BY <1>5, <2>1, SameSwapped, SameThrough
  <2> QED
    BY <1>5, <2>2, SameEqual
<1>6. z # 0 <=> ~Null(z)
  BY NullInField, NullZero
<1>7. /\ x = Multiply(a, z) <=> Same(x, az)
      /\ y = Multiply(b, z) <=> Same(y, bz)
  BY <1>3, <1>5
<1>8. Multiply(t, z) = Multiply(x, y) <=> Same(tz, xy)
  <2>1. mtz = mxy <=> Same(mtz, xy)
    BY <1>3, <1>5
  <2>2. Same(mtz, xy) <=> Same(tz, xy)
    BY <1>2, <1>3, <1>4, SameSwapped, SameThrough
  <2> QED
    BY <1>3, <2>1, <2>2
<1>9. ASSUME ~Null(z), Same(x, az), Same(y, bz)
      PROVE  Same(tz, xy) <=> Same(t, (a * b) * z)
  <2>0. PICK k1 \in Int, k2 \in Int : k1 = x - az /\ k2 = y - bz
    BY <1>1
  <2>1. k1 = x - az /\ k2 = y - bz /\ Null(k1) /\ Null(k2)
    BY <1>9, <2>0 DEF Same
  <2>2. PICK ab \in Int, u \in Int : ab = (a * b) * z /\ u = t - ab
    BY <1>1
  <2>3. tz - xy = z * u - (y * k1 + az * k2)
    BY <1>1, <1>2, <2>1, <2>2
  <2>4. PICK w \in Int, v \in Int : w = y * k1 + az * k2 /\ v = z * u
    BY <1>1
  <2>5. Null(w)
    <3>1. PICK yi \in Int : yi = y
      BY <1>1
    <3>2. Null(yi * k1) /\ Null(az * k2) /\ yi * k1 \in Int /\ az * k2 \in Int
      BY <2>1, NullTimes
    <3> QED
      BY <2>4, <3>1, <3>2, NullSum
  <2>6. tz - xy = v - w /\ (v - w) + w = v
    BY <2>3, <2>4
  <2>7. Null(tz - xy) <=> Null(v)
    <3>1. PICK o \in Int : o = v - w
      OBVIOUS
    <3>2. Null(v) => Null(v - w)
      BY <2>5, NullSum
    <3>3. Null(o) => Null(o + w)
      BY <2>5, NullSum
    <3> QED
      BY <2>6, <3>1, <3>2, <3>3
  <2>8. Null(v) <=> Null(u)
    BY <1>1, <1>9, <2>4, NullTimes, Domain
  <2> QED
    BY <2>2, <2>7, <2>8 DEF Same
<1> QED
  BY <1>2, <1>6, <1>7, <1>8, <1>9 DEF Scaled

LEMMA ScaledRepresents ==
  ASSUME NEW p, NEW q, NEW a \in Field, NEW b \in Field, p[1] = a, p[2] = b
  PROVE  Represents(q, p) <=>
           \E x, y, z, t \in Field : q = Point(x, y, z, t) /\ Scaled(x, y, z, t, a, b)
<1>1. \A x, y, z, t \in Field :
        (/\ z # 0 /\ x = Multiply(a, z) /\ y = Multiply(b, z)
         /\ Multiply(t, z) = Multiply(x, y)) <=> Scaled(x, y, z, t, a, b)
  BY RepresentsIs
<1>2. Represents(q, p) <=>
        \E x, y, z, t \in Field :
          /\ q = Point(x, y, z, t)
          /\ z # 0 /\ x = Multiply(a, z) /\ y = Multiply(b, z)
          /\ Multiply(t, z) = Multiply(x, y)
  BY DEF Represents
<1> QED
  BY <1>1, <1>2

LEMMA ScaledIs ==
  ASSUME NEW p, NEW v, NEW a \in Field, NEW b \in Field, p[1] = a, p[2] = b,
         NEW x \in Field, NEW y \in Field, NEW z \in Field, NEW t \in Field,
         v = Point(x, y, z, t), Scaled(x, y, z, t, a, b)
  PROVE  Represents(v, p)
BY ScaledRepresents

\* PointAdd on extended coordinates adds the points they stand for by the
\* affine law, without a division, whatever the points.
THEOREM PointAddIs ==
  ASSUME NEW p \in Points, NEW q \in Points, NEW l, NEW r,
         Represents(l, p), Represents(r, q)
  PROVE  Represents(PointAdd(l, r), AffineSum(p, q))
<1>1. PICK a1 \in Field, b1 \in Field, a2 \in Field, b2 \in Field :
        p[1] = a1 /\ p[2] = b1 /\ q[1] = a2 /\ q[2] = b2
  BY PointsAre
<1>2. PICK x1 \in Field, y1 \in Field, z1 \in Field, t1 \in Field :
        l = Point(x1, y1, z1, t1) /\ Scaled(x1, y1, z1, t1, a1, b1)
  BY <1>1, ScaledRepresents
<1>3. PICK x2 \in Field, y2 \in Field, z2 \in Field, t2 \in Field :
        r = Point(x2, y2, z2, t2) /\ Scaled(x2, y2, z2, t2, a2, b2)
  BY <1>1, ScaledRepresents
<1>4. /\ a1 \in Int /\ b1 \in Int /\ a2 \in Int /\ b2 \in Int
      /\ x1 \in Int /\ y1 \in Int /\ z1 \in Int /\ t1 \in Int
      /\ x2 \in Int /\ y2 \in Int /\ z2 \in Int /\ t2 \in Int
  BY NullZero
<1>5. /\ l.x = x1 /\ l.y = y1 /\ l.z = z1 /\ l.t = t1
      /\ r.x = x2 /\ r.y = y2 /\ r.z = z2 /\ r.t = t2
  BY <1>2, <1>3 DEF Point
<1>6. PICK d \in Int, o \in Int : d = CurveD /\ o = 2 /\ Same(d, d) /\ Same(o, o)
  BY SmallNotNull, SameItself
<1>7. PICK c1 \in Int, c2 \in Int, ab1 \in Int, ab2 \in Int :
        c1 = a1 * z1 /\ c2 = a2 * z2 /\ ab1 = (a1 * b1) * z1 /\ ab2 = (a2 * b2) * z2
  BY <1>4
<1>8. PICK e1 \in Int, e2 \in Int : e1 = b1 * z1 /\ e2 = b2 * z2
  BY <1>4
<1>9. /\ Same(x1, c1) /\ Same(y1, e1) /\ Same(z1, z1) /\ Same(t1, ab1)
      /\ Same(x2, c2) /\ Same(y2, e2) /\ Same(z2, z2) /\ Same(t2, ab2)
      /\ ~Null(z1) /\ ~Null(z2)
  BY <1>2, <1>3, <1>4, <1>7, <1>8, SameItself DEF Scaled
<1>10. PICK u1 \in Field, u2 \in Field, v1 \in Field, v2 \in Field :
         /\ u1 = Subtract(y1, x1) /\ Same(u1, e1 - c1)
         /\ u2 = Subtract(y2, x2) /\ Same(u2, e2 - c2)
         /\ v1 = Add(y1, x1) /\ Same(v1, e1 + c1)
         /\ v2 = Add(y2, x2) /\ Same(v2, e2 + c2)
  <2>1. PICK u1 \in Field, v1 \in Field :
          /\ u1 = Subtract(y1, x1) /\ Same(u1, e1 - c1)
          /\ v1 = Add(y1, x1) /\ Same(v1, e1 + c1)
    BY <1>4, <1>9, OperationsAs
  <2>2. PICK u2 \in Field, v2 \in Field :
          /\ u2 = Subtract(y2, x2) /\ Same(u2, e2 - c2)
          /\ v2 = Add(y2, x2) /\ Same(v2, e2 + c2)
    BY <1>4, <1>9, OperationsAs
  <2> QED
    BY <2>1, <2>2
<1>11. PICK f1 \in Int, f2 \in Int, g1 \in Int, g2 \in Int, dd \in Int, zz \in Int :
         /\ f1 = e1 - c1 /\ f2 = e2 - c2 /\ g1 = e1 + c1 /\ g2 = e2 + c2
         /\ dd = o * d /\ zz = o * z1
  BY <1>4
<1>12. /\ u1 \in Int /\ u2 \in Int /\ v1 \in Int /\ v2 \in Int
       /\ Same(u1, f1) /\ Same(u2, f2) /\ Same(v1, g1) /\ Same(v2, g2)
  BY <1>10, <1>11, NullZero
<1>13. PICK a \in Field, b \in Field, m2 \in Field, mz \in Field :
         /\ a = Multiply(u1, u2) /\ Same(a, f1 * f2)
         /\ b = Multiply(v1, v2) /\ Same(b, g1 * g2)
         /\ m2 = Multiply(2, CurveD) /\ Same(m2, dd)
         /\ mz = Multiply(2, z1) /\ Same(mz, zz)
  <2>1. PICK a \in Field, b \in Field :
          /\ a = Multiply(u1, u2) /\ Same(a, f1 * f2)
          /\ b = Multiply(v1, v2) /\ Same(b, g1 * g2)
    BY <1>12, OperationsAs
  <2>2. PICK m2 \in Field : m2 = Multiply(o, d) /\ Same(m2, dd)
    BY <1>6, <1>11, OperationsAs
  <2>3. PICK mz \in Field : mz = Multiply(o, z1) /\ Same(mz, zz)
    BY <1>4, <1>6, <1>9, <1>11, OperationsAs
  <2> QED
    BY <1>6, <2>1, <2>2, <2>3
<1>14. PICK ia \in Int, ib \in Int, dt \in Int, id \in Int :
         ia = f1 * f2 /\ ib = g1 * g2 /\ dt = dd * ab1 /\ id = zz * z2
  BY <1>4
<1>15. a \in Int /\ b \in Int /\ m2 \in Int /\ mz \in Int /\ Same(a, ia) /\ Same(b, ib)
  BY <1>13, <1>14, NullZero
<1>16. PICK mt \in Field, md \in Field :
         /\ mt = Multiply(m2, t1) /\ Same(mt, dt)
         /\ md = Multiply(mz, z2) /\ Same(md, id)
  <2>1. PICK mt \in Field : mt = Multiply(m2, t1) /\ Same(mt, dt)
    <3>1. m2 \in Int /\ t1 \in Int /\ Same(m2, dd) /\ Same(t1, ab1) /\ dt = dd * ab1
      BY <1>4, <1>9, <1>13, <1>14, <1>15
    <3> QED
      BY <3>1, OperationsAs
  <2>2. PICK md \in Field : md = Multiply(mz, z2) /\ Same(md, id)
    BY <1>4, <1>9, <1>13, <1>14, <1>15, OperationsAs
  <2> QED
    BY <2>1, <2>2
<1>17. PICK ic \in Int : ic = dt * ab2
  OBVIOUS
<1>18. mt \in Int /\ md \in Int
  BY NullZero
<1>19. PICK mc \in Field : mc = Multiply(mt, t2) /\ Same(mc, ic)
  BY <1>4, <1>9, <1>16, <1>17, <1>18, OperationsAs
<1>20. mc \in Int
  BY NullZero
<1>21. PICK ie \in Int, if \in Int, ig \in Int, ih \in Int :
         ie = ib - ia /\ if = id - ic /\ ig = id + ic /\ ih = ib + ia
  OBVIOUS
<1>22. PICK e \in Field, f \in Field, g \in Field, h \in Field :
         /\ e = Subtract(b, a) /\ Same(e, ie) /\ h = Add(b, a) /\ Same(h, ih)
         /\ f = Subtract(md, mc) /\ Same(f, if) /\ g = Add(md, mc) /\ Same(g, ig)
  <2>1. PICK e \in Field, h \in Field :
          e = Subtract(b, a) /\ Same(e, ie) /\ h = Add(b, a) /\ Same(h, ih)
    <3>1. /\ b \in Int /\ a \in Int /\ Same(b, ib) /\ Same(a, ia)
          /\ ie = ib - ia /\ ih = ib + ia
      BY <1>15, <1>21
    <3> QED
      BY <3>1, OperationsAs
  <2>2. PICK f \in Field, g \in Field :
          f = Subtract(md, mc) /\ Same(f, if) /\ g = Add(md, mc) /\ Same(g, ig)
    <3>1. /\ md \in Int /\ mc \in Int /\ Same(md, id) /\ Same(mc, ic)
          /\ if = id - ic /\ ig = id + ic
      BY <1>16, <1>18, <1>19, <1>20, <1>21
    <3> QED
      BY <3>1, OperationsAs
  <2> QED
    BY <2>1, <2>2
<1>23. e \in Int /\ f \in Int /\ g \in Int /\ h \in Int
  BY NullZero
<1>24. PICK x3 \in Field, y3 \in Field, z3 \in Field, t3 \in Field :
         /\ x3 = Multiply(e, f) /\ Same(x3, ie * if) /\ y3 = Multiply(g, h) /\ Same(y3, ig * ih)
         /\ z3 = Multiply(f, g) /\ Same(z3, if * ig) /\ t3 = Multiply(e, h) /\ Same(t3, ie * ih)
  <2>1. PICK x3 \in Field, y3 \in Field :
          x3 = Multiply(e, f) /\ Same(x3, ie * if) /\ y3 = Multiply(g, h) /\ Same(y3, ig * ih)
    <3>1. Multiply(e, f) \in Field /\ Same(Multiply(e, f), ie * if)
      BY <1>22, <1>23, OperationsAs
    <3>2. Multiply(g, h) \in Field /\ Same(Multiply(g, h), ig * ih)
      BY <1>22, <1>23, OperationsAs
    <3> QED
      BY <3>1, <3>2
  <2>2. PICK z3 \in Field, t3 \in Field :
          z3 = Multiply(f, g) /\ Same(z3, if * ig) /\ t3 = Multiply(e, h) /\ Same(t3, ie * ih)
    <3>1. Multiply(f, g) \in Field /\ Same(Multiply(f, g), if * ig)
      BY <1>22, <1>23, OperationsAs
    <3>2. Multiply(e, h) \in Field /\ Same(Multiply(e, h), ie * ih)
      BY <1>22, <1>23, OperationsAs
    <3> QED
      BY <3>1, <3>2
  <2> QED
    BY <2>1, <2>2
<1>25. PointAdd(l, r) = Point(x3, y3, z3, t3)
  BY <1>5, <1>10, <1>13, <1>16, <1>19, <1>22, <1>24 DEF PointAdd
<1>26. PICK w \in Points : w = AffineSum(p, q)
  BY AffineSumIs
<1>27. PICK a3 \in Field, b3 \in Field : w[1] = a3 /\ w[2] = b3
  BY PointsAre
<1>28. a3 \in Int /\ b3 \in Int
  BY NullZero
<1>29. SumAt(a1, b1, a2, b2, a3, b3) /\ CurveAt(a1, b1) /\ CurveAt(a2, b2)
  BY <1>1, <1>26, <1>27, AffineSumIs, PointsAre
<1>30. PICK s \in Int, n1 \in Int, n2 \in Int, z \in Int :
         /\ s = d * ((a1 * a2) * (b1 * b2))
         /\ n1 = a1 * b2 + b1 * a2 /\ n2 = b1 * b2 + a1 * a2 /\ z = 2 * (z1 * z2)
  BY <1>4
<1>31. PICK i \in Int, j \in Int : i = 1 + s /\ j = 1 - s
  OBVIOUS
<1>32. /\ ~Null(i) /\ ~Null(j)
       /\ Null(i * a3 - n1) /\ Null(j * b3 - n2)
  BY <1>4, <1>6, <1>29, <1>30, <1>31, Complete DEF SumAt, Shared
<1>33. ie = z * n1 /\ ih = z * n2
  <2>1. /\ f1 = (b1 - a1) * z1 /\ f2 = (b2 - a2) * z2
        /\ g1 = (b1 + a1) * z1 /\ g2 = (b2 + a2) * z2
    BY <1>4, <1>7, <1>8, <1>11
  <2> QED
    BY <1>4, <1>14, <1>21, <1>30, <2>1
<1>34. if = z * j /\ ig = z * i
  <2>1. id = z
    BY <1>4, <1>6, <1>11, <1>14, <1>30
  <2>2. ic = z * s
    BY <1>4, <1>6, <1>7, <1>11, <1>14, <1>17, <1>30
  <2> QED
    BY <1>21, <1>31, <2>1, <2>2
<1>35. ~Null(z) /\ ~Null(if) /\ ~Null(ig)
  <2>1. PICK y \in Int, x \in Int : y = z1 * z2 /\ x = 2
    BY <1>4
  <2>2. ~Null(y) /\ ~Null(x) /\ z = x * y
    BY <1>4, <1>9, <1>30, <2>1, NoFactor, SmallNotNull
  <2>3. ~Null(z)
    BY <2>2, NoFactor
  <2> QED
    BY <1>32, <1>34, <2>3, NoFactor
<1>36. PICK k1 \in Int, k2 \in Int, k3 \in Int, k4 \in Int, k5 \in Int, k6 \in Int :
         /\ k1 = x3 - ie * if /\ k2 = y3 - ig * ih /\ k3 = z3 - if * ig
         /\ k4 = t3 - ie * ih /\ k5 = i * a3 - n1 /\ k6 = j * b3 - n2
  BY <1>28, NullZero
<1>37. Null(k1) /\ Null(k2) /\ Null(k3) /\ Null(k4) /\ Null(k5) /\ Null(k6)
  BY <1>24, <1>32, <1>36 DEF Same
<1>38. x3 \in Int /\ y3 \in Int /\ z3 \in Int /\ t3 \in Int
  BY NullZero
<1>39. ~Null(z3)
  <2>1. PICK y \in Int : y = if * ig
    OBVIOUS
  <2>2. ~Null(y)
    BY <1>35, <2>1, NoFactor
  <2>3. z3 - k3 = y
    BY <1>36, <1>38, <2>1
  <2> QED
    BY <1>37, <1>38, <2>2, <2>3, NullSum
<1>40. Same(x3, a3 * z3)
  <2>1. PICK c \in Int, m \in Int, n \in Int : c = 0 - a3 /\ m = 0 - (z * z) * j /\ n = 1
    BY <1>28
  <2>2. x3 - a3 * z3 = (n * k1 + c * k3) + m * k5
    BY <1>28, <1>33, <1>34, <1>36, <1>38, <2>1
  <2>3. Null((n * k1 + c * k3) + m * k5)
    BY <1>37, Combined
  <2> QED
    BY <2>2, <2>3 DEF Same
<1>41. Same(y3, b3 * z3)
  <2>1. PICK c \in Int, m \in Int, n \in Int : c = 0 - b3 /\ m = 0 - (z * z) * i /\ n = 1
    BY <1>28
  <2>2. y3 - b3 * z3 = (n * k2 + c * k3) + m * k6
    BY <1>28, <1>33, <1>34, <1>36, <1>38, <2>1
  <2>3. Null((n * k2 + c * k3) + m * k6)
    BY <1>37, Combined
  <2> QED
    BY <2>2, <2>3 DEF Same
<1>42. Same(t3, (a3 * b3) * z3)
  <2>1. PICK c \in Int, m \in Int, n \in Int, v \in Int :
          c = 0 - a3 * b3 /\ m = 0 - (z * z) * n2 /\ n = 1 /\ v = 0 - (z * z) * (i * a3)
    BY <1>28
  <2>2. PICK y \in Int : y = n * k4 + c * k3
    OBVIOUS
  <2>3. t3 - (a3 * b3) * z3 = (n * y + m * k5) + v * k6
    BY <1>28, <1>33, <1>34, <1>36, <1>38, <2>1, <2>2
  <2>4. Null(y)
    <3>1. Null(n * k4) /\ Null(c * k3) /\ n * k4 \in Int /\ c * k3 \in Int
      BY <1>37, NullTimes
    <3> QED
      BY <2>2, <3>1, NullSum
  <2>5. Null((n * y + m * k5) + v * k6)
    BY <1>37, <2>4, Combined
  <2> QED
    BY <2>3, <2>5 DEF Same
<1>43. Scaled(x3, y3, z3, t3, a3, b3)
  BY <1>39, <1>40, <1>41, <1>42 DEF Scaled
<1>44. PICK v : v = PointAdd(l, r)
  OBVIOUS
<1>45. v = Point(x3, y3, z3, t3)
  BY <1>25, <1>44
<1>48. Represents(v, w)
  <2>1. w[1] = a3 /\ w[2] = b3 /\ a3 \in Field /\ b3 \in Field
    BY <1>27
  <2> HIDE DEF Field
  <2> QED
    BY <1>43, <1>45, <2>1, ScaledIs
<1> QED
  BY <1>26, <1>44, <1>48

-----------------------------------------------------------------------------
(* Multiples of a point.                                                   *)

\* Times(f, p): f has the multiples of p.
Times(f, p) ==
  /\ f \in [Nat -> Points] /\ f[0] = Zero
  /\ \A i \in Nat \ {0} : f[i] = AffineSum(f[i - 1], p)

LEMMA TimesExist ==
  ASSUME NEW p \in Points
  PROVE  \E f : Times(f, p)
<1> DEFINE step == [x \in Points \X (Nat \ {0}) |-> AffineSum(x[1], p)]
<1>1. step \in [Points \X (Nat \ {0}) -> Points]
  <2>1. ASSUME NEW x \in Points \X (Nat \ {0}) PROVE AffineSum(x[1], p) \in Points
    <3>1. x[1] \in Points
      OBVIOUS
    <3> QED
      BY <3>1, AffineSumIs
  <2> QED
    BY <2>1
<1>2. PICK f : Endless(f, Points, Zero, step)
  <2> HIDE DEF step
  <2> QED
    BY <1>1, ZeroIsPoint, RecursForever
<1>3. f \in [Nat -> Points] /\ f[0] = Zero
  BY <1>2 DEF Endless
<1>4. ASSUME NEW i \in Nat \ {0} PROVE f[i] = AffineSum(f[i - 1], p)
  <2>1. f[i] = step[<<f[i - 1], i>>]
    BY <1>2 DEF Endless
  <2>2. i - 1 \in Nat
    OBVIOUS
  <2>3. f[i - 1] \in Points
    BY <1>3, <2>2
  <2>4. <<f[i - 1], i>> \in Points \X (Nat \ {0})
    BY <2>3
  <2> QED
    BY <2>1, <2>4
<1> QED
  BY <1>3, <1>4 DEF Times

LEMMA MultipleIs ==
  ASSUME NEW p \in Points, NEW f, Times(f, p), NEW n \in Nat
  PROVE  Multiple(p, n) = f[n]
<1> DEFINE times == CHOOSE g : g = [m \in 0..n |->
                      IF m = 0 THEN Zero ELSE AffineSum(g[m - 1], p)]
           part == [m \in 0..n |-> f[m]]
<1>1. /\ f \in [Nat -> Points] /\ f[0] = Zero
      /\ \A i \in Nat \ {0} : f[i] = AffineSum(f[i - 1], p)
  BY DEF Times
<1>2. part = [m \in 0..n |-> IF m = 0 THEN Zero ELSE AffineSum(part[m - 1], p)]
  <2>1. ASSUME NEW m \in 0..n
        PROVE  f[m] = IF m = 0 THEN Zero ELSE AffineSum(part[m - 1], p)
    <3>1. CASE m = 0
      BY <1>1, <3>1
    <3>2. CASE m # 0
      <4>1. m \in Nat \ {0} /\ m - 1 \in 0..n
        BY <3>2
      <4>2. part[m - 1] = f[m - 1]
        BY <4>1
      <4> HIDE DEF part
      <4> QED
        BY <1>1, <3>2, <4>1, <4>2
    <3> QED
      BY <3>1, <3>2
  <2> QED
    BY <2>1
<1>3. times = [m \in 0..n |-> IF m = 0 THEN Zero ELSE AffineSum(times[m - 1], p)]
  <2> HIDE DEF part
  <2> QED
    BY <1>2
<1>4. Multiple(p, n) = times[n]
  BY DEF Multiple
<1> HIDE DEF times
<1>5. times[0] = Zero /\ \A m \in 1..n : times[m] = AffineSum(times[m - 1], p)
  <2>1. 0 \in 0..n
    OBVIOUS
  <2>2. times[0] = Zero
    BY <1>3, <2>1
  <2>3. ASSUME NEW m \in 1..n PROVE times[m] = AffineSum(times[m - 1], p)
    <3>1. m \in 0..n /\ m # 0
      OBVIOUS
    <3> QED
      BY <1>3, <3>1
  <2> QED
    BY <2>2, <2>3
<1> DEFINE T == {m \in Nat : m <= n => times[m] = f[m]}
<1>6. 0 \in T
  BY <1>1, <1>5
<1>7. ASSUME NEW m \in Nat, m \in T PROVE m + 1 \in T
  <2>1. CASE m + 1 <= n
    <3>1. m <= n /\ m + 1 \in 1..n /\ m + 1 \in Nat \ {0} /\ (m + 1) - 1 = m
      BY <2>1
    <3>2. times[m] = f[m]
      BY <1>7, <3>1
    <3>3. times[m + 1] = AffineSum(times[m], p)
      BY <1>5, <3>1
    <3>4. f[m + 1] = AffineSum(f[m], p)
      BY <1>1, <3>1
    <3> QED
      BY <3>1, <3>2, <3>3, <3>4
  <2>2. CASE ~(m + 1 <= n)
    BY <2>2
  <2> QED
    BY <2>1, <2>2
<1>8. n \in T
  <2> HIDE DEF T
  <2> QED
    BY <1>6, <1>7, Induction
<1> QED
  BY <1>4, <1>8

LEMMA MultipleBasics ==
  ASSUME NEW p \in Points
  PROVE  /\ Multiple(p, 0) = Zero
         /\ \A n \in Nat : /\ Multiple(p, n) \in Points
                           /\ Multiple(p, n + 1) = AffineSum(Multiple(p, n), p)
<1>1. PICK f : Times(f, p)
  BY TimesExist
<1>2. /\ f \in [Nat -> Points] /\ f[0] = Zero
      /\ \A i \in Nat \ {0} : f[i] = AffineSum(f[i - 1], p)
  BY <1>1 DEF Times
<1>3. \A n \in Nat : Multiple(p, n) = f[n]
  BY <1>1, MultipleIs
<1>4. ASSUME NEW n \in Nat
      PROVE  /\ Multiple(p, n) \in Points
             /\ Multiple(p, n + 1) = AffineSum(Multiple(p, n), p)
  <2>1. n + 1 \in Nat \ {0} /\ (n + 1) - 1 = n /\ n + 1 \in Nat
    OBVIOUS
  <2>2. f[n + 1] = AffineSum(f[n], p)
    BY <1>2, <2>1
  <2>3. Multiple(p, n) = f[n] /\ Multiple(p, n + 1) = f[n + 1] /\ f[n] \in Points
    BY <1>2, <1>3, <2>1
  <2> QED
    BY <2>2, <2>3
<1>5. Multiple(p, 0) = Zero
  BY <1>2, <1>3
<1> QED
  BY <1>4, <1>5

\* The multiples of a point add up as their numbers do.
LEMMA MultipleOfSum ==
  ASSUME NEW p \in Points, NEW m \in Nat
  PROVE  \A n \in Nat : Multiple(p, m + n) = AffineSum(Multiple(p, m), Multiple(p, n))
<1> DEFINE T == {n \in Nat : Multiple(p, m + n) = AffineSum(Multiple(p, m), Multiple(p, n))}
<1>1. 0 \in T
  <2>1. m + 0 = m /\ Multiple(p, 0) = Zero /\ Multiple(p, m) \in Points
    BY MultipleBasics
  <2>2. AffineSum(Multiple(p, m), Zero) = Multiple(p, m)
    BY <2>1, ZeroIsNeutral
  <2> QED
    BY <2>1, <2>2
<1>2. ASSUME NEW n \in Nat, n \in T PROVE n + 1 \in T
  <2>1. m + n \in Nat /\ m + (n + 1) = (m + n) + 1
    OBVIOUS
  <2>2. PICK a \in Points, b \in Points, c \in Points :
          a = Multiple(p, m) /\ b = Multiple(p, n) /\ c = Multiple(p, m + n)
    BY <2>1, MultipleBasics
  <2>3. /\ Multiple(p, n + 1) = AffineSum(b, p)
        /\ Multiple(p, (m + n) + 1) = AffineSum(c, p)
        /\ c = AffineSum(a, b)
    BY <1>2, <2>1, <2>2, MultipleBasics
  <2>4. AffineSum(AffineSum(a, b), p) = AffineSum(a, AffineSum(b, p))
    BY SumIsAssociative
  <2>5. Multiple(p, m + (n + 1)) = AffineSum(Multiple(p, m), Multiple(p, n + 1))
    BY <2>1, <2>2, <2>3, <2>4
  <2> QED
    BY <2>5
<1>3. \A n \in Nat : n \in T
  <2> HIDE DEF T
  <2> QED
    BY <1>1, <1>2, Induction
<1> QED
  BY <1>3

-----------------------------------------------------------------------------
(* Doubling and adding.                                                    *)

\* Extended coordinates.
Quads == [x : Field, y : Field, z : Field, t : Field]

LEMMA OnceIs ==
  ASSUME NEW a \in Field
  PROVE  Multiply(a, 1) = a
<1>1. a \in Int /\ 1 \in Int
  BY NullZero
<1>2. a * 1 = a /\ a - a = 0
  BY <1>1
<1>3. a % P = a
  BY <1>1, <1>2, NullZero, ReducedIs
<1> QED
  BY <1>2, <1>3 DEF Multiply

LEMMA AffineRepresents ==
  ASSUME NEW p \in Points
  PROVE  Represents(Affine(p[1], p[2]), p)
<1>1. PICK x \in Field, y \in Field : p[1] = x /\ p[2] = y
  BY PointsAre
<1>2. x \in Int /\ y \in Int /\ 1 \in Field /\ 1 # 0
  BY NullZero
<1>3. PICK t \in Field : t = Multiply(x, y)
  BY <1>2, Operations
<1>4. Multiply(x, 1) = x /\ Multiply(y, 1) = y /\ Multiply(t, 1) = t
  BY OnceIs
<1> QED
  BY <1>1, <1>2, <1>3, <1>4 DEF Represents, Affine

LEMMA RepresentIsQuad ==
  ASSUME NEW q, NEW p, Represents(q, p)
  PROVE  q \in Quads
BY DEF Represents, Quads, Point

LEMMA PointAddQuad ==
  ASSUME NEW l \in Quads, NEW r \in Quads
  PROVE  PointAdd(l, r) \in Quads
<1>1. PICK x1 \in Int, y1 \in Int, z1 \in Int, t1 \in Int :
        l.x = x1 /\ l.y = y1 /\ l.z = z1 /\ l.t = t1
  <2>1. l.x \in Int /\ l.y \in Int /\ l.z \in Int /\ l.t \in Int
    BY NullZero DEF Quads
  <2> QED
    BY <2>1
<1>2. PICK x2 \in Int, y2 \in Int, z2 \in Int, t2 \in Int :
        r.x = x2 /\ r.y = y2 /\ r.z = z2 /\ r.t = t2
  <2>1. r.x \in Int /\ r.y \in Int /\ r.z \in Int /\ r.t \in Int
    BY NullZero DEF Quads
  <2> QED
    BY <2>1
<1>3. \A a, b \in Int : Multiply(a, b) \in Int /\ Add(a, b) \in Int /\ Subtract(a, b) \in Int
  BY Operations, NullZero
<1>4. CurveD \in Int /\ 2 \in Int
  BY SmallNotNull
<1>5. PICK a \in Int, b \in Int, c \in Int, d \in Int :
        /\ a = Multiply(Subtract(y1, x1), Subtract(y2, x2))
        /\ b = Multiply(Add(y1, x1), Add(y2, x2))
        /\ c = Multiply(Multiply(Multiply(2, CurveD), t1), t2)
        /\ d = Multiply(Multiply(2, z1), z2)
  BY <1>3, <1>4
<1>6. PICK e \in Int, f \in Int, g \in Int, h \in Int :
        e = Subtract(b, a) /\ f = Subtract(d, c) /\ g = Add(d, c) /\ h = Add(b, a)
  BY <1>3
<1>7. PointAdd(l, r) = Point(Multiply(e, f), Multiply(g, h), Multiply(f, g), Multiply(e, h))
  BY <1>1, <1>2, <1>5, <1>6 DEF PointAdd
<1>8. /\ Multiply(e, f) \in Field /\ Multiply(g, h) \in Field
      /\ Multiply(f, g) \in Field /\ Multiply(e, h) \in Field
  BY Operations
<1> QED
  BY <1>7, <1>8 DEF Quads, Point

LEMMA PowerOfTwo ==
  \A n \in Nat : Power(2, n) \in Nat /\ Power(2, n) > n
                 /\ Power(2, n + 1) = Power(2, n) + Power(2, n)
<1>0. 2 \in Int
  OBVIOUS
<1> DEFINE T == {n \in Nat : Power(2, n) > n /\ Power(2, n) \in Nat}
<1>1. 0 \in T
  BY <1>0, PowerBasics
<1>2. ASSUME NEW n \in Nat, n \in T PROVE n + 1 \in T
  <2>1. PICK a \in Nat : a = Power(2, n) /\ a > n
    BY <1>2
  <2>2. Power(2, n + 1) = a * 2
    BY <1>0, <2>1, PowerBasics
  <2>3. a * 2 > n + 1 /\ a * 2 \in Nat
    BY <2>1
  <2>4. n + 1 \in Nat
    OBVIOUS
  <2> QED
    BY <2>2, <2>3, <2>4
<1>3. \A n \in Nat : n \in T
  <2> HIDE DEF T
  <2> QED
    BY <1>1, <1>2, Induction
<1>4. ASSUME NEW n \in Nat PROVE Power(2, n + 1) = Power(2, n) + Power(2, n)
  <2>1. PICK a \in Int : a = Power(2, n)
    BY <1>0, PowerBasics
  <2>2. Power(2, n + 1) = a * 2
    BY <1>0, <2>1, PowerBasics
  <2> QED
    BY <2>1, <2>2
<1> QED
  BY <1>3, <1>4

LEMMA BitsAre ==
  ASSUME NEW s \in Nat
  PROVE  Bits(s) \in Nat /\ Power(2, Bits(s)) > s
<1> DEFINE T == {n \in Nat : Power(2, n) > s}
<1>1. s \in T
  BY PowerOfTwo
<1>2. PICK n \in T : \A m \in T : n <= m
  <2>1. T \in SUBSET Nat /\ T # {}
    BY <1>1
  <2> HIDE DEF T
  <2> QED
    BY <2>1, LeastNatural
<1>3. n \in 0..s /\ Power(2, n) > s
  BY <1>1, <1>2
<1>4. ASSUME NEW m \in 0..(n - 1) PROVE Power(2, m) <= s
  <2>1. m \in Nat /\ ~(n <= m)
    OBVIOUS
  <2>2. m \notin T
    BY <1>2, <2>1
  <2>3. PICK a \in Nat : a = Power(2, m)
    BY <2>1, PowerOfTwo
  <2> QED
    BY <2>1, <2>2, <2>3
<1>5. PICK b : b = Bits(s)
  OBVIOUS
<1>6. b \in 0..s /\ Power(2, b) > s
  BY <1>3, <1>4, <1>5 DEF Bits
<1> QED
  BY <1>5, <1>6

LEMMA NextBit ==
  ASSUME NEW s \in Nat, NEW a \in Nat, a > 0
  PROVE  s % (a + a) = (IF (s \div a) % 2 = 1 THEN (s % a) + a ELSE s % a)
<1>1. PICK q \in Int, r \in 0..(a - 1) : q = s \div a /\ r = s % a /\ s = a * q + r
  <2>1. a \in Int /\ s \in Int
    OBVIOUS
  <2> QED
    BY <2>1, Quotient
<1>2. PICK h \in Int, b \in 0..1 : b = q % 2 /\ q = (h + h) + b
  <2>1. q \div 2 \in Int /\ q % 2 \in 0..1 /\ q = (q \div 2 + q \div 2) + (q % 2)
    OBVIOUS
  <2> QED
    BY <2>1
<1>3. PICK m \in Int, c \in Int : m = a + a /\ c = IF b = 1 THEN r + a ELSE r
  OBVIOUS
<1>4. m > 0 /\ 0 <= c /\ c < m /\ s \in Int
  BY <1>3
<1>5. s = m * h + c
  <2>1. CASE b = 1
    BY <1>1, <1>2, <1>3, <2>1
  <2>2. CASE b # 1
    <3>1. b = 0 /\ q = h + h /\ c = r
      BY <1>2, <1>3, <2>2
    <3> QED
      BY <1>1, <1>3, <3>1
  <2> QED
    BY <2>1, <2>2
<1>6. c = s % m
  BY <1>4, <1>5, OneQuotient
<1> QED
  BY <1>1, <1>2, <1>3, <1>6

\* A step of ScalarMultiply.
Doubled(at, bit, scalar) ==
  [result |-> IF (scalar \div Power(2, bit - 1)) % 2 = 1
              THEN PointAdd(at.result, at.point) ELSE at.result,
   point |-> PointAdd(at.point, at.point)]

LEMMA DoubledIs ==
  ASSUME NEW p \in Points, NEW s \in Nat, NEW k \in Nat, NEW at,
         Represents(at.result, Multiple(p, s % Power(2, k))),
         Represents(at.point, Multiple(p, Power(2, k)))
  PROVE  /\ Represents(Doubled(at, k + 1, s).result, Multiple(p, s % Power(2, k + 1)))
         /\ Represents(Doubled(at, k + 1, s).point, Multiple(p, Power(2, k + 1)))
<1>1. PICK a \in Nat : a = Power(2, k) /\ a > 0 /\ Power(2, k + 1) = a + a
  BY PowerOfTwo
<1>2. PICK r \in Nat : r = s % a
  <2>1. s % a \in Nat
    BY <1>1
  <2> QED
    BY <2>1
<1>3. PICK u \in Points, v \in Points : u = Multiple(p, r) /\ v = Multiple(p, a)
  BY MultipleBasics
<1>4. Multiple(p, a + a) = AffineSum(v, v) /\ Multiple(p, r + a) = AffineSum(u, v)
  BY <1>3, MultipleOfSum
<1>5. PICK x, y : x = at.result /\ y = at.point
  OBVIOUS
<1>6. Represents(x, u) /\ Represents(y, v)
  BY <1>1, <1>2, <1>3, <1>5
<1>7. /\ Represents(PointAdd(x, y), AffineSum(u, v))
      /\ Represents(PointAdd(y, y), AffineSum(v, v))
  BY <1>6, PointAddIs
<1>8. Doubled(at, k + 1, s).point = PointAdd(y, y)
  BY <1>5 DEF Doubled
<1>9. Doubled(at, k + 1, s).result = IF (s \div a) % 2 = 1 THEN PointAdd(x, y) ELSE x
  <2>1. (k + 1) - 1 = k
    OBVIOUS
  <2> QED
    BY <1>1, <1>5, <2>1 DEF Doubled
<1>10. s % (a + a) = (IF (s \div a) % 2 = 1 THEN r + a ELSE r)
  BY <1>1, <1>2, NextBit
<1>11. CASE (s \div a) % 2 = 1
  BY <1>1, <1>4, <1>7, <1>8, <1>9, <1>10, <1>11
<1>12. CASE (s \div a) % 2 # 1
  BY <1>1, <1>3, <1>4, <1>6, <1>7, <1>8, <1>9, <1>10, <1>12
<1> QED
  BY <1>11, <1>12

\* Doubling and adding along the bits of a scalar is the multiple by it.
THEOREM ScalarMultiplyIs ==
  ASSUME NEW p \in Points, NEW q, Represents(q, p), NEW s \in Nat
  PROVE  Represents(ScalarMultiply(q, s), Multiple(p, s))
<1> DEFINE n == Bits(s)
           start == [result |-> Affine(0, 1), point |-> q]
           S == [result : Quads, point : Quads]
           step == [x \in S \X (1..n) |-> Doubled(x[1], x[2], s)]
           after == CHOOSE g : g = [bit \in 0..n |->
                      IF bit = 0 THEN start ELSE Doubled(g[bit - 1], bit, s)]
<1>1. n \in Nat /\ Power(2, n) > s
  BY BitsAre
<1> HIDE DEF n
<1>2. Represents(Affine(0, 1), Zero) /\ Affine(0, 1) \in Quads /\ q \in Quads
  <2>1. Zero[1] = 0 /\ Zero[2] = 1
    BY DEF Zero
  <2>2. Represents(Affine(0, 1), Zero)
    BY <2>1, ZeroIsPoint, AffineRepresents
  <2> QED
    BY <2>2, RepresentIsQuad
<1>3. start \in S
  BY <1>2
<1>4. step \in [S \X (1..n) -> S]
  <2>1. ASSUME NEW x \in S \X (1..n) PROVE Doubled(x[1], x[2], s) \in S
    <3>1. x[1].result \in Quads /\ x[1].point \in Quads
      OBVIOUS
    <3>2. /\ PointAdd(x[1].result, x[1].point) \in Quads
          /\ PointAdd(x[1].point, x[1].point) \in Quads
      BY <3>1, PointAddQuad
    <3> QED
      BY <3>1, <3>2 DEF Doubled
  <2> QED
    BY <2>1
<1>5. PICK f : Recursion(f, S, n, start, step)
  <2> HIDE DEF step, start, S
  <2> QED
    BY <1>1, <1>3, <1>4, Recurs
<1>6. f \in [0..n -> S] /\ f[0] = start
  BY <1>5 DEF Recursion
<1>7. ASSUME NEW i \in 1..n PROVE f[i] = Doubled(f[i - 1], i, s)
  <2>1. i - 1 \in 0..n
    BY <1>1
  <2>2. f[i - 1] \in S
    <3> HIDE DEF S
    <3> QED
      BY <1>6, <2>1
  <2>3. <<f[i - 1], i>> \in S \X (1..n)
    <3> HIDE DEF S
    <3> QED
      BY <2>2
  <2>4. f[i] = step[<<f[i - 1], i>>]
    BY <1>5 DEF Recursion
  <2>5. PICK x : x = <<f[i - 1], i>>
    OBVIOUS
  <2>6. x \in S \X (1..n) /\ x[1] = f[i - 1] /\ x[2] = i
    <3> HIDE DEF S
    <3> QED
      BY <2>3, <2>5
  <2>7. step[x] = Doubled(x[1], x[2], s)
    <3> HIDE DEF S
    <3> QED
      BY <2>6
  <2> HIDE DEF step
  <2> QED
    BY <2>4, <2>5, <2>6, <2>7
<1>8. f = [bit \in 0..n |-> IF bit = 0 THEN start ELSE Doubled(f[bit - 1], bit, s)]
  <2>1. ASSUME NEW bit \in 0..n
        PROVE  f[bit] = IF bit = 0 THEN start ELSE Doubled(f[bit - 1], bit, s)
    <3>1. CASE bit = 0
      BY <1>6, <3>1
    <3>2. CASE bit # 0
      <4>1. bit \in 1..n
        BY <1>1, <3>2
      <4> QED
        BY <1>7, <3>2, <4>1
    <3> QED
      BY <3>1, <3>2
  <2> HIDE DEF S, start
  <2> QED
    BY <1>6, <2>1
<1>9. after = [bit \in 0..n |-> IF bit = 0 THEN start ELSE Doubled(after[bit - 1], bit, s)]
  <2> HIDE DEF S, start
  <2> QED
    BY <1>8
<1>10. ScalarMultiply(q, s) = after[n].result
  BY DEF ScalarMultiply, Doubled, n
<1> HIDE DEF after
<1>11. after[0] = start /\ \A i \in 1..n : after[i] = Doubled(after[i - 1], i, s)
  <2>1. 0 \in 0..n
    BY <1>1
  <2>2. after[0] = start
    BY <1>9, <2>1
  <2>3. ASSUME NEW i \in 1..n PROVE after[i] = Doubled(after[i - 1], i, s)
    <3>1. i \in 0..n /\ i # 0
      BY <1>1
    <3> HIDE DEF start
    <3> QED
      BY <1>9, <3>1
  <2> QED
    BY <2>2, <2>3
<1> DEFINE Right(k) == /\ Represents(after[k].result, Multiple(p, s % Power(2, k)))
                       /\ Represents(after[k].point, Multiple(p, Power(2, k)))
           T == {k \in Nat : k <= n => Right(k)}
<1>12. 0 \in T
  <2>1. Power(2, 0) = 1 /\ s % 1 = 0
    BY PowerBasics
  <2>2. Multiple(p, 0) = Zero /\ Multiple(p, 1) = p
    <3>1. 0 + 1 = 1 /\ 0 \in Nat
      OBVIOUS
    <3>2. Multiple(p, 0 + 1) = AffineSum(Multiple(p, 0), p) /\ Multiple(p, 0) = Zero
      BY <3>1, MultipleBasics
    <3> QED
      BY <3>1, <3>2, ZeroIsNeutral
  <2>3. after[0].result = Affine(0, 1) /\ after[0].point = q
    BY <1>11
  <2> QED
    BY <1>2, <2>1, <2>2, <2>3
<1>13. ASSUME NEW k \in Nat, k \in T PROVE k + 1 \in T
  <2>1. CASE k + 1 <= n
    <3>1. k <= n /\ k + 1 \in 1..n /\ (k + 1) - 1 = k
      BY <1>1, <2>1
    <3>2. Right(k)
      BY <1>13, <3>1
    <3>3. PICK at : at = after[k]
      OBVIOUS
    <3>4. after[k + 1] = Doubled(at, k + 1, s)
      BY <1>11, <3>1, <3>3
    <3>5. /\ Represents(Doubled(at, k + 1, s).result, Multiple(p, s % Power(2, k + 1)))
          /\ Represents(Doubled(at, k + 1, s).point, Multiple(p, Power(2, k + 1)))
      BY <3>2, <3>3, DoubledIs
    <3>6. Right(k + 1)
      BY <3>4, <3>5
    <3> HIDE DEF Right
    <3> QED
      BY <3>6
  <2>2. CASE ~(k + 1 <= n)
    <3> HIDE DEF Right
    <3> QED
      BY <2>2
  <2> QED
    BY <2>1, <2>2
<1>14. n \in T
  <2> HIDE DEF T
  <2> QED
    BY <1>1, <1>12, <1>13, Induction
<1>15. Right(n)
  <2> HIDE DEF Right
  <2> QED
    BY <1>1, <1>14
<1>16. s % Power(2, n) = s
  <2>1. PICK a \in Nat : a = Power(2, n) /\ a > s
    BY <1>1, PowerOfTwo
  <2>2. s = a * 0 + s /\ s \in Int /\ a \in Int /\ a > 0 /\ 0 <= s /\ s < a /\ 0 \in Int
    BY <2>1
  <2>3. s = s % a
    BY <2>2, OneQuotient
  <2> QED
    BY <2>1, <2>3
<1> QED
  BY <1>10, <1>15, <1>16

-----------------------------------------------------------------------------
(* Roots.                                                                  *)

LEMMA FermatIs ==
  ASSUME NEW w \in Int, ~Null(w)
  PROVE  Same(Power(w, P - 1), 1)
<1>1. PICK r \in Field : r = w % P /\ Null(r - w) /\ Null(w - r)
  BY Reduced
<1>2. r \in Int /\ P - 1 \in Nat
  BY Modulus, NullZero
<1>3. r # 0
  <2>1. CASE r = 0
    <3>1. w - r = w
      BY <2>1
    <3> QED
      BY <1>1, <3>1
  <2> QED
    BY <2>1
<1>4. Exponentiate(r, P - 1) = 1
  BY <1>3, EdwardsAssumption
<1>5. PICK a \in Int, b \in Int : a = Power(r, P - 1) /\ b = Power(w, P - 1)
  BY <1>2, PowerBasics
<1>6. Same(1, a)
  BY <1>2, <1>4, <1>5, ExponentiateIs DEF Same
<1>7. Same(a, b)
  BY <1>1, <1>2, <1>5, PowersAgree DEF Same
<1>8. Same(b, 1)
  <2>1. 1 \in Int
    OBVIOUS
  <2> QED
    BY <1>6, <1>7, <2>1, SameThrough, SameSwapped
<1> QED
  BY <1>5, <1>8

\* Half the powers of a number: 1 or -1.
LEMMA HalfPower ==
  ASSUME NEW e \in Int, Same(e * e, 1)
  PROVE  Null(e - 1) \/ Null(e + 1)
<1>1. PICK a \in Int, b \in Int : a = e - 1 /\ b = e + 1
  OBVIOUS
<1>2. e * e - 1 = a * b
  BY <1>1
<1>3. Null(a * b)
  BY <1>2 DEF Same
<1> QED
  BY <1>1, <1>3, Domain

LEMMA ModulusIs ==
  \E k \in Nat : /\ P = 8 * k + 5 /\ (P + 3) \div 8 = k + 1
                 /\ P - 1 = (((k + 1) + k) + ((k + 1) + k)) + (((k + 1) + k) + ((k + 1) + k))
<1>1. P \in Nat /\ P % 8 = 5
  BY EdwardsAssumption
<1>2. PICK k \in Nat : k = P \div 8 /\ P = 8 * k + 5
  BY <1>1
<1>3. (P + 3) \div 8 = k + 1
  BY <1>2
<1>4. P - 1 = (((k + 1) + k) + ((k + 1) + k)) + (((k + 1) + k) + ((k + 1) + k))
  BY <1>2
<1> QED
  BY <1>2, <1>3, <1>4

LEMMA SquareRootInField ==
  ASSUME NEW v \in Field
  PROVE  SquareRoot(v) \in Field
<1>1. PICK k \in Nat : (P + 3) \div 8 = k + 1
  BY ModulusIs
<1>2. v \in Int /\ k + 1 \in Nat
  BY NullZero
<1>3. PICK x \in Field : x = Exponentiate(v, k + 1)
  BY <1>2, ExponentiateIs
<1>4. x \in Int /\ SqrtM1 \in Int
  BY NullZero, SmallNotNull
<1>5. Multiply(x, SqrtM1) \in Field
  BY <1>4, Operations
<1> QED
  BY <1>1, <1>3, <1>5 DEF SquareRoot

\* What has a root has SquareRoot for one: P is 5 modulo 8.
LEMMA SquareRootIs ==
  ASSUME NEW v \in Field, NEW w \in Int, Same(w * w, v)
  PROVE  Multiply(SquareRoot(v), SquareRoot(v)) = v
<1>1. PICK k \in Nat : /\ (P + 3) \div 8 = k + 1
                       /\ P - 1 = (((k + 1) + k) + ((k + 1) + k)) + (((k + 1) + k) + ((k + 1) + k))
  BY ModulusIs
<1>2. v \in Int /\ k + 1 \in Nat
  BY NullZero
<1>3. PICK x \in Field : x = Exponentiate(v, k + 1) /\ Same(x, Power(v, k + 1))
  BY <1>2, ExponentiateIs DEF Same
<1>4. x \in Int /\ SqrtM1 \in Int
  BY NullZero, SmallNotNull
<1>5. PICK a \in Int, b \in Int : a = Power(v, k + 1) /\ b = Power(v, k)
  BY <1>2, PowerBasics
<1>6. PICK e \in Int : e = a * b
  OBVIOUS
<1>7. a = b * v /\ a * a = e * v
  <2>1. a = b * v
    BY <1>2, <1>5, PowerBasics
  <2>2. e * v = a * (b * v)
    BY <1>2, <1>6
  <2> QED
    BY <2>1, <2>2
<1>8. Same(x * x, e * v)
  BY <1>3, <1>4, <1>5, <1>7, Products DEF Same
<1>9. PICK xx \in Field : xx = Multiply(x, x) /\ Same(xx, x * x)
  BY <1>4, Operations DEF Same
<1>10. PICK xi \in Int, ev \in Int : xi = x * x /\ ev = e * v
  BY <1>2, <1>4
<1>11. xx \in Int /\ Same(xx, ev)
  <2>1. xx \in Int
    BY NullZero
  <2>2. Same(xx, xi) /\ Same(xi, ev)
    BY <1>8, <1>9, <1>10
  <2> QED
    BY <2>1, <2>2, SameThrough
<1>12. CASE Null(e - 1)
  <2>1. ev - v = v * (e - 1) /\ e - 1 \in Int
    BY <1>2, <1>10
  <2>2. Null(v * (e - 1))
    BY <1>2, <1>12, <2>1, NullTimes
  <2>3. Same(ev, v)
    BY <2>1, <2>2 DEF Same
  <2>4. Same(xx, v)
    BY <1>2, <1>11, <2>3, SameThrough
  <2>5. xx = v
    BY <2>4, SameEqual
  <2> QED
    BY <1>1, <1>3, <1>9, <2>5 DEF SquareRoot
<1>13. CASE Null(e + 1)
  <2>1. PICK i \in Int : i = SqrtM1 /\ Null(i * i + 1)
    BY SmallNotNull
  <2>2. PICK y \in Field : y = Multiply(x, i) /\ Same(y, x * i)
    BY <1>4, Operations DEF Same
  <2>3. y \in Int
    BY NullZero
  <2>4. PICK yy \in Field : yy = Multiply(y, y) /\ Same(yy, y * y)
    BY <2>3, Operations DEF Same
  <2>5. PICK s \in Int, t \in Int, u \in Int, q \in Int :
          s = x * i /\ t = y * y /\ u = s * s /\ q = i * i + 1
    BY <1>4, <2>3
  <2>6. Same(t, u)
    BY <2>2, <2>3, <2>5, Products DEF Same
  <2>7. u - v = (xi * q - (xi - ev)) - v * (e + 1)
    BY <1>2, <1>4, <1>10, <2>5
  <2>8. PICK c \in Int, d \in Int, f \in Int :
          c = xi * q /\ d = xi - ev /\ f = v * (e + 1)
    BY <1>2
  <2>9. Null(c) /\ Null(d) /\ Null(f)
    <3>1. Null(q)
      BY <2>1, <2>5
    <3>2. Null(c)
      BY <2>8, <3>1, NullTimes
    <3>3. Null(d)
      BY <1>8, <1>10, <2>8 DEF Same
    <3>4. e + 1 \in Int
      OBVIOUS
    <3>5. Null(f)
      BY <1>2, <1>13, <2>8, <3>4, NullTimes
    <3> QED
      BY <3>2, <3>3, <3>5
  <2>10. Null(c - d) /\ c - d \in Int
    BY <2>9, NullSum
  <2>11. Null((c - d) - f)
    BY <2>9, <2>10, NullSum
  <2>12. Same(u, v)
    BY <2>7, <2>8, <2>11 DEF Same
  <2>13. yy \in Int /\ Same(yy, t)
    BY <2>4, <2>5, NullZero
  <2>14. Same(yy, u)
    BY <2>6, <2>13, SameThrough
  <2>15. Same(yy, v)
    BY <1>2, <2>12, <2>13, <2>14, SameThrough
  <2>16. yy = v
    BY <2>15, SameEqual
  <2> QED
    BY <1>1, <1>3, <1>9, <2>1, <2>2, <2>4, <2>16 DEF SquareRoot
<1>14. CASE Null(v)
  <2>1. v = 0
    BY <1>14, NullInField
  <2>2. ev = 0
    BY <1>10, <2>1
  <2>3. Same(xx, v)
    BY <1>11, <2>1, <2>2
  <2>4. xx = v
    BY <2>3, SameEqual
  <2> QED
    BY <1>1, <1>3, <1>9, <2>4 DEF SquareRoot
<1>15. CASE ~Null(v)
  <2>1. ~Null(w)
    <3>1. SUFFICES ASSUME Null(w) PROVE FALSE
      OBVIOUS
    <3>2. PICK u \in Int : u = w * w
      OBVIOUS
    <3>3. Null(u) /\ Null(u - v)
      BY <3>1, <3>2, NullTimes DEF Same
    <3>4. u - v \in Int /\ u - (u - v) = v
      BY <1>2
    <3>5. Null(u - (u - v))
      BY <3>3, <3>4, NullSum
    <3> QED
      BY <1>15, <3>4, <3>5
  <2>2. PICK m \in Nat : m = (k + 1) + k /\ P - 1 = (m + m) + (m + m)
    BY <1>1
  <2>3. Power(v, m) = e
    BY <1>2, <1>5, <1>6, <2>2, PowerOfSum
  <2>4. PICK ww \in Int : ww = w * w
    OBVIOUS
  <2>5. PICK g \in Int : g = Power(w, m)
    BY PowerBasics
  <2>6. Power(ww, m) = g * g
    BY <2>4, <2>5, PowerOfSquare
  <2>7. Power(w, m + m) = g * g
    BY <2>5, PowerOfSum
  <2>8. PICK h \in Int, j \in Int : h = g * g /\ j = h * h
    OBVIOUS
  <2>9. Power(w, P - 1) = j
    <3>1. m + m \in Nat
      OBVIOUS
    <3>2. Power(w, (m + m) + (m + m)) = Power(w, m + m) * Power(w, m + m)
      BY <3>1, PowerOfSum
    <3> QED
      BY <2>2, <2>7, <2>8, <3>2
  <2>10. Same(j, 1)
    BY <2>1, <2>9, FermatIs
  <2>11. Same(h, e)
    <3>1. Null(ww - v)
      BY <2>4 DEF Same
    <3>2. Null(Power(ww, m) - Power(v, m))
      BY <1>2, <3>1, PowersAgree
    <3> QED
      BY <2>3, <2>6, <2>8, <3>2 DEF Same
  <2>12. PICK ee \in Int : ee = e * e
    OBVIOUS
  <2>13. Same(j, ee)
    BY <2>8, <2>11, <2>12, Products DEF Same
  <2>14. Same(ee, 1)
    <3>1. 1 \in Int
      OBVIOUS
    <3> QED
      BY <2>10, <2>13, <3>1, SameSwapped, SameThrough
  <2> QED
    BY <1>12, <1>13, <2>12, <2>14, HalfPower
<1> QED
  BY <1>14, <1>15

-----------------------------------------------------------------------------
(* The abscissa of a point.                                                *)

LEMMA NullAlike ==
  ASSUME NEW a \in Int, NEW b \in Int, Same(a, b)
  PROVE  Null(a) <=> Null(b)
<1>1. Null(a - b) /\ a - b \in Int
  BY DEF Same
<1>2. a - (a - b) = b /\ b + (a - b) = a
  OBVIOUS
<1>3. Null(a) => Null(a - (a - b))
  BY <1>1, NullSum
<1>4. Null(b) => Null(b + (a - b))
  BY <1>1, NullSum
<1> QED
  BY <1>2, <1>3, <1>4

LEMMA Denominator ==
  ASSUME NEW y \in Int
  PROVE  ~Null(CurveD * (y * y) + 1)
<1>1. SUFFICES ASSUME Null(CurveD * (y * y) + 1) PROVE FALSE
  OBVIOUS
<1>2. PICK d \in Int, i \in Int : d = CurveD /\ i = SqrtM1 /\ Null(i * i + 1)
  BY SmallNotNull
<1>3. PICK a \in Int, b \in Int : a = i * i + 1 /\ b = d * (y * y) + 1
  OBVIOUS
<1>4. Null(a) /\ Null(b)
  BY <1>1, <1>2, <1>3
<1>5. Null(a - b)
  BY <1>4, NullSum
<1>6. a - b = i * i - d * (y * y)
  BY <1>3
<1>7. Null(y)
  BY <1>2, <1>5, <1>6, NoRoot
<1>8. PICK c \in Int : c = (d * y) * y
  OBVIOUS
<1>9. Null(c)
  <2>1. d * y \in Int
    OBVIOUS
  <2> QED
    BY <1>7, <1>8, <2>1, NullTimes
<1>10. b - c = 1
  BY <1>3, <1>8
<1>11. Null(b - c)
  BY <1>4, <1>9, NullSum
<1> QED
  BY <1>10, <1>11, SmallNotNull

\* The square of the abscissa, as ValidPoint computes it.
XSquared(y) ==
  Multiply(Subtract(Multiply(y, y), 1),
           Exponentiate(Add(Multiply(CurveD, Multiply(y, y)), 1), P - 2))

\* A point is on the curve exactly if the square of its abscissa is XSquared.
LEMMA XSquaredIs ==
  ASSUME NEW y \in Int
  PROVE  /\ XSquared(y) \in Field
         /\ \A x \in Int : CurveAt(x, y) <=> Same(x * x, XSquared(y))
<1>1. PICK d \in Int : d = CurveD /\ Same(d, d)
  BY SmallNotNull, SameItself
<1>2. PICK yy \in Int, sq \in Field : yy = y * y /\ sq = Multiply(y, y) /\ Same(sq, yy)
  <2>1. Multiply(y, y) \in Field /\ Same(Multiply(y, y), y * y)
    BY Operations DEF Same
  <2> QED
    BY <2>1
<1>3. sq \in Int /\ 1 \in Int /\ Same(1, 1)
  BY NullZero, SameItself
<1>4. PICK n \in Field : n = Subtract(sq, 1) /\ Same(n, yy - 1)
  BY <1>2, <1>3, OperationsAs
<1>5. PICK m \in Field : m = Multiply(d, sq) /\ Same(m, d * yy)
  BY <1>1, <1>2, <1>3, OperationsAs
<1>6. PICK nn \in Int, dy \in Int, e \in Int : nn = yy - 1 /\ dy = d * yy /\ e = dy + 1
  OBVIOUS
<1>7. n \in Int /\ m \in Int /\ Same(n, nn) /\ Same(m, dy)
  BY <1>4, <1>5, <1>6, NullZero
<1>8. PICK f \in Field : f = Add(m, 1) /\ Same(f, e)
  <2>1. Add(m, 1) \in Field /\ Same(Add(m, 1), dy + 1)
    BY <1>3, <1>7, OperationsAs
  <2> QED
    BY <1>6, <2>1
<1>9. f \in Int
  BY NullZero
<1>10. ~Null(f) /\ f # 0
  <2>1. ~Null(e)
    BY <1>1, <1>2, <1>6, Denominator
  <2>2. ~Null(f)
    BY <1>8, <1>9, <2>1, NullAlike
  <2> QED
    BY <2>2, NullZero
<1>11. PICK r \in Field : r = Exponentiate(f, P - 2) /\ Null(f * r - 1)
  BY <1>10, InverseIs
<1>12. r \in Int
  BY NullZero
<1>13. PICK v \in Field : v = Multiply(n, r) /\ Null(v - n * r)
  BY <1>7, <1>12, Operations
<1>14. v = XSquared(y)
  BY <1>1, <1>2, <1>4, <1>5, <1>8, <1>11, <1>13 DEF XSquared
<1>15. ASSUME NEW x \in Int PROVE CurveAt(x, y) <=> Same(x * x, v)
  <2>1. v \in Int
    BY NullZero
  <2>2. PICK xx \in Int, g \in Int, h \in Int :
          xx = x * x /\ g = ((xx - yy) + 1) + d * (xx * yy) /\ h = f * (xx - v)
    BY <1>9, <2>1
  <2>3. CurveAt(x, y) <=> Null(g)
    BY <1>1, <1>2, <2>2 DEF CurveAt
  <2>4. PICK k1 \in Int, k2 \in Int, k3 \in Int, k4 \in Int :
          k1 = f - e /\ k2 = v - n * r /\ k3 = f * r - 1 /\ k4 = n - nn
    BY <1>7, <1>9, <1>12, <2>1
  <2>5. Null(k1) /\ Null(k2) /\ Null(k3) /\ Null(k4)
    BY <1>7, <1>8, <1>11, <1>13, <2>4 DEF Same
  <2>6. h - g = (xx * k1 + (0 - f) * k2 + (0 - n) * k3) - k4
    BY <1>6, <1>7, <1>9, <1>12, <2>1, <2>2, <2>4
  <2>7. PICK a \in Int, b \in Int, c \in Int : a = xx /\ b = 0 - f /\ c = 0 - n
    BY <1>7, <1>9
  <2>8. PICK s \in Int : s = a * k1 + b * k2 + c * k3
    OBVIOUS
  <2>9. Null(s)
    BY <2>5, <2>8, Combined
  <2>10. Null(s - k4)
    BY <2>5, <2>9, NullSum
  <2>11. Same(h, g)
    BY <2>6, <2>7, <2>8, <2>10 DEF Same
  <2>12. Null(h) <=> Null(g)
    BY <2>11, NullAlike
  <2>13. PICK o \in Int : o = xx - v
    BY <2>1
  <2>14. Null(h) <=> Null(o)
    BY <1>9, <1>10, <2>2, <2>13, NullTimes, Domain
  <2> QED
    BY <2>2, <2>3, <2>12, <2>13, <2>14 DEF Same
<1> QED
  BY <1>14, <1>15

-----------------------------------------------------------------------------
(* Bytes.                                                                  *)

\* A byte of an encoded point.
Byte == 0..(ByteSize - 1)

LEMMA PositivePower ==
  ASSUME NEW b \in Nat, b > 0
  PROVE  \A n \in Nat : Power(b, n) \in Nat /\ Power(b, n) > 0
                        /\ Power(b, n + 1) = Power(b, n) * b
<1>0. b \in Int
  OBVIOUS
<1> DEFINE T == {n \in Nat : Power(b, n) \in Nat /\ Power(b, n) > 0}
<1>1. 0 \in T
  BY <1>0, PowerBasics
<1>2. ASSUME NEW n \in Nat, n \in T PROVE n + 1 \in T
  <2>1. PICK a \in Nat : a = Power(b, n) /\ a > 0
    BY <1>2
  <2>2. Power(b, n + 1) = a * b
    BY <1>0, <2>1, PowerBasics
  <2>3. a * b \in Nat /\ a * b > 0
    BY <2>1
  <2> QED
    BY <2>2, <2>3
<1>3. \A n \in Nat : n \in T
  <2> HIDE DEF T
  <2> QED
    BY <1>1, <1>2, Induction
<1> QED
  BY <1>0, <1>3, PowerBasics

LEMMA Sizes ==
  /\ ByteSize \in Nat /\ ByteSize > 1 /\ PointSize \in Nat /\ PointSize > 0
  /\ Half \in Nat /\ Half > 0 /\ P <= Half
  /\ Power(ByteSize, PointSize) \in Nat /\ Power(ByteSize, PointSize) = Half + Half
  /\ Order \in Nat /\ Order <= Half + Half
<1>1. /\ ByteSize \in Nat /\ ByteSize % 2 = 0 /\ PointSize \in Nat /\ PointSize > 0
      /\ P <= Half /\ P \in Nat /\ P > 0 /\ Order \in 1..(2 * Half)
  BY EdwardsAssumption, Modulus
<1>2. PICK n \in Nat : PointSize = n + 1
  <2>1. PointSize - 1 \in Nat /\ PointSize = (PointSize - 1) + 1
    BY <1>1
  <2> QED
    BY <2>1
<1>3. PICK h \in Nat : ByteSize = h + h
  BY <1>1
<1>4. PICK a \in Int : a = Power(ByteSize, n) /\ Power(ByteSize, PointSize) = a * ByteSize
  <2>1. ByteSize \in Int
    BY <1>1
  <2> QED
    BY <1>2, <2>1, PowerBasics
<1>5. PICK w \in Int : w = a * h /\ Power(ByteSize, PointSize) = w + w
  BY <1>3, <1>4
<1>6. Half = w
  BY <1>5 DEF Half
<1>7. w > 0
  BY <1>1, <1>6
<1>8. h > 0
  <2>1. CASE h = 0
    BY <1>5, <1>7, <2>1
  <2> QED
    BY <2>1
<1> QED
  BY <1>1, <1>3, <1>5, <1>6, <1>7, <1>8

\* A quotient, and the one by the next power.
Stepped(q, n, a, b, c) == q = (n \div c) * b + ((n \div a) % b)

LEMMA QuotientStep ==
  ASSUME NEW n \in Nat, NEW a \in Nat, a > 0, NEW b \in Nat, b > 0
  PROVE  /\ n \div a \in Nat /\ n \div (a * b) \in Nat
         /\ n \div (a * b) = (n \div a) \div b
         /\ n \div a = (n \div (a * b)) * b + ((n \div a) % b)
         /\ (n \div a) % b \in 0..(b - 1)
         /\ Stepped(n \div a, n, a, b, a * b)
<1>0. n \in Int /\ a \in Int /\ b \in Int
  OBVIOUS
<1>1. PICK q \in Int, r \in 0..(a - 1) : q = n \div a /\ r = n % a /\ n = a * q + r
  BY <1>0, Quotient
<1>2. PICK p \in Int, s \in 0..(b - 1) : p = q \div b /\ s = q % b /\ q = b * p + s
  BY <1>0, Quotient
<1>3. PICK m \in Int, t \in Int : m = a * b /\ t = a * s + r
  OBVIOUS
<1>4. m > 0 /\ 0 <= t /\ t < m
  <2>1. m > 0
    BY <1>3
  <2>2. PICK u \in Nat : u = s
    OBVIOUS
  <2>3. PICK c \in Int : c = a * u
    OBVIOUS
  <2>4. c >= 0
    BY <2>2, <2>3
  <2>5. c <= a * b - a
    <3>1. PICK v \in Nat : v = (b - 1) - u
      <4>1. (b - 1) - u \in Nat
        BY <2>2
      <4> QED
        BY <4>1
    <3>2. a * v >= 0
      BY <3>1
    <3>3. a * b - a - c = a * v
      BY <2>3, <3>1
    <3> QED
      BY <3>2, <3>3
  <2> QED
    BY <1>3, <2>1, <2>2, <2>3, <2>4, <2>5
<1>5. n = m * p + t
  <2>1. n = a * (b * p + s) + r
    BY <1>1, <1>2
  <2>2. s \in Int /\ r \in Int
    OBVIOUS
  <2> QED
    BY <1>3, <2>1, <2>2
<1>6. p = n \div m
  BY <1>0, <1>4, <1>5, OneQuotient
<1>7. q >= 0 /\ p >= 0
  <2>1. q >= 0
    <3>1. CASE q <= 0 - 1
      <4>1. a * q <= 0 - a
        <5>1. a * (0 - 1 - q) >= 0
          BY <3>1
        <5>2. a * (0 - 1 - q) = 0 - a - a * q
          OBVIOUS
        <5> QED
          BY <5>1, <5>2
      <4> QED
        BY <1>1, <4>1
    <3> QED
      BY <3>1
  <2>2. p >= 0
    <3>1. CASE p <= 0 - 1
      <4>1. b * p <= 0 - b
        <5>1. b * (0 - 1 - p) >= 0
          BY <3>1
        <5>2. b * (0 - 1 - p) = 0 - b - b * p
          OBVIOUS
        <5> QED
          BY <5>1, <5>2
      <4> QED
        BY <1>2, <2>1, <4>1
    <3> QED
      BY <3>1
  <2> QED
    BY <2>1, <2>2
<1>8. n \div a = p * b + s /\ p = n \div (a * b) /\ s = (n \div a) % b
  BY <1>1, <1>2, <1>3, <1>6
<1>9. Stepped(n \div a, n, a, b, a * b)
  BY <1>8 DEF Stepped
<1> QED
  BY <1>1, <1>2, <1>3, <1>6, <1>7, <1>9

\* The partial sums of LittleInteger.
Summed(g, bytes) ==
  /\ g \in [0..Len(bytes) -> Nat] /\ g[0] = 0
  /\ \A i \in 1..Len(bytes) : g[i] = g[i - 1] * ByteSize + bytes[Len(bytes) - i + 1]
  /\ LittleInteger(bytes) = g[Len(bytes)]

LEMMA LittleSums ==
  ASSUME NEW bytes \in Seq(Byte)
  PROVE  \E g : Summed(g, bytes)
<1> DEFINE n == Len(bytes)
           step == [x \in Nat \X (1..n) |-> x[1] * ByteSize + bytes[n - x[2] + 1]]
           number == CHOOSE g : g = [i \in 0..n |->
                       IF i = 0 THEN 0 ELSE g[i - 1] * ByteSize + bytes[n - i + 1]]
<1>1. n \in Nat
  OBVIOUS
<1>2. ASSUME NEW i \in 1..n PROVE bytes[n - i + 1] \in Nat
  <2>1. n - i + 1 \in 1..n
    BY <1>1
  <2>2. bytes[n - i + 1] \in Byte
    <3> HIDE DEF Byte
    <3> QED
      BY <2>1
  <2> QED
    BY <2>2, Sizes DEF Byte
<1> HIDE DEF n
<1>3. step \in [Nat \X (1..n) -> Nat]
  <2>1. ASSUME NEW x \in Nat \X (1..n) PROVE x[1] * ByteSize + bytes[n - x[2] + 1] \in Nat
    <3>1. x[1] \in Nat /\ x[2] \in 1..n
      OBVIOUS
    <3>2. PICK a \in Nat, b \in Nat, c \in Nat :
            a = x[1] /\ b = bytes[n - x[2] + 1] /\ c = ByteSize
      BY <1>2, <3>1, Sizes
    <3>3. a * c + b \in Nat
      OBVIOUS
    <3> QED
      BY <3>2, <3>3
  <2> QED
    BY <2>1
<1>4. PICK f : Recursion(f, Nat, n, 0, step)
  <2>1. 0 \in Nat
    OBVIOUS
  <2> HIDE DEF step
  <2> QED
    BY <1>1, <1>3, <2>1, Recurs
<1>5. f \in [0..n -> Nat] /\ f[0] = 0
  BY <1>4 DEF Recursion
<1>6. ASSUME NEW i \in 1..n PROVE f[i] = f[i - 1] * ByteSize + bytes[n - i + 1]
  <2>1. i - 1 \in 0..n
    BY <1>1
  <2>2. f[i - 1] \in Nat
    BY <1>5, <2>1
  <2>3. <<f[i - 1], i>> \in Nat \X (1..n)
    BY <2>2
  <2>4. f[i] = step[<<f[i - 1], i>>]
    BY <1>4 DEF Recursion
  <2>5. PICK x : x = <<f[i - 1], i>>
    OBVIOUS
  <2>6. x \in Nat \X (1..n) /\ x[1] = f[i - 1] /\ x[2] = i
    BY <2>3, <2>5
  <2>7. step[x] = x[1] * ByteSize + bytes[n - x[2] + 1]
    BY <2>6
  <2> HIDE DEF step
  <2> QED
    BY <2>4, <2>5, <2>6, <2>7
<1>7. f = [i \in 0..n |-> IF i = 0 THEN 0 ELSE f[i - 1] * ByteSize + bytes[n - i + 1]]
  <2>1. ASSUME NEW i \in 0..n
        PROVE  f[i] = IF i = 0 THEN 0 ELSE f[i - 1] * ByteSize + bytes[n - i + 1]
    <3>1. CASE i = 0
      BY <1>5, <3>1
    <3>2. CASE i # 0
      <4>1. i \in 1..n
        BY <1>1, <3>2
      <4> QED
        BY <1>6, <3>2, <4>1
    <3> QED
      BY <3>1, <3>2
  <2> QED
    BY <1>5, <2>1
<1>8. number = [i \in 0..n |-> IF i = 0 THEN 0 ELSE number[i - 1] * ByteSize + bytes[n - i + 1]]
  BY <1>7
<1>9. LittleInteger(bytes) = number[n]
  BY DEF LittleInteger, n
<1> HIDE DEF number
<1>10. Follows(number, n, 0, step)
  <2>1. 0 \in 0..n
    BY <1>1
  <2>2. number[0] = 0
    BY <1>8, <2>1
  <2> DEFINE T == {m \in Nat : m <= n => number[m] = f[m]}
  <2>3. 0 \in T
    BY <1>5, <2>2
  <2>4. ASSUME NEW i \in 1..n PROVE number[i] = number[i - 1] * ByteSize + bytes[n - i + 1]
    <3>1. i \in 0..n /\ i # 0
      BY <1>1
    <3> QED
      BY <1>8, <3>1
  <2>5. ASSUME NEW m \in Nat, m \in T PROVE m + 1 \in T
    <3>1. CASE m + 1 <= n
      <4>1. m <= n /\ m + 1 \in 1..n /\ (m + 1) - 1 = m
        BY <1>1, <3>1
      <4>2. number[m] = f[m]
        BY <2>5, <4>1
      <4>3. /\ number[m + 1] = number[m] * ByteSize + bytes[n - (m + 1) + 1]
            /\ f[m + 1] = f[m] * ByteSize + bytes[n - (m + 1) + 1]
        BY <1>6, <2>4, <4>1
      <4> QED
        BY <4>2, <4>3
    <3>2. CASE ~(m + 1 <= n)
      BY <3>2
    <3> QED
      BY <3>1, <3>2
  <2>6. \A m \in Nat : m \in T
    <3> HIDE DEF T
    <3> QED
      BY <2>3, <2>5, Induction
  <2>7. \A m \in 0..n : number[m] = f[m]
    BY <1>1, <2>6
  <2>8. \A i \in 1..n : i \in 0..n /\ i - 1 \in 0..n
    BY <1>1
  <2>9. \A i \in 1..n : number[i] = step[<<number[i - 1], i>>]
    <3>1. \A i \in 1..n : f[i] = step[<<f[i - 1], i>>]
      BY <1>4 DEF Recursion
    <3> HIDE DEF step
    <3> QED
      BY <2>7, <2>8, <3>1
  <2> QED
    BY <2>2, <2>9 DEF Follows
<1>11. \A m \in 0..n : number[m] = f[m]
  <2>1. Follows(f, n, 0, step)
    BY <1>4 DEF Recursion, Follows
  <2> HIDE DEF step
  <2> QED
    BY <1>1, <1>10, <2>1, OneRecursion
<1>12. LittleInteger(bytes) = f[n]
  BY <1>1, <1>9, <1>11
<1> QED
  BY <1>5, <1>6, <1>12 DEF Summed, n

LEMMA BytesAre ==
  ASSUME NEW bytes \in Seq(Byte), NEW i \in 1..Len(bytes)
  PROVE  bytes[i] \in Nat /\ bytes[i] < ByteSize
<1>1. bytes[i] \in Byte
  <2> HIDE DEF Byte
  <2> QED
    OBVIOUS
<1> QED
  BY <1>1, Sizes DEF Byte

\* The bytes of an integer, and the integer they are.
\* A number's bytes are what it leaves when divided by their powers.
LEMMA LittleDigits ==
  ASSUME NEW bytes \in Seq(Byte)
  PROVE  /\ LittleInteger(bytes) \in Nat
         /\ LittleInteger(bytes) < Power(ByteSize, Len(bytes))
         /\ \A i \in 1..Len(bytes) :
              bytes[i] = (LittleInteger(bytes) \div Power(ByteSize, i - 1)) % ByteSize
<1>1. PICK g : Summed(g, bytes)
  BY LittleSums
<1>2. PICK n \in Nat, w \in Nat : n = Len(bytes) /\ w = ByteSize /\ w > 0
  BY Sizes
<1>3. /\ g \in [0..n -> Nat] /\ g[0] = 0 /\ LittleInteger(bytes) = g[n]
      /\ \A i \in 1..n : g[i] = g[i - 1] * w + bytes[n - i + 1]
  BY <1>1, <1>2 DEF Summed
<1>4. \A i \in 1..n : bytes[i] \in Nat /\ bytes[i] < w
  BY <1>2, BytesAre
<1>5. ASSUME NEW k \in Nat, k + 1 <= n
      PROVE  /\ k \in 0..n /\ k + 1 \in 0..n /\ n - k \in 1..n /\ g[k] \in Nat /\ g[k + 1] \in Nat
             /\ bytes[n - k] \in Nat /\ bytes[n - k] < w
             /\ g[k + 1] = g[k] * w + bytes[n - k]
  <2>1. /\ k \in 0..n /\ k + 1 \in 0..n /\ k + 1 \in 1..n /\ (k + 1) - 1 = k
        /\ n - k \in 1..n /\ n - (k + 1) + 1 = n - k
    BY <1>5
  <2>2. g[k + 1] = g[k] * w + bytes[n - k]
    BY <1>3, <2>1
  <2>3. bytes[n - k] \in Nat /\ bytes[n - k] < w
    BY <1>4, <2>1
  <2>4. g[k] \in Nat /\ g[k + 1] \in Nat
    BY <1>3, <2>1
  <2> QED
    BY <2>1, <2>2, <2>3, <2>4
<1> DEFINE T == {k \in Nat : k <= n => g[k] < Power(w, k)}
<1>6. 0 \in T
  <2>1. Power(w, 0) = 1
    BY PowerBasics
  <2> QED
    BY <1>3, <2>1
<1>7. ASSUME NEW k \in Nat, k \in T PROVE k + 1 \in T
  <2>1. CASE k + 1 <= n
    <3>1. PICK a \in Nat, b \in Nat, c \in Nat :
            /\ a = g[k] /\ b = bytes[n - k] /\ c = g[k + 1] /\ b < w /\ c = a * w + b
      BY <1>5, <2>1
    <3>2. PICK p \in Nat : p = Power(w, k) /\ Power(w, k + 1) = p * w
      BY <1>2, PositivePower
    <3>3. a < p
      BY <1>7, <2>1, <3>1, <3>2
    <3>4. c < p * w
      <4>1. PICK o \in Nat : p = a + 1 + o
        <5>1. p - a - 1 \in Nat /\ p = a + 1 + (p - a - 1)
          BY <3>3
        <5> QED
          BY <5>1
      <4>2. p * w = a * w + w + o * w /\ o * w >= 0
        BY <1>2, <4>1
      <4>3. PICK aw \in Int, ow \in Int : aw = a * w /\ ow = o * w
        OBVIOUS
      <4>4. c = aw + b /\ p * w = aw + w + ow /\ ow >= 0 /\ b < w
        BY <3>1, <4>2, <4>3
      <4> QED
        BY <4>4
    <3>5. g[k + 1] < Power(w, k + 1)
      BY <3>1, <3>2, <3>4
    <3> QED
      BY <3>5
  <2>2. CASE ~(k + 1 <= n)
    BY <2>2
  <2> QED
    BY <2>1, <2>2
<1>8. \A k \in Nat : k \in T
  <2> HIDE DEF T
  <2> QED
    BY <1>6, <1>7, Induction
<1>9. g[n] \in Nat /\ g[n] < Power(w, n)
  <2>1. n \in 0..n
    OBVIOUS
  <2> QED
    BY <1>3, <1>8, <2>1
<1>10. PICK m \in Nat : m = g[n]
  BY <1>9
<1> DEFINE U == {k \in Nat : k <= n => g[n - k] = m \div Power(w, k)}
<1>11. 0 \in U
  <2>1. Power(w, 0) = 1 /\ n - 0 = n /\ m \div 1 = m
    BY PowerBasics
  <2> QED
    BY <1>10, <2>1
<1>12. ASSUME NEW k \in Nat, k + 1 <= n, g[n - k] = m \div Power(w, k)
       PROVE  /\ g[n - (k + 1)] = m \div Power(w, k + 1)
              /\ bytes[k + 1] = (m \div Power(w, k)) % w
  <2>1. PICK j \in Nat : j = n - (k + 1) /\ j + 1 <= n /\ j + 1 = n - k /\ n - j = k + 1
    <3>1. n - (k + 1) \in Nat /\ n - (k + 1) + 1 <= n
      BY <1>12
    <3> QED
      BY <3>1
  <2>2. PICK a \in Nat, b \in Nat, c \in Nat :
          /\ a = g[j] /\ b = bytes[n - j] /\ c = g[j + 1] /\ b < w /\ c = a * w + b
    <3>1. /\ g[j] \in Nat /\ g[j + 1] \in Nat /\ bytes[n - j] \in Nat
          /\ bytes[n - j] < w /\ g[j + 1] = g[j] * w + bytes[n - j]
      BY <1>5, <2>1
    <3> QED
      BY <3>1
  <2>3. PICK p \in Nat : p = Power(w, k) /\ p > 0 /\ Power(w, k + 1) = p * w
    BY <1>2, PositivePower
  <2>4. m \div (p * w) = (m \div p) \div w
    BY <1>2, <2>3, QuotientStep
  <2>5. c = m \div p
    BY <1>12, <2>1, <2>2, <2>3
  <2>6. a = c \div w /\ b = c % w
    <3>1. /\ c = w * a + b /\ c \in Int /\ w \in Int /\ a \in Int /\ b \in Int
          /\ 0 <= b /\ b < w /\ w > 0
      BY <1>2, <2>2
    <3> QED
      BY <3>1, OneQuotient
  <2>7. a = m \div Power(w, k + 1)
    BY <2>3, <2>4, <2>5, <2>6
  <2>8. b = (m \div Power(w, k)) % w
    BY <2>3, <2>5, <2>6
  <2> QED
    BY <2>1, <2>2, <2>7, <2>8
<1>13. ASSUME NEW k \in Nat, k \in U PROVE k + 1 \in U
  <2>1. CASE k + 1 <= n
    <3>1. g[n - k] = m \div Power(w, k)
      BY <1>13, <2>1
    <3>2. g[n - (k + 1)] = m \div Power(w, k + 1)
      BY <1>12, <2>1, <3>1
    <3> QED
      BY <3>2
  <2>2. CASE ~(k + 1 <= n)
    BY <2>2
  <2> QED
    BY <2>1, <2>2
<1>14. \A k \in Nat : k \in U
  <2> HIDE DEF U
  <2> QED
    BY <1>11, <1>13, Induction
<1>15. ASSUME NEW i \in 1..n PROVE bytes[i] = (m \div Power(w, i - 1)) % w
  <2>1. PICK k \in Nat : k = i - 1 /\ k + 1 <= n /\ k <= n /\ i = k + 1
    <3>1. i - 1 \in Nat /\ (i - 1) + 1 <= n /\ i - 1 <= n /\ i = (i - 1) + 1
      OBVIOUS
    <3> QED
      BY <3>1
  <2>2. g[n - k] = m \div Power(w, k)
    BY <1>14, <2>1
  <2>3. bytes[k + 1] = (m \div Power(w, k)) % w
    BY <1>12, <2>1, <2>2
  <2> QED
    BY <2>1, <2>3
<1> QED
  BY <1>2, <1>3, <1>9, <1>10, <1>15

LEMMA QuotientStepped ==
  ASSUME NEW n \in Nat, NEW a \in Nat, a > 0, NEW b \in Nat, b > 0, NEW c, c = a * b
  PROVE  Stepped(n \div a, n, a, b, c)
<1>1. Stepped(n \div a, n, a, b, a * b)
  BY QuotientStep
<1> QED
  BY <1>1

LEMMA LittleOf ==
  ASSUME NEW bytes \in Seq(Byte), NEW m \in Nat, m < Power(ByteSize, Len(bytes)),
         \A i \in 1..Len(bytes) : bytes[i] = (m \div Power(ByteSize, i - 1)) % ByteSize
  PROVE  LittleInteger(bytes) = m
<1>1. PICK g : Summed(g, bytes)
  BY LittleSums
<1>2. PICK n \in Nat, w \in Nat : n = Len(bytes) /\ w = ByteSize /\ w > 0
  BY Sizes
<1>3. /\ g \in [0..n -> Nat] /\ g[0] = 0 /\ LittleInteger(bytes) = g[n]
      /\ \A i \in 1..n : g[i] = g[i - 1] * w + bytes[n - i + 1]
  BY <1>1, <1>2 DEF Summed
<1>4. m < Power(w, n) /\ \A i \in 1..n : bytes[i] = (m \div Power(w, i - 1)) % w
  BY <1>2
<1> DEFINE T == {k \in Nat : k <= n => g[k] = m \div Power(w, n - k)}
<1>5. 0 \in T
  <2>1. PICK p \in Nat : p = Power(w, n) /\ m < p
    BY <1>2, <1>4, PositivePower
  <2>2. m = p * 0 + m /\ 0 \in Int /\ m \in Int /\ p \in Int /\ p > 0 /\ 0 <= m
    BY <2>1
  <2>3. 0 = m \div p
    BY <2>1, <2>2, OneQuotient
  <2>4. n - 0 = n
    OBVIOUS
  <2> QED
    BY <1>3, <2>1, <2>3, <2>4
<1>6. ASSUME NEW k \in Nat, k \in T PROVE k + 1 \in T
  <2>1. CASE k + 1 <= n
    <3>1. PICK j \in Nat : j = n - (k + 1) /\ n - k = j + 1
      <4>1. n - (k + 1) \in Nat /\ n - k = (n - (k + 1)) + 1
        BY <2>1
      <4> QED
        BY <4>1
    <3>2. /\ k + 1 \in 1..n /\ (k + 1) - 1 = k /\ n - (k + 1) + 1 = j + 1
          /\ j + 1 \in 1..n /\ (j + 1) - 1 = j /\ k <= n
      BY <2>1, <3>1
    <3>3. g[k + 1] = g[k] * w + bytes[j + 1] /\ bytes[j + 1] = (m \div Power(w, j)) % w
      BY <1>3, <1>4, <3>2
    <3>4. g[k] = m \div Power(w, j + 1)
      BY <1>6, <3>1, <3>2
    <3>5. PICK p \in Nat : p = Power(w, j) /\ p > 0 /\ Power(w, j + 1) = p * w
      BY <1>2, PositivePower
    <3>6. PICK c : c = p * w
      OBVIOUS
    <3>7. p \in Nat /\ p > 0 /\ w \in Nat /\ w > 0 /\ m \in Nat /\ c = p * w
      BY <1>2, <3>5, <3>6
    <3>8. Stepped(m \div p, m, p, w, c)
      BY <3>7, QuotientStepped
    <3>9. g[k + 1] = m \div p
      <4>1. g[k + 1] = (m \div c) * w + ((m \div p) % w)
        BY <3>3, <3>4, <3>5, <3>6
      <4> QED
        BY <3>8, <4>1 DEF Stepped
    <3> QED
      BY <3>1, <3>5, <3>9
  <2>2. CASE ~(k + 1 <= n)
    BY <2>2
  <2> QED
    BY <2>1, <2>2
<1>7. \A k \in Nat : k \in T
  <2> HIDE DEF T
  <2> QED
    BY <1>5, <1>6, Induction
<1>8. g[n] = m \div Power(w, n - n)
  BY <1>7
<1>9. n - n = 0 /\ Power(w, 0) = 1 /\ m \div 1 = m
  BY PowerBasics
<1> QED
  BY <1>3, <1>8, <1>9

\* PointSize bytes are those of the number they are.
\* A number is that of its bytes.
LEMMA LittleBytesAre ==
  ASSUME NEW m \in Nat, m < Half + Half
  PROVE  /\ LittleBytes(m) \in Seq(Byte) /\ Len(LittleBytes(m)) = PointSize
         /\ LittleInteger(LittleBytes(m)) = m
<1>1. /\ PointSize \in Nat /\ ByteSize \in Nat /\ ByteSize > 0
      /\ Power(ByteSize, PointSize) = Half + Half
  BY Sizes
<1>2. PICK b : b = LittleBytes(m)
  OBVIOUS
<1>3. b = [i \in 1..PointSize |-> (m \div Power(ByteSize, i - 1)) % ByteSize]
  BY <1>2 DEF LittleBytes
<1>4. ASSUME NEW i \in 1..PointSize PROVE (m \div Power(ByteSize, i - 1)) % ByteSize \in Byte
  <2>1. i - 1 \in Nat
    BY <1>1
  <2>2. PICK p \in Nat : p = Power(ByteSize, i - 1) /\ p > 0
    BY <1>1, <2>1, PositivePower
  <2>3. (m \div p) % ByteSize \in 0..(ByteSize - 1)
    BY <1>1, <2>2, QuotientStep
  <2> QED
    BY <2>2, <2>3 DEF Byte
<1>5. b \in Seq(Byte) /\ Len(b) = PointSize
  <2>1. b \in [1..PointSize -> Byte]
    BY <1>3, <1>4
  <2> HIDE DEF Byte
  <2> QED
    BY <1>1, <2>1
<1>6. \A i \in 1..Len(b) : b[i] = (m \div Power(ByteSize, i - 1)) % ByteSize
  BY <1>3, <1>5
<1>7. m < Power(ByteSize, Len(b))
  BY <1>1, <1>5
<1>8. LittleInteger(b) = m
  BY <1>5, <1>6, <1>7, LittleOf
<1> QED
  BY <1>2, <1>5, <1>8

\* Bytes are those of their number.
LEMMA OfTheirNumber ==
  ASSUME NEW bytes \in Seq(Byte), Len(bytes) = PointSize
  PROVE  /\ LittleInteger(bytes) \in Nat /\ LittleInteger(bytes) < Half + Half
         /\ bytes = LittleBytes(LittleInteger(bytes))
<1>1. PointSize \in Nat /\ Power(ByteSize, PointSize) = Half + Half
  BY Sizes
<1>2. PICK m : m = LittleInteger(bytes)
  OBVIOUS
<1>3. /\ m \in Nat /\ m < Half + Half
      /\ \A i \in 1..PointSize : bytes[i] = (m \div Power(ByteSize, i - 1)) % ByteSize
  BY <1>1, <1>2, LittleDigits
<1>4. bytes = [i \in 1..PointSize |-> bytes[i]]
  <2> HIDE DEF Byte
  <2> QED
    BY <1>1
<1>5. bytes = LittleBytes(m)
  BY <1>3, <1>4 DEF LittleBytes
<1> QED
  BY <1>2, <1>3, <1>5

-----------------------------------------------------------------------------
(* Valid points.                                                           *)

\* The zero of extended coordinates is the point zero.
LEMMA IdentityIs ==
  ASSUME NEW p \in Points, NEW q, Represents(q, p)
  PROVE  Identity(q) <=> p = Zero
<1>1. PICK a \in Field, b \in Field : p[1] = a /\ p[2] = b /\ p = <<a, b>>
  BY PointsAre
<1>2. PICK x \in Field, y \in Field, z \in Field, t \in Field :
        q = Point(x, y, z, t) /\ Scaled(x, y, z, t, a, b)
  BY <1>1, ScaledRepresents
<1>3. /\ a \in Int /\ b \in Int /\ x \in Int /\ y \in Int /\ z \in Int
      /\ 0 \in Field /\ 1 \in Field /\ Null(0)
  BY NullZero
<1>4. ~Null(z) /\ Same(x, a * z) /\ Same(y, b * z)
  BY <1>2 DEF Scaled
<1>5. Identity(q) <=> x = 0 /\ y = z
  BY <1>2 DEF Identity, Point
<1>6. p = Zero <=> a = 0 /\ b = 1
  BY <1>1 DEF Zero
<1>7. ASSUME x = 0, y = z PROVE a = 0 /\ b = 1
  <2>1. PICK u \in Int, v \in Int, w \in Int : u = a * z /\ v = b * z /\ w = 1 - b
    BY <1>3
  <2>2. Null(u)
    BY <1>3, <1>4, <1>7, <2>1, NullAlike
  <2>3. Null(a)
    <3>1. u = z * a
      BY <1>3, <2>1
    <3> QED
      BY <1>3, <1>4, <2>2, <3>1, Domain
  <2>4. y - v = z * w
    BY <1>3, <1>7, <2>1
  <2>5. Null(z * w)
    BY <1>4, <2>1, <2>4 DEF Same
  <2>6. Null(w)
    BY <1>3, <1>4, <2>5, Domain
  <2>7. Null(1 - b)
    BY <2>1, <2>6
  <2>8. b = 1
    BY <1>3, <2>7, Distinct
  <2> QED
    BY <2>3, <2>8, NullInField
<1>8. ASSUME a = 0, b = 1 PROVE x = 0 /\ y = z
  <2>1. a * z = 0 /\ b * z = z
    BY <1>3, <1>8
  <2>2. Same(x, 0) /\ Same(y, z)
    BY <1>4, <2>1
  <2> QED
    BY <1>3, <2>2, SameEqual
<1> QED
  BY <1>5, <1>6, <1>7, <1>8

\* The two roots of a square.
LEMMA TwoRoots ==
  ASSUME NEW r \in Field, NEW x \in Field, Same(r * r, x * x)
  PROVE  r = x \/ r = P - x
<1>1. r \in Int /\ x \in Int /\ P \in Int
  BY NullZero, Modulus
<1>2. PICK a \in Int, b \in Int : a = r - x /\ b = r + x
  BY <1>1
<1>3. r * r - x * x = a * b
  BY <1>1, <1>2
<1>4. Null(a * b)
  BY <1>3 DEF Same
<1>5. CASE Null(a)
  <2>1. Null(r - x)
    BY <1>2, <1>5
  <2> QED
    BY <2>1, Distinct
<1>6. CASE ~Null(a)
  <2>1. Null(b)
    BY <1>4, <1>6, Domain
  <2>2. x # 0 \/ r # 0
    BY <1>2, <1>6, NullZero
  <2>3. PICK k \in Int : r + x = k * P
    BY <1>2, <2>1 DEF Null
  <2>4. r >= 0 /\ x >= 0 /\ r + x > 0 /\ r + x < P + P
    BY <1>1, <2>2, Modulus DEF Field
  <2>5. ~(k <= 0) /\ ~(k >= 2)
    BY <2>3, <2>4, Modulus
  <2>6. k = 1
    BY <2>5
  <2> QED
    BY <1>1, <2>3, <2>6
<1> QED
  BY <1>5, <1>6

LEMMA OddModulus ==
  ASSUME NEW r \in Field
  PROVE  /\ r % 2 \in 0..1
         /\ r # 0 => P - r \in Field /\ (P - r) % 2 = 1 - (r % 2)
         /\ r = 0 => r % 2 = 0
<1>1. PICK k \in Nat : P = 8 * k + 5
  BY ModulusIs
<1>2. r \in Int /\ r >= 0 /\ r < P /\ P \in Int
  BY Modulus DEF Field
<1>3. r % 2 \in 0..1 /\ (r = 0 => r % 2 = 0)
  BY <1>2
<1>4. (P - r) % 2 = 1 - (r % 2)
  <2>1. PICK c \in Int, b \in Int : b = r % 2 /\ r = 2 * c + b /\ b \in 0..1
    <3>1. r \div 2 \in Int /\ r % 2 \in Int /\ r = 2 * (r \div 2) + (r % 2) /\ r % 2 \in 0..1
      BY <1>2
    <3> QED
      BY <3>1
  <2>2. P - r = 2 * (4 * k + 2 - c) + (1 - b)
    BY <1>1, <2>1
  <2> QED
    BY <2>1, <2>2
<1>5. r # 0 => P - r \in Field
  BY <1>2 DEF Field
<1> QED
  BY <1>3, <1>4, <1>5

\* The abscissa that is decoded.
Chosen(root, sign) == IF root % 2 = sign THEN root ELSE P - root

LEMMA RootsSquare ==
  ASSUME NEW r \in Field, r # 0, NEW s, s = P - r
  PROVE  Same(s * s, r * r)
<1>1. r \in Int /\ P \in Int
  BY NullZero, Modulus
<1>2. s * s - r * r = (P - r - r) * P /\ P - r - r \in Int
  BY <1>1
<1> QED
  BY <1>2 DEF Same, Null

LEMMA Extracted ==
  ASSUME NEW y \in Field, NEW sign \in 0..1, NEW root, root = SquareRoot(XSquared(y)),
         Multiply(root, root) = XSquared(y), ~(root = 0 /\ sign = 1)
  PROVE  /\ Chosen(root, sign) \in Field /\ CurveAt(Chosen(root, sign), y)
         /\ Chosen(root, sign) % 2 = sign
<1>1. PICK v \in Field : v = XSquared(y) /\ y \in Int
  <2>1. y \in Int
    BY NullZero
  <2>2. XSquared(y) \in Field
    BY <2>1, XSquaredIs
  <2> QED
    BY <2>1, <2>2
<1>2. root \in Field /\ root \in Int /\ v \in Int
  BY <1>1, SquareRootInField, NullZero
<1>3. Same(root * root, v)
  <2>1. Multiply(root, root) \in Field /\ Same(Multiply(root, root), root * root)
    BY <1>2, Operations DEF Same
  <2>2. PICK m \in Int : m = root * root
    BY <1>2
  <2>3. Same(v, m)
    BY <1>1, <2>1, <2>2
  <2>4. Same(m, v)
    BY <1>2, <2>3, SameSwapped
  <2> QED
    BY <2>2, <2>4
<1>4. PICK x : x = Chosen(root, sign)
  OBVIOUS
<1>5. x \in Field /\ x % 2 = sign /\ (x = root \/ (root # 0 /\ x = P - root))
  <2>1. CASE root % 2 = sign
    BY <1>2, <1>4, <2>1 DEF Chosen
  <2>2. CASE root % 2 # sign
    <3>1. root # 0
      BY <2>2, OddModulus
    <3>2. x = P - root /\ x \in Field /\ x % 2 = 1 - (root % 2)
      BY <1>2, <1>4, <2>2, <3>1, OddModulus DEF Chosen
    <3>3. root % 2 \in 0..1
      BY <1>2, OddModulus
    <3>4. PICK b \in Int : b = root % 2 /\ b \in 0..1
      BY <3>3
    <3>5. 1 - b = sign
      BY <2>2, <3>4
    <3> QED
      BY <3>1, <3>2, <3>4, <3>5
  <2> QED
    BY <2>1, <2>2
<1>6. x \in Int
  BY <1>5, NullZero
<1>7. PICK xx \in Int, rr \in Int : xx = x * x /\ rr = root * root
  BY <1>2, <1>6
<1>8. Same(xx, rr)
  BY <1>2, <1>5, <1>7, RootsSquare, SameItself
<1>9. Same(xx, v)
  BY <1>2, <1>3, <1>7, <1>8, SameThrough
<1>10. CurveAt(x, y)
  BY <1>1, <1>6, <1>7, <1>9, XSquaredIs
<1> QED
  BY <1>4, <1>5, <1>10

LEMMA Extracts ==
  ASSUME NEW y \in Field, NEW x \in Field, CurveAt(x, y), NEW sign, sign = x % 2,
         NEW root, root = SquareRoot(XSquared(y))
  PROVE  /\ Multiply(root, root) = XSquared(y) /\ ~(root = 0 /\ sign = 1)
         /\ Chosen(root, sign) = x
<1>1. x \in Int /\ y \in Int
  BY NullZero
<1>2. PICK v \in Field : v = XSquared(y) /\ Same(x * x, v)
  BY <1>1, XSquaredIs
<1>3. Multiply(root, root) = v
  BY <1>1, <1>2, SquareRootIs
<1>4. root \in Field /\ root \in Int /\ v \in Int
  BY <1>2, SquareRootInField, NullZero
<1>5. PICK xx \in Int, rr \in Int : xx = x * x /\ rr = root * root
  BY <1>1, <1>4
<1>6. Same(v, rr)
  BY <1>3, <1>4, <1>5, Operations DEF Same
<1>7. Same(rr, xx)
  <2>1. Same(xx, v)
    BY <1>2, <1>5
  <2>2. Same(xx, rr)
    BY <1>4, <1>6, <2>1, SameThrough
  <2> QED
    BY <2>2, SameSwapped
<1>8. root = x \/ root = P - x
  BY <1>4, <1>5, <1>7, TwoRoots
<1>9. x % 2 \in 0..1 /\ (x # 0 => P - x \in Field /\ (P - x) % 2 = 1 - (x % 2)) /\ (x = 0 => x % 2 = 0)
  BY OddModulus
<1>10. P \in Int /\ P > 0 /\ x < P /\ root < P
  BY <1>1, <1>4, Modulus DEF Field
<1>11. CASE root = x
  <2>1. ~(root = 0 /\ sign = 1)
    BY <1>9, <1>11
  <2>2. Chosen(root, sign) = x
    BY <1>11 DEF Chosen
  <2> QED
    BY <1>2, <1>3, <2>1, <2>2
<1>12. CASE root = P - x
  <2>1. x # 0
    BY <1>1, <1>10, <1>12
  <2>2. root # 0
    BY <1>1, <1>10, <1>12
  <2>3. PICK b \in Int : b = x % 2 /\ root % 2 = 1 - b
    BY <1>9, <1>12, <2>1
  <2>4. root % 2 # sign
    <3>1. 1 - b # b
      OBVIOUS
    <3> QED
      BY <2>3, <3>1
  <2>5. P - root = x
    BY <1>1, <1>10, <1>12
  <2> QED
    BY <1>2, <1>3, <2>2, <2>4, <2>5 DEF Chosen
<1> QED
  BY <1>8, <1>11, <1>12

\* The highest bit of the encoding of a point, and the others.
LEMMA HalfSplit ==
  ASSUME NEW n \in Nat, n < Half + Half
  PROVE  /\ n \div Half \in 0..1 /\ n % Half \in Nat /\ n % Half < Half
         /\ n = (n % Half) + (n \div Half) * Half
<1>1. PICK h \in Nat : h = Half /\ h > 0
  BY Sizes
<1>2. n < h + h /\ n \in Int /\ h \in Int
  BY <1>1
<1>3. PICK q \in Int, r \in 0..(h - 1) : q = n \div h /\ r = n % h /\ n = h * q + r
  BY <1>1, <1>2, Quotient
<1>4. ~(q >= 2) /\ ~(q <= 0 - 1)
  BY <1>1, <1>2, <1>3
<1>5. q = 0 \/ q = 1
  BY <1>4
<1>6. n = r + q * h
  BY <1>3
<1> QED
  BY <1>1, <1>3, <1>5, <1>6

LEMMA HalfJoin ==
  ASSUME NEW y \in Nat, y < Half, NEW b \in 0..1
  PROVE  /\ y + b * Half \in Nat /\ y + b * Half < Half + Half
         /\ (y + b * Half) \div Half = b /\ (y + b * Half) % Half = y
<1>1. PICK h \in Nat : h = Half /\ h > 0
  BY Sizes
<1>2. b = 0 \/ b = 1
  OBVIOUS
<1>3. PICK n \in Nat : n = y + b * h /\ n < h + h
  <2>1. b * h = 0 \/ b * h = h
    BY <1>1, <1>2
  <2>2. y + b * h \in Nat /\ y + b * h < h + h
    BY <1>1, <2>1
  <2> QED
    BY <2>2
<1>4. b = n \div h /\ y = n % h
  <2>1. /\ n \in Int /\ h \in Int /\ h > 0 /\ b \in Int /\ y \in Int /\ 0 <= y /\ y < h
        /\ n = h * b + y
    BY <1>1, <1>3
  <2> QED
    BY <2>1, OneQuotient
<1> QED
  BY <1>1, <1>3, <1>4

LEMMA PointBytesAre ==
  ASSUME NEW p \in Points
  PROVE  /\ p[2] + (p[1] % 2) * Half \in Nat
         /\ p[2] + (p[1] % 2) * Half < Half + Half
         /\ PointBytes(p) = LittleBytes(p[2] + (p[1] % 2) * Half)
         /\ PointBytes(p) \in Seq(Byte) /\ Len(PointBytes(p)) = PointSize
         /\ LittleInteger(PointBytes(p)) \div Half = p[1] % 2
         /\ LittleInteger(PointBytes(p)) % Half = p[2]
<1>1. PICK x \in Field, y \in Field : p[1] = x /\ p[2] = y
  BY PointsAre
<1>2. y \in Nat /\ y < Half
  BY Sizes, Modulus DEF Field
<1>3. PICK b \in 0..1 : b = x % 2
  BY OddModulus
<1>4. PICK n \in Nat : n = y + b * Half /\ n < Half + Half /\ n \div Half = b /\ n % Half = y
  BY <1>2, HalfJoin
<1>5. PointBytes(p) = LittleBytes(n)
  BY <1>1, <1>3, <1>4 DEF PointBytes
<1>6. /\ LittleBytes(n) \in Seq(Byte) /\ Len(LittleBytes(n)) = PointSize
      /\ LittleInteger(LittleBytes(n)) = n
  BY <1>4, LittleBytesAre
<1>7. n = p[2] + (p[1] % 2) * Half
  BY <1>1, <1>3, <1>4
<1> QED
  BY <1>1, <1>3, <1>4, <1>5, <1>6, <1>7

LEMMA ValidPointUnfolded ==
  ASSUME NEW bytes, Len(bytes) = PointSize, NEW allow \in BOOLEAN, NEW n, n = LittleInteger(bytes),
         NEW sign, sign = n \div Half, NEW y, y = n % Half,
         NEW root, root = SquareRoot(XSquared(y)),
         NEW q, q = Affine(Chosen(root, sign), y)
  PROVE  ValidPoint(bytes, allow) <=>
           /\ y < P /\ Multiply(root, root) = XSquared(y) /\ ~(root = 0 /\ sign = 1)
           /\ Identity(q) => allow
           /\ Identity(ScalarMultiply(q, Order))
<1>1. XSquared(y) = Multiply(Subtract(Multiply(y, y), 1),
                      Exponentiate(Add(Multiply(CurveD, Multiply(y, y)), 1), P - 2))
  BY DEF XSquared
<1> QED
  BY ONLY <1>1, Len(bytes) = PointSize, n = LittleInteger(bytes), sign = n \div Half,
     y = n % Half, root = SquareRoot(XSquared(y)), q = Affine(Chosen(root, sign), y)
     DEF ValidPoint, CanonicalY, Chosen

\* The bytes are the encoding of p, and p is in the prime subgroup.
Encodes(bytes, p, allow) ==
  /\ bytes = PointBytes(p) /\ (p = Zero => allow) /\ Multiple(p, Order) = Zero

LEMMA PointChecked ==
  ASSUME NEW p \in Points, NEW q, Represents(q, p), NEW allow \in BOOLEAN
  PROVE  ((Identity(q) => allow) /\ Identity(ScalarMultiply(q, Order)))
           <=> ((p = Zero => allow) /\ Multiple(p, Order) = Zero)
<1>1. Identity(q) <=> p = Zero
  BY IdentityIs
<1>2. PICK w \in Points : w = Multiple(p, Order) /\ Represents(ScalarMultiply(q, Order), w)
  BY Sizes, MultipleBasics, ScalarMultiplyIs
<1>3. Identity(ScalarMultiply(q, Order)) <=> w = Zero
  BY <1>2, IdentityIs
<1> QED
  BY <1>1, <1>2, <1>3

\* validate_point takes exactly the encodings of the points of the prime
\* subgroup, of zero only where it is allowed.
THEOREM ValidPointIs ==
  ASSUME NEW bytes \in Seq(Byte), Len(bytes) = PointSize, NEW allow \in BOOLEAN
  PROVE  ValidPoint(bytes, allow) <=> \E p \in Points : Encodes(bytes, p, allow)
<1>1. PICK n \in Nat : n = LittleInteger(bytes) /\ n < Half + Half /\ bytes = LittleBytes(n)
  BY OfTheirNumber
<1>2. PICK sign \in 0..1, y \in Nat :
        sign = n \div Half /\ y = n % Half /\ y < Half /\ n = y + sign * Half
  BY <1>1, HalfSplit
<1>3. PICK root, q : root = SquareRoot(XSquared(y)) /\ q = Affine(Chosen(root, sign), y)
  OBVIOUS
<1>4. ValidPoint(bytes, allow) <=>
        /\ y < P /\ Multiply(root, root) = XSquared(y) /\ ~(root = 0 /\ sign = 1)
        /\ Identity(q) => allow
        /\ Identity(ScalarMultiply(q, Order))
  <2>1. /\ Len(bytes) = PointSize /\ n = LittleInteger(bytes) /\ sign = n \div Half
        /\ y = n % Half /\ root = SquareRoot(XSquared(y)) /\ q = Affine(Chosen(root, sign), y)
    BY <1>1, <1>2, <1>3
  <2> QED
    BY <2>1, ValidPointUnfolded
<1>5. ASSUME ValidPoint(bytes, allow) PROVE \E p \in Points : Encodes(bytes, p, allow)
  <2>1. y \in Field
    BY <1>4, <1>5, Modulus DEF Field
  <2>2. PICK x \in Field : x = Chosen(root, sign) /\ CurveAt(x, y) /\ x % 2 = sign
    BY <1>3, <1>4, <1>5, <2>1, Extracted
  <2>3. PICK p \in Points : p = <<x, y>>
    BY <2>1, <2>2, PointIs
  <2>4. p[1] = x /\ p[2] = y
    BY <2>3
  <2>5. Represents(q, p)
    BY <1>3, <2>2, <2>4, AffineRepresents
  <2>6. (p = Zero => allow) /\ Multiple(p, Order) = Zero
    BY <1>4, <1>5, <2>5, PointChecked
  <2>7. bytes = PointBytes(p)
    BY <1>1, <1>2, <2>2, <2>4 DEF PointBytes
  <2>8. Encodes(bytes, p, allow)
    BY <2>6, <2>7 DEF Encodes
  <2> QED
    BY <2>8
<1>6. ASSUME NEW p \in Points, Encodes(bytes, p, allow) PROVE ValidPoint(bytes, allow)
  <2>1. bytes = PointBytes(p) /\ (p = Zero => allow) /\ Multiple(p, Order) = Zero
    BY <1>6 DEF Encodes
  <2>2. sign = p[1] % 2 /\ y = p[2]
    BY <1>1, <1>2, <2>1, PointBytesAre
  <2>3. PICK x \in Field : x = p[1] /\ y \in Field /\ CurveAt(x, y) /\ y \in Int
    BY <2>2, PointsAre
  <2>4. Multiply(root, root) = XSquared(y) /\ ~(root = 0 /\ sign = 1) /\ Chosen(root, sign) = x
    BY <1>3, <2>2, <2>3, Extracts
  <2>5. Represents(q, p)
    BY <1>3, <2>2, <2>3, <2>4, AffineRepresents
  <2>6. (Identity(q) => allow) /\ Identity(ScalarMultiply(q, Order))
    BY <2>1, <2>5, PointChecked
  <2>7. y < P
    BY <2>3, Modulus DEF Field
  <2> QED
    BY <1>4, <2>4, <2>6, <2>7
<1> QED
  BY <1>5, <1>6

\* What Meant looks for.
LEMMA MeantAre ==
  ASSUME NEW bytes \in Seq(Byte), NEW head \in Seq(Byte),
         Len(head) = PointSize, head = SubSeq(bytes, 1, PointSize)
  PROVE  \A p : p \in Meant(bytes) <=>
                  p \in Points /\ p[2] = (LittleInteger(head) % Half) % P
<1>1. PICK n \in Nat : n = LittleInteger(head)
  BY OfTheirNumber
<1>2. PICK y \in Field : y = (n % Half) % P
  <2>1. n % Half \in Int
    BY Sizes
  <2> QED
    BY <2>1, Reduced
<1>3. Meant(bytes) = {p \in Field \X {y} : OnCurve(p[1], p[2])}
  BY <1>1, <1>2 DEF Meant
<1>4. ASSUME NEW p PROVE p \in Meant(bytes) <=> p \in Points /\ p[2] = y
  <2>1. p \in Field \X {y} <=> p \in Field \X Field /\ p[2] = y
    <3>1. p \in Field \X {y} => p \in Field \X Field /\ p[2] = y
      OBVIOUS
    <3>2. ASSUME p \in Field \X Field, p[2] = y PROVE p \in Field \X {y}
      <4>1. p = <<p[1], p[2]>> /\ p[1] \in Field
        BY <3>2
      <4> QED
        BY <3>2, <4>1
    <3> QED
      BY <3>1, <3>2
  <2> QED
    BY <1>3, <2>1 DEF Points
<1> QED
  BY <1>1, <1>2, <1>4

LEMMA EncodedIsMeant ==
  ASSUME NEW bytes \in Seq(Byte), NEW p \in Points, NEW head \in Seq(Byte),
         Len(head) = PointSize, head = SubSeq(bytes, 1, PointSize), head = PointBytes(p)
  PROVE  p \in Meant(bytes)
<1>1. PICK y \in Field : y = p[2]
  BY PointsAre
<1>2. LittleInteger(head) % Half = y
  BY <1>1, PointBytesAre
<1>3. y \in Int /\ y - y = 0
  BY NullZero
<1>4. y % P = y
  BY <1>3, NullZero, ReducedIs
<1> QED
  BY <1>1, <1>2, <1>4, MeantAre

-----------------------------------------------------------------------------
(* Blocks of digits.                                                       *)

\* The units of the assumption, with their digits and bytes.
Units(v, d, b) == (v = 2 /\ d = 8 /\ b = 16) \/ (v = 4 /\ d = 64 /\ b = 256)

LEMMA UnitsAre == Units(UnitValues, DigitValues, ByteValues)
BY Base64Assumption DEF Units, DigitValues, ByteValues

\* The j-th digit and the j-th byte of a block.
DigitOf(bits, j, d) ==
  CASE j = 1 -> bits \div (d * d * d)
    [] j = 2 -> (bits \div (d * d)) % d
    [] j = 3 -> (bits \div d) % d
    [] j = 4 -> bits % d

ByteOf(bits, j, b) ==
  CASE j = 1 -> bits \div (b * b)
    [] j = 2 -> (bits \div b) % b
    [] j = 3 -> bits % b

LEMMA BytesOfBlock ==
  ASSUME NEW v, NEW d, NEW b, Units(v, d, b),
         NEW b1 \in 0..(b - 1), NEW b2 \in 0..(b - 1), NEW b3 \in 0..(b - 1),
         NEW bits, bits = (b1 * b + b2) * b + b3
  PROVE  /\ bits \in Nat /\ bits < b * b * b
         /\ ByteOf(bits, 1, b) = b1 /\ ByteOf(bits, 2, b) = b2 /\ ByteOf(bits, 3, b) = b3
         /\ b3 = 0 => DigitOf(bits, 4, d) = 0
         /\ b2 = 0 /\ b3 = 0 => DigitOf(bits, 3, d) = 0
<1>1. CASE v = 2 /\ d = 8 /\ b = 16
  <2>1. b1 \in 0..15 /\ b2 \in 0..15 /\ b3 \in 0..15 /\ bits = 256 * b1 + 16 * b2 + b3
    BY <1>1
  <2>2. /\ ByteOf(bits, 1, b) = bits \div 256 /\ ByteOf(bits, 2, b) = (bits \div 16) % 16
        /\ ByteOf(bits, 3, b) = bits % 16
        /\ DigitOf(bits, 4, d) = bits % 8 /\ DigitOf(bits, 3, d) = (bits \div 8) % 8
    BY <1>1 DEF ByteOf, DigitOf
  <2>3. /\ bits \in Nat /\ bits < 4096 /\ bits \div 256 = b1
        /\ (bits \div 16) % 16 = b2 /\ bits % 16 = b3
    BY <2>1
  <2>4. (b3 = 0 => bits % 8 = 0) /\ (b2 = 0 /\ b3 = 0 => (bits \div 8) % 8 = 0)
    BY <2>1
  <2> QED
    BY <1>1, <2>2, <2>3, <2>4
<1>2. CASE v = 4 /\ d = 64 /\ b = 256
  <2>1. /\ b1 \in 0..255 /\ b2 \in 0..255 /\ b3 \in 0..255
        /\ bits = 65536 * b1 + 256 * b2 + b3
    BY <1>2, SMT
  <2>2. /\ ByteOf(bits, 1, b) = bits \div 65536 /\ ByteOf(bits, 2, b) = (bits \div 256) % 256
        /\ ByteOf(bits, 3, b) = bits % 256
        /\ DigitOf(bits, 4, d) = bits % 64 /\ DigitOf(bits, 3, d) = (bits \div 64) % 64
    BY <1>2 DEF ByteOf, DigitOf
  <2>5. PICK h \in Int : h = 256 * b1 + b2 /\ bits = 256 * h + b3
    BY <2>1, SMT
  <2>6. bits \in Nat /\ bits < 16777216
    BY <2>1, SMT
  <2>7. bits \div 256 = h /\ bits % 256 = b3
    BY <2>1, <2>5, SMT
  <2>8. h % 256 = b2
    BY <2>1, <2>5, SMT
  <2>9. bits \div 65536 = b1
    BY <2>1, SMT
  <2>3. /\ bits \in Nat /\ bits < 16777216 /\ bits \div 65536 = b1
        /\ (bits \div 256) % 256 = b2 /\ bits % 256 = b3
    BY <2>6, <2>7, <2>8, <2>9, SMT
  <2>4. (b3 = 0 => bits % 64 = 0) /\ (b2 = 0 /\ b3 = 0 => (bits \div 64) % 64 = 0)
    BY <2>1, SMT
  <2> QED
    BY <1>2, <2>2, <2>3, <2>4, SMT
<1> QED
  BY <1>1, <1>2 DEF Units

LEMMA DigitsOfBlock ==
  ASSUME NEW v, NEW d, NEW b, Units(v, d, b), NEW bits \in Nat, bits < b * b * b
  PROVE  /\ \A j \in 1..4 : DigitOf(bits, j, d) \in 0..(d - 1)
         /\ ((DigitOf(bits, 1, d) * d + DigitOf(bits, 2, d)) * d + DigitOf(bits, 3, d)) * d
              + DigitOf(bits, 4, d) = bits
<1>1. CASE v = 2 /\ d = 8 /\ b = 16
  <2>1. /\ DigitOf(bits, 1, d) = bits \div 512 /\ DigitOf(bits, 2, d) = (bits \div 64) % 8
        /\ DigitOf(bits, 4, d) = bits % 8 /\ DigitOf(bits, 3, d) = (bits \div 8) % 8
    BY <1>1 DEF DigitOf
  <2>2. bits < 4096
    BY <1>1
  <2>3. /\ bits \div 512 \in 0..7 /\ (bits \div 64) % 8 \in 0..7
        /\ (bits \div 8) % 8 \in 0..7 /\ bits % 8 \in 0..7
        /\ (((bits \div 512) * 8 + ((bits \div 64) % 8)) * 8 + ((bits \div 8) % 8)) * 8
              + (bits % 8) = bits
    BY <2>2
  <2>4. \A j \in 1..4 : j = 1 \/ j = 2 \/ j = 3 \/ j = 4
    OBVIOUS
  <2> QED
    BY <1>1, <2>1, <2>3, <2>4
<1>2. CASE v = 4 /\ d = 64 /\ b = 256
  <2>1. /\ DigitOf(bits, 1, d) = bits \div 262144 /\ DigitOf(bits, 2, d) = (bits \div 4096) % 64
        /\ DigitOf(bits, 4, d) = bits % 64 /\ DigitOf(bits, 3, d) = (bits \div 64) % 64
    BY <1>2, SMT DEF DigitOf
  <2>2. bits < 16777216
    BY <1>2, SMT
  <2>3. PICK e1 \in Int, e2 \in Int, e3 \in Int, e4 \in Int :
          /\ e1 = bits \div 262144 /\ e2 = (bits \div 4096) % 64
          /\ e3 = (bits \div 64) % 64 /\ e4 = bits % 64
    BY SMT
  <2>4. /\ e1 \in 0..63 /\ e2 \in 0..63 /\ e3 \in 0..63 /\ e4 \in 0..63
        /\ ((e1 * 64 + e2) * 64 + e3) * 64 + e4 = bits
    <3>1. PICK f \in Nat : f = bits \div 64 /\ bits = 64 * f + e4 /\ e4 \in 0..63
      BY <2>3, SMT
    <3>2. PICK g \in Nat : g = f \div 64 /\ e3 = f % 64 /\ f = 64 * g + e3 /\ e3 \in 0..63
      BY <2>3, <3>1, SMT
    <3>3. PICK h \in Nat, o \in Int : h = g \div 64 /\ o = g % 64 /\ g = 64 * h + o /\ o \in 0..63
      BY SMT
    <3>4. bits = 4096 * g + (64 * e3 + e4) /\ 64 * e3 + e4 \in 0..4095
      BY <3>1, <3>2, SMT
    <3>5. g = bits \div 4096
      BY <3>4, SMT
    <3>6. PICK l \in Int : 0 <= l /\ l < 4096 /\ l = 64 * e3 + e4 /\ bits = 4096 * g + l
      BY <3>4, SMT
    <3>10. PICK m \in Int : 0 <= m /\ m < 262144 /\ m = 4096 * o + l
      BY <3>3, <3>6, SMT
    <3>11. bits = 262144 * h + m
      BY <3>3, <3>6, <3>10, SMT
    <3>7. h = bits \div 262144
      BY <3>10, <3>11, SMT
    <3>8. e1 = h /\ e2 = o
      BY <2>3, <3>3, <3>5, <3>7, SMT
    <3>9. h \in 0..63
      BY <2>2, <3>10, <3>11, SMT
    <3> QED
      BY <3>1, <3>2, <3>3, <3>8, <3>9, SMT
  <2>5. \A j \in 1..4 : j = 1 \/ j = 2 \/ j = 3 \/ j = 4
    OBVIOUS
  <2>6. /\ e1 = DigitOf(bits, 1, d) /\ e2 = DigitOf(bits, 2, d)
        /\ e3 = DigitOf(bits, 3, d) /\ e4 = DigitOf(bits, 4, d)
    BY <2>1, <2>3, SMT
  <2>7. ((e1 * d + e2) * d + e3) * d + e4 = bits
    BY <1>2, <2>4, SMT
  <2>8. \A j \in 1..4 : DigitOf(bits, j, d) \in 0..63
    BY <2>4, <2>5, <2>6, SMT
  <2> QED
    BY <1>2, <2>6, <2>7, <2>8, SMT
<1> QED
  BY <1>1, <1>2 DEF Units

LEMMA BytesOfDigits ==
  ASSUME NEW v, NEW d, NEW b, Units(v, d, b),
         NEW d1 \in 0..(d - 1), NEW d2 \in 0..(d - 1),
         NEW d3 \in 0..(d - 1), NEW d4 \in 0..(d - 1),
         NEW bits, bits = ((d1 * d + d2) * d + d3) * d + d4
  PROVE  \A j \in 1..3 : ByteOf(bits, j, b) \in 0..(b - 1)
<1>1. CASE v = 2 /\ d = 8 /\ b = 16
  <2>1. /\ d1 \in 0..7 /\ d2 \in 0..7 /\ d3 \in 0..7 /\ d4 \in 0..7
        /\ bits = 512 * d1 + 64 * d2 + 8 * d3 + d4
    BY <1>1
  <2>2. /\ ByteOf(bits, 1, b) = bits \div 256 /\ ByteOf(bits, 2, b) = (bits \div 16) % 16
        /\ ByteOf(bits, 3, b) = bits % 16
    BY <1>1 DEF ByteOf
  <2>3. bits \div 256 \in 0..15 /\ (bits \div 16) % 16 \in 0..15 /\ bits % 16 \in 0..15
    BY <2>1
  <2>4. \A j \in 1..3 : j = 1 \/ j = 2 \/ j = 3
    OBVIOUS
  <2> QED
    BY <1>1, <2>2, <2>3, <2>4
<1>2. CASE v = 4 /\ d = 64 /\ b = 256
  <2>1. /\ d1 \in 0..63 /\ d2 \in 0..63 /\ d3 \in 0..63 /\ d4 \in 0..63
        /\ bits = 262144 * d1 + 4096 * d2 + 64 * d3 + d4
    BY <1>2, SMT
  <2>2. /\ ByteOf(bits, 1, b) = bits \div 65536 /\ ByteOf(bits, 2, b) = (bits \div 256) % 256
        /\ ByteOf(bits, 3, b) = bits % 256
    BY <1>2 DEF ByteOf
  <2>3. bits \div 65536 \in 0..255 /\ (bits \div 256) % 256 \in 0..255 /\ bits % 256 \in 0..255
    <3>1. bits \in Nat /\ bits < 16777216
      BY <2>1, SMT
    <3>2. bits \div 65536 \in 0..255
      BY <3>1, SMT
    <3>3. bits \div 256 \in Nat
      BY <3>1, SMT
    <3>4. (bits \div 256) % 256 \in 0..255 /\ bits % 256 \in 0..255
      BY <3>1, <3>3, SMT
    <3> QED
      BY ONLY <3>2, <3>4, SMT
  <2>4. \A j \in 1..3 : j = 1 \/ j = 2 \/ j = 3
    OBVIOUS
  <2> QED
    BY <1>2, <2>2, <2>3, <2>4, SMT
<1> QED
  BY <1>1, <1>2 DEF Units

\* A sequence of the blocks that is read.
Byte64 == 0..(ByteValues - 1)
Digit64 == 0..(DigitValues - 1)
Letters == {Padding, Foreign} \cup Digit64

\* Block k of a padded text: its digits, and the bits they are.
Read(padded, k, j) == IF padded[4 * k + j] = Padding THEN 0 ELSE padded[4 * k + j]

BitsOf(padded, k) ==
  ((Read(padded, k, 1) * DigitValues + Read(padded, k, 2)) * DigitValues
    + Read(padded, k, 3)) * DigitValues + Read(padded, k, 4)

\* Block k of bytes, which are read as zero beyond their end.
At(bytes, i) == IF i <= Len(bytes) THEN bytes[i] ELSE 0

WordOf(bytes, k) ==
  (At(bytes, 3 * k + 1) * ByteValues + At(bytes, 3 * k + 2)) * ByteValues + At(bytes, 3 * k + 3)

LEMMA Values ==
  /\ DigitValues \in Nat /\ ByteValues \in Nat /\ DigitValues > 1 /\ ByteValues > 1
  /\ Padding = 0 - 1 /\ Foreign = 0 - 2
BY UnitsAre DEF Units, Padding, Foreign

\* Place i of what is decoded is the j-th byte of block k.
ThreeAt(i, k, j) ==
  /\ i = 3 * k + j /\ k = (i - 1) \div 3
  /\ (i % 3 = 1 <=> j = 1) /\ (i % 3 = 2 <=> j = 2) /\ (i % 3 = 0 <=> j = 3)

LEMMA Triples ==
  ASSUME NEW n \in Nat, NEW i \in 1..(3 * n)
  PROVE  \E k \in 0..(n - 1), j \in 1..3 : ThreeAt(i, k, j)
<1>1. PICK k \in Int, r \in Int : k = (i - 1) \div 3 /\ r = (i - 1) % 3
  OBVIOUS
<1>2. i - 1 = 3 * k + r /\ r \in 0..2
  BY <1>1
<1>3. PICK j \in Int : j = r + 1
  OBVIOUS
<1>4. i = 3 * k + j /\ j \in 1..3
  BY <1>2, <1>3
<1>5. k \in 0..(n - 1)
  BY <1>4
<1>6. (i % 3 = 1 <=> j = 1) /\ (i % 3 = 2 <=> j = 2) /\ (i % 3 = 0 <=> j = 3)
  BY <1>4
<1> QED
  BY <1>1, <1>4, <1>5, <1>6 DEF ThreeAt

\* Place i of a text is the j-th of block k.
FourAt(i, k, j) ==
  /\ i = 4 * k + j /\ k = (i - 1) \div 4
  /\ (i % 4 = 1 <=> j = 1) /\ (i % 4 = 2 <=> j = 2)
  /\ (i % 4 = 3 <=> j = 3) /\ (i % 4 = 0 <=> j = 4)

LEMMA Fours ==
  ASSUME NEW n \in Nat, NEW i \in 1..(4 * n)
  PROVE  \E k \in 0..(n - 1), j \in 1..4 :
FourAt(i, k, j)
<1>1. PICK k \in Int, r \in Int : k = (i - 1) \div 4 /\ r = (i - 1) % 4
  OBVIOUS
<1>2. i - 1 = 4 * k + r /\ r \in 0..3
  BY <1>1
<1>3. PICK j \in Int : j = r + 1
  OBVIOUS
<1>4. i = 4 * k + j /\ j \in 1..4
  BY <1>2, <1>3
<1>5. k \in 0..(n - 1)
  BY <1>4
<1>6. /\ (i % 4 = 1 <=> j = 1) /\ (i % 4 = 2 <=> j = 2)
      /\ (i % 4 = 3 <=> j = 3) /\ (i % 4 = 0 <=> j = 4)
  BY <1>4
<1> QED
  BY <1>1, <1>4, <1>5, <1>6 DEF FourAt

LEMMA DecodedAt ==
  ASSUME NEW padded, NEW n \in Nat, n = Len(padded) \div 4,
         NEW i \in 1..(3 * n), NEW k \in 0..(n - 1), NEW j \in 1..3,
         ThreeAt(i, k, j)
  PROVE  /\ DecodeBlocks(padded)[i] = ByteOf(BitsOf(padded, k), j, ByteValues)
         /\ DOMAIN DecodeBlocks(padded) = 1..(3 * n)
<1> DEFINE f == [h \in 1..(3 * n) |->
     LET digit(o) == LET c == padded[4 * ((h - 1) \div 3) + o]
                     IN IF c = Padding THEN 0 ELSE c
         bits == ((digit(1) * DigitValues + digit(2)) * DigitValues
                  + digit(3)) * DigitValues + digit(4)
     IN CASE h % 3 = 1 -> bits \div (ByteValues * ByteValues)
          [] h % 3 = 2 -> (bits \div ByteValues) % ByteValues
          [] h % 3 = 0 -> bits % ByteValues]
<1>1. DecodeBlocks(padded) = f
  BY DEF DecodeBlocks
<1>2. /\ k = (i - 1) \div 3 /\ (i % 3 = 1 <=> j = 1) /\ (i % 3 = 2 <=> j = 2)
      /\ (i % 3 = 0 <=> j = 3)
  BY DEF ThreeAt
<1>3. PICK bits : bits = BitsOf(padded, k)
  OBVIOUS
<1>6. DOMAIN f = 1..(3 * n)
  OBVIOUS
<1>7. PICK q : q = (i - 1) \div 3
  OBVIOUS
<1>8. f[i] = CASE i % 3 = 1 -> BitsOf(padded, q) \div (ByteValues * ByteValues)
               [] i % 3 = 2 -> (BitsOf(padded, q) \div ByteValues) % ByteValues
               [] i % 3 = 0 -> BitsOf(padded, q) % ByteValues
  BY <1>7 DEF BitsOf, Read
<1> HIDE DEF f
<1>4. f[i] = CASE i % 3 = 1 -> bits \div (ByteValues * ByteValues)
               [] i % 3 = 2 -> (bits \div ByteValues) % ByteValues
               [] i % 3 = 0 -> bits % ByteValues
  BY <1>2, <1>3, <1>7, <1>8
<1>5. f[i] = ByteOf(bits, j, ByteValues)
  <2>1. CASE j = 1
    BY <1>2, <1>4, <2>1 DEF ByteOf
  <2>2. CASE j = 2
    BY <1>2, <1>4, <2>2 DEF ByteOf
  <2>3. CASE j = 3
    BY <1>2, <1>4, <2>3 DEF ByteOf
  <2> QED
    BY <2>1, <2>2, <2>3
<1> QED
  BY <1>1, <1>3, <1>5, <1>6

\* What a padded text holds.
Spelt == {Padding} \cup Digit64

LEMMA ReadIs ==
  ASSUME NEW padded \in Seq(Spelt), NEW n \in Nat, n = Len(padded) \div 4,
         NEW k \in 0..(n - 1), NEW j \in 1..4
  PROVE  Read(padded, k, j) \in Digit64
<1>1. PICK i \in Int : i = 4 * k + j
  OBVIOUS
<1>2. i \in 1..Len(padded)
  <2>1. PICK l \in Nat : l = Len(padded) /\ n = l \div 4
    OBVIOUS
  <2>2. 4 * n <= l
    BY <2>1
  <2> QED
    BY <1>1, <2>1, <2>2
<1>3. padded[i] \in Spelt
  <2> HIDE DEF Spelt
  <2> QED
    BY <1>2
<1>4. 0 \in Digit64
  BY Values DEF Digit64
<1> QED
  BY <1>1, <1>3, <1>4 DEF Read, Spelt

LEMMA DecodeBlocksAre ==
  ASSUME NEW padded \in Seq(Spelt), NEW n \in Nat, n = Len(padded) \div 4
  PROVE  DecodeBlocks(padded) \in Seq(Byte64) /\ Len(DecodeBlocks(padded)) = 3 * n
<1>1. PICK f : f = DecodeBlocks(padded)
  OBVIOUS
<1>2. f = [h \in 1..(3 * n) |-> f[h]]
  BY <1>1 DEF DecodeBlocks
<1>3. ASSUME NEW i \in 1..(3 * n) PROVE f[i] \in Byte64
  <2>1. PICK k \in 0..(n - 1), j \in 1..3 : ThreeAt(i, k, j)
    BY Triples
  <2>2. f[i] = ByteOf(BitsOf(padded, k), j, ByteValues)
    BY <1>1, <2>1, DecodedAt
  <2>3. PICK d1 \in Digit64, d2 \in Digit64, d3 \in Digit64, d4 \in Digit64 :
          /\ d1 = Read(padded, k, 1) /\ d2 = Read(padded, k, 2)
          /\ d3 = Read(padded, k, 3) /\ d4 = Read(padded, k, 4)
    <3>1. 1 \in 1..4 /\ 2 \in 1..4 /\ 3 \in 1..4 /\ 4 \in 1..4
      OBVIOUS
    <3> HIDE DEF Digit64
    <3> QED
      BY <3>1, ReadIs
  <2>4. PICK d, b : d = DigitValues /\ b = ByteValues
    OBVIOUS
  <2>5. Units(UnitValues, d, b)
    BY <2>4, UnitsAre
  <2>6. PICK bits : bits = ((d1 * d + d2) * d + d3) * d + d4
    OBVIOUS
  <2>7. bits = BitsOf(padded, k)
    BY <2>3, <2>4, <2>6 DEF BitsOf
  <2>8. /\ d1 \in 0..(d - 1) /\ d2 \in 0..(d - 1) /\ d3 \in 0..(d - 1) /\ d4 \in 0..(d - 1)
    BY <2>4 DEF Digit64
  <2>9. ByteOf(bits, j, b) \in 0..(b - 1)
    BY <2>5, <2>6, <2>8, BytesOfDigits
  <2> QED
    BY <2>2, <2>4, <2>7, <2>9 DEF Byte64
<1>4. f \in [1..(3 * n) -> Byte64]
  BY <1>2, <1>3
<1>5. 3 * n \in Nat
  OBVIOUS
<1>6. f \in Seq(Byte64) /\ Len(f) = 3 * n
  <2> HIDE DEF Byte64
  <2> QED
    BY <1>4, <1>5
<1> QED
  BY <1>1, <1>6

\* Where a text is padded.
Blank(n, k, j) == (j = 3 /\ 3 * k + 2 > n) \/ (j = 4 /\ 3 * k + 3 > n)

LEMMA EncodedAt ==
  ASSUME NEW bytes \in Seq(Byte64), NEW l \in Nat, l = Len(bytes),
         NEW n \in Nat, n = (l + 2) \div 3,
         NEW i \in 1..(4 * n), NEW k \in 0..(n - 1), NEW j \in 1..4,
         i = 4 * k + j
  PROVE  EncodeBlocks(bytes)[i] =
           IF Blank(l, k, j) THEN Padding ELSE DigitOf(WordOf(bytes, k), j, DigitValues)
<1> DEFINE f == LET byte(o) == IF o <= Len(bytes) THEN bytes[o] ELSE 0 IN
  [h \in 1..(4 * ((Len(bytes) + 2) \div 3)) |->
     LET block == 3 * ((h - 1) \div 4)
         bits == (byte(block + 1) * ByteValues + byte(block + 2)) * ByteValues
                 + byte(block + 3)
     IN CASE h % 4 = 1 -> bits \div (DigitValues * DigitValues * DigitValues)
          [] h % 4 = 2 -> (bits \div (DigitValues * DigitValues)) % DigitValues
          [] h % 4 = 3 -> IF block + 2 > Len(bytes) THEN Padding
                          ELSE (bits \div DigitValues) % DigitValues
          [] h % 4 = 0 -> IF block + 3 > Len(bytes) THEN Padding
                          ELSE bits % DigitValues]
<1>1. EncodeBlocks(bytes) = f
  BY DEF EncodeBlocks
<1>2. /\ k = (i - 1) \div 4 /\ (i % 4 = 1 <=> j = 1) /\ (i % 4 = 2 <=> j = 2)
      /\ (i % 4 = 3 <=> j = 3) /\ (i % 4 = 0 <=> j = 4)
  OBVIOUS
<1>3. PICK bits, block : bits = WordOf(bytes, k) /\ block = 3 * k
  OBVIOUS
<1>4. f[i] = CASE i % 4 = 1 -> bits \div (DigitValues * DigitValues * DigitValues)
               [] i % 4 = 2 -> (bits \div (DigitValues * DigitValues)) % DigitValues
               [] i % 4 = 3 -> IF block + 2 > l THEN Padding
                               ELSE (bits \div DigitValues) % DigitValues
               [] i % 4 = 0 -> IF block + 3 > l THEN Padding
                               ELSE bits % DigitValues
  BY <1>2, <1>3 DEF WordOf, At
<1>5. f[i] = IF Blank(l, k, j) THEN Padding ELSE DigitOf(bits, j, DigitValues)
  <2>1. CASE j = 1
    <3>1. PICK e : e = bits \div (DigitValues * DigitValues * DigitValues)
      OBVIOUS
    <3>2. DigitOf(bits, j, DigitValues) = e
      BY <2>1, <3>1 DEF DigitOf
    <3>3. ~Blank(l, k, j)
      BY <1>3, <2>1 DEF Blank
    <3>4. i % 4 = 1
      BY <1>2, <2>1
    <3>5. f[i] = e
      <4> HIDE DEF f
      <4> QED
        BY <1>4, <3>1, <3>4
    <3> HIDE DEF f
    <3> QED
      BY <3>2, <3>3, <3>5
  <2>2. CASE j = 2
    <3>1. PICK e : e = (bits \div (DigitValues * DigitValues)) % DigitValues
      OBVIOUS
    <3>2. DigitOf(bits, j, DigitValues) = e
      BY <2>2, <3>1 DEF DigitOf
    <3>3. ~Blank(l, k, j)
      BY <1>3, <2>2 DEF Blank
    <3>4. i % 4 = 2
      BY <1>2, <2>2
    <3>5. f[i] = e
      <4> HIDE DEF f
      <4> QED
        BY <1>4, <3>1, <3>4
    <3> HIDE DEF f
    <3> QED
      BY <3>2, <3>3, <3>5
  <2>3. CASE j = 3
    <3>1. PICK e : e = (bits \div DigitValues) % DigitValues
      OBVIOUS
    <3>2. DigitOf(bits, j, DigitValues) = e
      BY <2>3, <3>1 DEF DigitOf
    <3>3. Blank(l, k, j) <=> block + 2 > l
      BY <1>3, <2>3 DEF Blank
    <3>4. i % 4 = 3
      BY <1>2, <2>3
    <3>5. f[i] = IF block + 2 > l THEN Padding ELSE e
      <4> HIDE DEF f
      <4> QED
        BY <1>4, <3>1, <3>4
    <3> HIDE DEF f
    <3> QED
      BY <3>2, <3>3, <3>5
  <2>4. CASE j = 4
    <3>1. PICK e : e = bits % DigitValues
      OBVIOUS
    <3>2. DigitOf(bits, j, DigitValues) = e
      BY <2>4, <3>1 DEF DigitOf
    <3>3. Blank(l, k, j) <=> block + 3 > l
      BY <1>3, <2>4 DEF Blank
    <3>4. i % 4 = 0
      BY <1>2, <2>4
    <3>5. f[i] = IF block + 3 > l THEN Padding ELSE e
      <4> HIDE DEF f
      <4> QED
        BY <1>4, <3>1, <3>4
    <3> HIDE DEF f
    <3> QED
      BY <3>2, <3>3, <3>5
  <2>5. j = 1 \/ j = 2 \/ j = 3 \/ j = 4
    OBVIOUS
  <2> HIDE DEF f
  <2> QED
    BY <2>1, <2>2, <2>3, <2>4, <2>5
<1> HIDE DEF f
<1> QED
  BY <1>1, <1>3, <1>5

LEMMA AtIs ==
  ASSUME NEW bytes \in Seq(Byte64), NEW i \in Nat, i > 0
  PROVE  At(bytes, i) \in Byte64
<1>1. CASE i <= Len(bytes)
  <2>1. i \in 1..Len(bytes)
    BY <1>1
  <2>2. bytes[i] \in Byte64
    <3> HIDE DEF Byte64
    <3> QED
      BY <2>1
  <2> QED
    BY <1>1, <2>2 DEF At
<1>2. CASE ~(i <= Len(bytes))
  BY <1>2, Values DEF At, Byte64
<1> QED
  BY <1>1, <1>2

\* A block of bytes, digit by digit.
Word(bits, b1, b2, b3, b) ==
  /\ bits = (b1 * b + b2) * b + b3
  /\ b1 \in 0..(b - 1) /\ b2 \in 0..(b - 1) /\ b3 \in 0..(b - 1)

LEMMA BytesOfWord ==
  ASSUME NEW v, NEW d, NEW b, Units(v, d, b), NEW b1, NEW b2, NEW b3,
         NEW bits, Word(bits, b1, b2, b3, b)
  PROVE  /\ bits \in Nat /\ bits < b * b * b
         /\ ByteOf(bits, 1, b) = b1 /\ ByteOf(bits, 2, b) = b2 /\ ByteOf(bits, 3, b) = b3
         /\ b3 = 0 => DigitOf(bits, 4, d) = 0
         /\ b2 = 0 /\ b3 = 0 => DigitOf(bits, 3, d) = 0
<1>1. PICK c1 \in 0..(b - 1), c2 \in 0..(b - 1), c3 \in 0..(b - 1) :
        c1 = b1 /\ c2 = b2 /\ c3 = b3
  BY DEF Word
<1>2. bits = (c1 * b + c2) * b + c3
  BY <1>1 DEF Word
<1>3. /\ bits \in Nat /\ bits < b * b * b
      /\ ByteOf(bits, 1, b) = c1 /\ ByteOf(bits, 2, b) = c2 /\ ByteOf(bits, 3, b) = c3
      /\ c3 = 0 => DigitOf(bits, 4, d) = 0
      /\ c2 = 0 /\ c3 = 0 => DigitOf(bits, 3, d) = 0
  BY <1>2, BytesOfBlock
<1> QED
  BY <1>1, <1>3

\* The bits of a block are those of its digits.
Spells(w, d) ==
  ((DigitOf(w, 1, d) * d + DigitOf(w, 2, d)) * d + DigitOf(w, 3, d)) * d
    + DigitOf(w, 4, d) = w

LEMMA WordIs ==
  ASSUME NEW bytes \in Seq(Byte64), NEW k \in Nat
  PROVE  /\ \A j \in 1..4 : DigitOf(WordOf(bytes, k), j, DigitValues) \in Digit64
         /\ \A j \in 1..4 : Blank(Len(bytes), k, j) =>
                             DigitOf(WordOf(bytes, k), j, DigitValues) = 0
         /\ Spells(WordOf(bytes, k), DigitValues)
         /\ \A j \in 1..3 : ByteOf(WordOf(bytes, k), j, ByteValues) = At(bytes, 3 * k + j)
<1>11. PICK w, d, l : w = WordOf(bytes, k) /\ d = DigitValues /\ l = Len(bytes) /\ l \in Nat
  OBVIOUS
<1>1. PICK b : b = ByteValues
  OBVIOUS
<1>2. Units(UnitValues, d, b) /\ d \in Nat
  BY <1>1, <1>11, UnitsAre, Values
<1>3. PICK i1 \in Nat, i2 \in Nat, i3 \in Nat :
        /\ i1 = 3 * k + 1 /\ i2 = 3 * k + 2 /\ i3 = 3 * k + 3
        /\ i1 > 0 /\ i2 > 0 /\ i3 > 0
  <2>1. /\ 3 * k + 1 \in Nat /\ 3 * k + 2 \in Nat /\ 3 * k + 3 \in Nat
        /\ 3 * k + 1 > 0 /\ 3 * k + 2 > 0 /\ 3 * k + 3 > 0
    OBVIOUS
  <2> QED
    BY <2>1
<1>4. PICK b1, b2, b3 : b1 = At(bytes, i1) /\ b2 = At(bytes, i2) /\ b3 = At(bytes, i3)
  OBVIOUS
<1>5. b1 \in 0..(b - 1) /\ b2 \in 0..(b - 1) /\ b3 \in 0..(b - 1)
  <2>1. b1 \in Byte64 /\ b2 \in Byte64 /\ b3 \in Byte64
    <3> HIDE DEF Byte64
    <3> QED
      BY <1>3, <1>4, AtIs
  <2> QED
    BY <1>1, <2>1 DEF Byte64
<1>6. w = (b1 * b + b2) * b + b3
  BY <1>1, <1>3, <1>4, <1>11 DEF WordOf
<1>7. /\ w \in Nat /\ w < b * b * b
      /\ ByteOf(w, 1, b) = b1 /\ ByteOf(w, 2, b) = b2 /\ ByteOf(w, 3, b) = b3
      /\ b3 = 0 => DigitOf(w, 4, d) = 0
      /\ b2 = 0 /\ b3 = 0 => DigitOf(w, 3, d) = 0
  <2>1. Word(w, b1, b2, b3, b)
    BY <1>5, <1>6 DEF Word
  <2> QED
    BY <1>2, <2>1, BytesOfWord
<1>8. /\ \A j \in 1..4 : DigitOf(w, j, d) \in 0..(d - 1)
      /\ ((DigitOf(w, 1, d) * d + DigitOf(w, 2, d)) * d + DigitOf(w, 3, d)) * d
           + DigitOf(w, 4, d) = w
  BY <1>2, <1>7, DigitsOfBlock
<1>9. ASSUME NEW j \in 1..4, Blank(l, k, j) PROVE DigitOf(w, j, d) = 0
  <2>1. CASE j = 3
    <3>1. i2 > l /\ i3 > l
      <4>1. 3 * k + 2 > l
        BY <1>9, <2>1 DEF Blank
      <4> QED
        BY <1>3, <1>11, <4>1
    <3>2. b2 = 0 /\ b3 = 0
      BY <1>3, <1>4, <1>11, <3>1 DEF At
    <3> QED
      BY <1>7, <2>1, <3>2
  <2>2. CASE j = 4
    <3>1. i3 > l
      <4>1. 3 * k + 3 > l
        BY <1>9, <2>2 DEF Blank
      <4> QED
        BY <1>3, <1>11, <4>1
    <3>2. b3 = 0
      BY <1>3, <1>4, <1>11, <3>1 DEF At
    <3> QED
      BY <1>7, <2>2, <3>2
  <2> QED
    BY <1>9, <2>1, <2>2 DEF Blank
<1>10. ASSUME NEW j \in 1..3 PROVE ByteOf(w, j, b) = At(bytes, 3 * k + j)
  <2>1. j = 1 \/ j = 2 \/ j = 3
    OBVIOUS
  <2> QED
    BY <1>3, <1>4, <1>7, <2>1
<1> QED
  BY <1>1, <1>8, <1>9, <1>10, <1>11 DEF Digit64, Spells

\* The blocks of l bytes hold digits and are padded where no byte is.
PadsAfter(e, l, n) ==
  \A k \in 0..(n - 1), j \in 1..4 :
    /\ e[4 * k + j] = Padding <=> Blank(l, k, j)
    /\ e[4 * k + j] # Padding => e[4 * k + j] \in Digit64

LEMMA EncodedBlocks ==
  ASSUME NEW bytes \in Seq(Byte64), NEW l \in Nat, l = Len(bytes),
         NEW n \in Nat, n = (l + 2) \div 3,
         NEW e, e = EncodeBlocks(bytes)
  PROVE  /\ e \in Seq(Spelt) /\ Len(e) = 4 * n
         /\ PadsAfter(e, l, n)
         /\ \A k \in 0..(n - 1) : BitsOf(e, k) = WordOf(bytes, k)
<1>1. PICK d \in Nat : d = DigitValues
  BY Values
<1>2. Padding \notin Digit64
  BY Values DEF Digit64
<1>6. ASSUME NEW i \in 1..(4 * n) PROVE \E k \in 0..(n - 1), j \in 1..4 : FourAt(i, k, j)
  BY Fours
<1>7. ASSUME NEW k \in Nat, NEW w, w = WordOf(bytes, k)
      PROVE  /\ \A j \in 1..4 : DigitOf(w, j, d) \in Digit64
             /\ \A j \in 1..4 : Blank(l, k, j) => DigitOf(w, j, d) = 0
  <2>1. /\ \A j \in 1..4 : DigitOf(WordOf(bytes, k), j, DigitValues) \in Digit64
        /\ \A j \in 1..4 : Blank(Len(bytes), k, j) =>
                            DigitOf(WordOf(bytes, k), j, DigitValues) = 0
    BY WordIs
  <2> QED
    BY <1>1, <1>7, <2>1
<1>3. ASSUME NEW k \in 0..(n - 1), NEW j \in 1..4
      PROVE  /\ 4 * k + j \in 1..(4 * n)
             /\ e[4 * k + j] = Padding <=> Blank(l, k, j)
             /\ e[4 * k + j] # Padding => e[4 * k + j] \in Digit64
             /\ Read(e, k, j) = DigitOf(WordOf(bytes, k), j, d)
             /\ e[4 * k + j] \in Spelt
  <2>1. PICK i \in Int : i = 4 * k + j
    OBVIOUS
  <2>2. i \in 1..(4 * n)
    BY <2>1
  <2>3. PICK w : w = WordOf(bytes, k)
    OBVIOUS
  <2>4. e[i] = IF Blank(l, k, j) THEN Padding ELSE DigitOf(w, j, d)
    BY <1>1, <2>1, <2>2, <2>3, EncodedAt
  <2>5. DigitOf(w, j, d) \in Digit64 /\ (Blank(l, k, j) => DigitOf(w, j, d) = 0)
    <3>1. k \in Nat
      OBVIOUS
    <3> QED
      BY <1>7, <2>3, <3>1
  <2>6. e[i] = Padding <=> Blank(l, k, j)
    BY <1>2, <2>4, <2>5
  <2>7. Read(e, k, j) = DigitOf(w, j, d)
    BY <2>1, <2>4, <2>5, <2>6 DEF Read
  <2>8. e[i] \in Spelt
    BY <2>4, <2>5 DEF Spelt
  <2>9. e[i] # Padding => e[i] \in Digit64
    BY <2>4, <2>5, <2>6
  <2> QED
    BY <2>1, <2>2, <2>3, <2>6, <2>7, <2>8, <2>9
<1>4. e \in Seq(Spelt) /\ Len(e) = 4 * n
  <2>1. e = [h \in 1..(4 * n) |-> e[h]]
    BY DEF EncodeBlocks
  <2>2. ASSUME NEW i \in 1..(4 * n) PROVE e[i] \in Spelt
    <3>1. PICK k \in 0..(n - 1), j \in 1..4 : i = 4 * k + j
      BY <1>6 DEF FourAt
    <3> QED
      BY <1>3, <3>1
  <2>3. e \in [1..(4 * n) -> Spelt]
    BY <2>1, <2>2
  <2>4. 4 * n \in Nat
    OBVIOUS
  <2> HIDE DEF Spelt
  <2> QED
    BY <2>3, <2>4
<1>5. ASSUME NEW k \in 0..(n - 1) PROVE BitsOf(e, k) = WordOf(bytes, k)
  <2>1. PICK w : w = WordOf(bytes, k)
    OBVIOUS
  <2>2. /\ Read(e, k, 1) = DigitOf(w, 1, d) /\ Read(e, k, 2) = DigitOf(w, 2, d)
        /\ Read(e, k, 3) = DigitOf(w, 3, d) /\ Read(e, k, 4) = DigitOf(w, 4, d)
    <3>1. 1 \in 1..4 /\ 2 \in 1..4 /\ 3 \in 1..4 /\ 4 \in 1..4
      OBVIOUS
    <3> QED
      BY <1>3, <2>1, <3>1
  <2>3. BitsOf(e, k) = ((DigitOf(w, 1, d) * d + DigitOf(w, 2, d)) * d + DigitOf(w, 3, d)) * d
                         + DigitOf(w, 4, d)
    BY <1>1, <2>2 DEF BitsOf
  <2>4. k \in Nat
    OBVIOUS
  <2>5. Spells(w, d)
    <3>1. Spells(WordOf(bytes, k), DigitValues)
      BY <2>4, WordIs
    <3> QED
      BY <1>1, <2>1, <3>1
  <2> QED
    BY <2>1, <2>3, <2>5 DEF Spells
<1>8. PadsAfter(e, l, n)
  BY <1>3 DEF PadsAfter
<1> QED
  BY <1>4, <1>5, <1>8

\* How long a text is.
\* The text of l bytes has m digits.
EndsAfter(l, n, m) ==
  \A k \in 0..(n - 1), j \in 1..4 : Blank(l, k, j) <=> 4 * k + j > m

\* n blocks and m digits are those of l bytes; and what that makes of them.
Sized(l, n, m) == n = (l + 2) \div 3 /\ m = (4 * l + 2) \div 3

Fits(l, n, m) ==
  /\ m <= 4 * n /\ m % 4 # 1 /\ (4 - (m % 4)) % 4 = 4 * n - m
  /\ (3 * m) \div 4 = l /\ l <= 3 * n /\ (4 * n) \div 4 = n

LEMMA TextLength ==
  ASSUME NEW l \in Nat, NEW n \in Nat, NEW m \in Nat, Sized(l, n, m)
  PROVE  Fits(l, n, m) /\ EndsAfter(l, n, m)
<1>1. PICK q \in Nat, r \in 0..2 : l = 3 * q + r
  <2>1. l \div 3 \in Nat /\ l % 3 \in 0..2 /\ l = 3 * (l \div 3) + (l % 3)
    OBVIOUS
  <2> QED
    BY <2>1
<1>2. CASE r = 0
  <2>1. l = 3 * q /\ n = q /\ m = 4 * q
    BY <1>1, <1>2 DEF Sized
  <2> QED
    BY <2>1 DEF Blank, EndsAfter, Fits
<1>3. CASE r = 1
  <2>1. l = 3 * q + 1 /\ n = q + 1 /\ m = 4 * q + 2
    BY <1>1, <1>3 DEF Sized
  <2> QED
    BY <2>1 DEF Blank, EndsAfter, Fits
<1>4. CASE r = 2
  <2>1. l = 3 * q + 2 /\ n = q + 1 /\ m = 4 * q + 3
    BY <1>1, <1>4 DEF Sized
  <2> QED
    BY <2>1 DEF Blank, EndsAfter, Fits
<1>5. r = 0 \/ r = 1 \/ r = 2
  OBVIOUS
<1> QED
  BY <1>2, <1>3, <1>4, <1>5

\* Where the padding of a text begins.
LEMMA LastDigit ==
  ASSUME NEW e \in Seq(Spelt), NEW m \in Nat, m <= Len(e),
         \A i \in 1..Len(e) : e[i] = Padding <=> i > m
  PROVE  SelectLastInSeq(e, LAMBDA c : c # Padding) = m
<1> DEFINE I == {i \in 1..Len(e) : e[i] # Padding}
<1>1. PICK l \in Nat : l = Len(e)
  OBVIOUS
<1>2. I = 1..m
  BY <1>1
<1>3. SelectLastInSeq(e, LAMBDA c : c # Padding) = IF I # {} THEN Max(I) ELSE 0
  BY DEF SelectLastInSeq
<1> HIDE DEF I
<1>4. CASE m = 0
  <2>1. I = {}
    BY <1>2, <1>4
  <2> QED
    BY <1>3, <1>4, <2>1
<1>5. CASE m # 0
  <2>1. m \in I /\ \A i \in I : m >= i
    BY <1>2, <1>5
  <2>2. \A o \in I : (\A i \in I : o >= i) => o = m
    BY <1>2, <2>1
  <2>3. Max(I) = m
    BY <2>1, <2>2 DEF Max
  <2> QED
    BY <1>3, <2>1, <2>3
<1> QED
  BY <1>4, <1>5

LEMMA Joined ==
  ASSUME NEW S, NEW a \in Seq(S), NEW b \in Seq(S)
  PROVE  a \o b \in Seq(S) /\ Len(a \o b) = Len(a) + Len(b)
OBVIOUS

LEMMA JoinedAfter ==
  ASSUME NEW S, NEW a \in Seq(S), NEW b \in Seq(S), NEW i \in Nat,
         i > Len(a), i <= Len(a) + Len(b)
  PROVE  (a \o b)[i] = b[i - Len(a)]
OBVIOUS

LEMMA Blanks ==
  ASSUME NEW m \in Nat
  PROVE  /\ [i \in 1..m |-> Padding] \in Seq(Spelt)
         /\ Len([i \in 1..m |-> Padding]) = m
         /\ \A i \in 1..m : [k \in 1..m |-> Padding][i] = Padding
<1>1. Padding \in Spelt
  BY DEF Spelt
<1>2. PICK f : f = [i \in 1..m |-> Padding]
  OBVIOUS
<1>3. f \in [1..m -> Spelt] /\ \A i \in 1..m : f[i] = Padding
  BY <1>1, <1>2
<1> HIDE DEF Spelt
<1>4. f \in Seq(Spelt) /\ Len(f) = m
  BY <1>3
<1> QED
  BY <1>2, <1>3, <1>4

\* The text of bytes, and what padding it gives back.
LEMMA EncodedIs ==
  ASSUME NEW bytes \in Seq(Byte64), NEW l \in Nat, l = Len(bytes),
         NEW m \in Nat, m = (4 * l + 2) \div 3,
         NEW text64, text64 = Base64UrlEncode(bytes)
  PROVE  /\ text64 \in Seq(Digit64) /\ Len(text64) = m
         /\ Padded(text64) = EncodeBlocks(bytes)
<1>1. PICK n \in Nat : n = (l + 2) \div 3
  OBVIOUS
<1>2. PICK e : e = EncodeBlocks(bytes)
  OBVIOUS
<1>3. /\ e \in Seq(Spelt) /\ Len(e) = 4 * n
      /\ PadsAfter(e, l, n)
  BY <1>1, <1>2, EncodedBlocks
<1>9. Fits(l, n, m) /\ EndsAfter(l, n, m)
  <2>1. Sized(l, n, m)
    BY <1>1 DEF Sized
  <2> QED
    BY <2>1, TextLength
<1>4. m <= 4 * n /\ (4 - (m % 4)) % 4 = 4 * n - m
  BY <1>9 DEF Fits
<1>5. ASSUME NEW i \in 1..(4 * n)
      PROVE  (e[i] = Padding <=> i > m) /\ (e[i] # Padding => e[i] \in Digit64)
  <2>1. PICK k \in 0..(n - 1), j \in 1..4 : FourAt(i, k, j)
    BY Fours
  <2>2. i = 4 * k + j
    BY <2>1 DEF FourAt
  <2>3. /\ e[4 * k + j] = Padding <=> Blank(l, k, j)
        /\ e[4 * k + j] # Padding => e[4 * k + j] \in Digit64
    BY <1>3 DEF PadsAfter
  <2>4. Blank(l, k, j) <=> 4 * k + j > m
    BY <1>9 DEF EndsAfter
  <2> QED
    BY <2>2, <2>3, <2>4
<1>6. SelectLastInSeq(e, LAMBDA c : c # Padding) = m
  BY <1>3, <1>4, <1>5, LastDigit
<1>7. text64 = SubSeq(e, 1, m)
  BY <1>2, <1>6 DEF Base64UrlEncode
<1>8. /\ text64 \in Seq(Spelt) /\ Len(text64) = m /\ \A i \in 1..m : text64[i] = e[i]
  <2> HIDE DEF Spelt
  <2>1. m <= Len(e) /\ \A i \in 1..m : i \in 1..Len(e)
    BY <1>3, <1>4
  <2> QED
    BY <1>3, <1>7, <2>1
<1>11. text64 \in Seq(Digit64)
  <2>1. ASSUME NEW i \in 1..m PROVE text64[i] \in Digit64
    <3>1. i \in 1..(4 * n) /\ ~(i > m)
      BY <1>4
    <3> QED
      BY <1>5, <1>8, <3>1
  <2>2. text64 = [i \in 1..m |-> text64[i]]
    <3> HIDE DEF Spelt
    <3> QED
      BY <1>8
  <2>3. text64 \in [1..m -> Digit64]
    BY <2>1, <2>2
  <2> HIDE DEF Digit64
  <2> QED
    BY <2>3
<1>10. Padded(text64) = e
  <2>2. PICK o \in Nat : o = 4 * n - m /\ o = (4 - (m % 4)) % 4
    <3>1. 4 * n - m \in Nat /\ 4 * n - m = (4 - (m % 4)) % 4
      BY <1>4
    <3> QED
      BY <3>1
  <2> DEFINE pads == [i \in 1..o |-> Padding]
  <2>1. Padded(text64) = text64 \o pads
    BY <1>8, <2>2 DEF Padded
  <2>3. pads \in Seq(Spelt) /\ Len(pads) = o /\ \A i \in 1..o : pads[i] = Padding
    BY Blanks
  <2> HIDE DEF pads, Spelt
  <2>4. PICK s : s = text64 \o pads
    OBVIOUS
  <2>5. s \in Seq(Spelt) /\ Len(s) = 4 * n
    <3>1. s \in Seq(Spelt) /\ Len(s) = Len(text64) + Len(pads)
      BY <1>8, <2>3, <2>4, Joined
    <3>2. Len(text64) + Len(pads) = m + o
      BY <1>8, <2>3
    <3> QED
      BY <2>2, <3>1, <3>2
  <2>6. ASSUME NEW i \in 1..(4 * n) PROVE s[i] = e[i]
    <3>1. CASE i <= m
      <4>1. i \in 1..m
        BY <3>1
      <4>2. s[i] = text64[i]
        BY <1>8, <2>2, <2>3, <2>4, <4>1
      <4> QED
        BY <1>8, <4>1, <4>2
    <3>2. CASE ~(i <= m)
      <4>1. i - m \in 1..o
        BY <2>2, <3>2
      <4>2. s[i] = pads[i - m]
        <5>1. i > Len(text64) /\ i <= Len(text64) + Len(pads) /\ i \in Nat /\ m = Len(text64)
          BY <1>8, <2>2, <2>3, <3>2
        <5> QED
          BY <1>8, <2>3, <2>4, <5>1, JoinedAfter
      <4>3. e[i] = Padding
        BY <1>5, <3>2
      <4> QED
        BY <2>3, <4>1, <4>2, <4>3
    <3> QED
      BY <3>1, <3>2
  <2>7. s = e
    BY <1>3, <2>5, <2>6, SeqEqual
  <2> QED
    BY <2>1, <2>4, <2>7
<1> QED
  BY <1>2, <1>8, <1>10, <1>11

\* Bytes of any number are what is decoded from their text.
THEOREM EncodedReadsBack ==
  ASSUME NEW bytes \in Seq(Byte64)
  PROVE  DecodeLeniently(Base64UrlEncode(bytes)) = bytes
<1>1. PICK l \in Nat, n \in Nat, m \in Nat :
        l = Len(bytes) /\ n = (l + 2) \div 3 /\ m = (4 * l + 2) \div 3
  <2>1. Len(bytes) \in Nat /\ (Len(bytes) + 2) \div 3 \in Nat /\ (4 * Len(bytes) + 2) \div 3 \in Nat
    OBVIOUS
  <2> QED
    BY <2>1
<1>2. PICK t, e, f : /\ t = Base64UrlEncode(bytes) /\ e = EncodeBlocks(bytes)
                     /\ f = DecodeBlocks(e)
  OBVIOUS
<1>3. t \in Seq(Digit64) /\ Len(t) = m /\ Padded(t) = e
  BY <1>1, <1>2, EncodedIs
<1>4. /\ m % 4 # 1 /\ (3 * m) \div 4 = l /\ l <= 3 * n /\ (4 * n) \div 4 = n
  <2>1. Sized(l, n, m)
    BY <1>1 DEF Sized
  <2> QED
    BY <2>1, TextLength DEF Fits
<1>5. \A i \in DOMAIN t : IsDigit64(t[i])
  <2>1. \A i \in DOMAIN t : t[i] \in Digit64
    <3> HIDE DEF Digit64
    <3> QED
      BY <1>3
  <2> QED
    BY <2>1, Values DEF IsDigit64, Digit64
<1>6. DecodeLeniently(t) = SubSeq(f, 1, l)
  BY <1>2, <1>3, <1>4, <1>5 DEF DecodeLeniently
<1>7. /\ e \in Seq(Spelt) /\ Len(e) = 4 * n
      /\ \A k \in 0..(n - 1) : BitsOf(e, k) = WordOf(bytes, k)
  BY <1>1, <1>2, EncodedBlocks
<1>8. f \in Seq(Byte64) /\ Len(f) = 3 * n
  BY <1>2, <1>4, <1>7, DecodeBlocksAre
<1>9. ASSUME NEW i \in 1..(3 * n) PROVE f[i] = At(bytes, i)
  <2>1. PICK k \in 0..(n - 1), j \in 1..3 : ThreeAt(i, k, j)
    BY Triples
  <2>5. i = 3 * k + j
    BY <2>1 DEF ThreeAt
  <2>2. n = Len(e) \div 4 /\ k \in Nat
    BY <1>4, <1>7
  <2>3. f[i] = ByteOf(BitsOf(e, k), j, ByteValues)
    BY <1>2, <2>1, <2>2, DecodedAt
  <2>4. ByteOf(WordOf(bytes, k), j, ByteValues) = At(bytes, 3 * k + j)
    BY <2>2, WordIs
  <2> QED
    BY <1>7, <2>3, <2>4, <2>5
<1>10. SubSeq(f, 1, l) = bytes
  <2> HIDE DEF Byte64
  <2>1. PICK s : s = SubSeq(f, 1, l)
    OBVIOUS
  <2>2. s \in Seq(Byte64) /\ Len(s) = l /\ \A i \in 1..l : s[i] = f[i]
    <3>1. l <= Len(f) /\ \A i \in 1..l : i \in 1..Len(f)
      BY <1>4, <1>8
    <3> QED
      BY <1>8, <2>1, <3>1
  <2>3. ASSUME NEW i \in 1..l PROVE s[i] = bytes[i]
    <3>1. i \in 1..(3 * n) /\ i <= Len(bytes)
      BY <1>1, <1>4
    <3> QED
      BY <1>9, <2>2, <3>1 DEF At
  <2>4. s = bytes
    BY <1>1, <2>2, <2>3, SeqEqual
  <2> QED
    BY <2>1, <2>4
<1> QED
  BY <1>2, <1>6, <1>10

\* What is decoded without looking back: bytes, or nothing.
LEMMA LenientIs ==
  ASSUME NEW t \in Seq(Letters),
         ~(Len(t) % 4 = 1 \/ \E i \in DOMAIN t : ~IsDigit64(t[i]))
  PROVE  /\ DecodeLeniently(t) \in Seq(Byte64) /\ DecodeLeniently(t) # Undecoded
         /\ Len(DecodeLeniently(t)) = (3 * Len(t)) \div 4
         /\ DecodeLeniently(t) =
              SubSeq(DecodeBlocks(Padded(t)), 1,
                     3 * (Len(Padded(t)) \div 4) - (Len(Padded(t)) - Len(t)))
<1>1. ~(Len(t) % 4 = 1 \/ \E i \in DOMAIN t : ~IsDigit64(t[i]))
  OBVIOUS
<1>2. PICK l \in Nat, m \in Nat : l = Len(t) /\ m = (4 - (l % 4)) % 4
  <2>1. Len(t) \in Nat /\ (4 - (Len(t) % 4)) % 4 \in Nat
    OBVIOUS
  <2> QED
    BY <2>1
<1>3. PICK n \in Nat : /\ l + m = 4 * n /\ n = (l + m) \div 4 /\ 3 * n - m = (3 * l) \div 4
                       /\ (3 * l) \div 4 \in Nat /\ (3 * l) \div 4 <= 3 * n
  <2>1. PICK q \in Nat, r \in 0..3 : l = 4 * q + r /\ r # 1
    <3>1. l \div 4 \in Nat /\ l % 4 \in 0..3 /\ l = 4 * (l \div 4) + (l % 4) /\ l % 4 # 1
      BY <1>1, <1>2
    <3> QED
      BY <3>1
  <2>2. CASE r = 0
    <3>1. m = 0 /\ l = 4 * q /\ q \in Nat
      BY <1>2, <2>1, <2>2
    <3>2. /\ l + m = 4 * q /\ q = (l + m) \div 4 /\ 3 * q - m = (3 * l) \div 4
          /\ (3 * l) \div 4 \in Nat /\ (3 * l) \div 4 <= 3 * q
      BY <3>1
    <3> QED
      BY <3>2
  <2>3. CASE r = 2
    <3>1. m = 2 /\ l = 4 * q + 2
      BY <1>2, <2>1, <2>3
    <3>2. PICK n \in Nat : n = q + 1
      OBVIOUS
    <3>3. /\ l + m = 4 * n /\ n = (l + m) \div 4 /\ 3 * n - m = (3 * l) \div 4
          /\ (3 * l) \div 4 \in Nat /\ (3 * l) \div 4 <= 3 * n
      BY <3>1, <3>2
    <3> QED
      BY <3>3
  <2>4. CASE r = 3
    <3>1. m = 1 /\ l = 4 * q + 3
      BY <1>2, <2>1, <2>4
    <3>2. PICK n \in Nat : n = q + 1
      OBVIOUS
    <3>3. /\ l + m = 4 * n /\ n = (l + m) \div 4 /\ 3 * n - m = (3 * l) \div 4
          /\ (3 * l) \div 4 \in Nat /\ (3 * l) \div 4 <= 3 * n
      BY <3>1, <3>2
    <3> QED
      BY <3>3
  <2>5. r = 0 \/ r = 2 \/ r = 3
    BY <2>1
  <2> QED
    BY <2>2, <2>3, <2>4, <2>5
<1>4. PICK p : p = Padded(t)
  OBVIOUS
<1>5. p \in Seq(Spelt) /\ Len(p) = l + m
  <2> DEFINE pads == [i \in 1..m |-> Padding]
  <2>1. p = t \o pads
    BY <1>2, <1>4 DEF Padded
  <2>2. pads \in Seq(Spelt) /\ Len(pads) = m
    BY Blanks
  <2>3. t \in Seq(Spelt)
    <3>1. ASSUME NEW i \in 1..l PROVE t[i] \in Spelt
      <4>1. t[i] \in Letters /\ i \in DOMAIN t
        <5> HIDE DEF Letters
        <5> QED
          BY <1>2
      <4>2. IsDigit64(t[i])
        BY <1>1, <4>1
      <4> QED
        BY <4>1, <4>2, Values DEF IsDigit64, Letters, Spelt
    <3>2. t = [i \in 1..l |-> t[i]]
      <4> HIDE DEF Letters
      <4> QED
        BY <1>2
    <3>3. t \in [1..l -> Spelt]
      BY <3>1, <3>2
    <3> HIDE DEF Spelt
    <3> QED
      BY <3>3
  <2> HIDE DEF pads, Spelt
  <2>4. t \o pads \in Seq(Spelt) /\ Len(t \o pads) = l + m
    BY <1>2, <2>2, <2>3, Joined
  <2> QED
    BY <2>1, <2>4
<1>6. PICK f : f = DecodeBlocks(p)
  OBVIOUS
<1>7. f \in Seq(Byte64) /\ Len(f) = 3 * n
  BY <1>3, <1>5, <1>6, DecodeBlocksAre
<1>8. PICK o \in Nat : o = (3 * l) \div 4 /\ o <= 3 * n /\ o = 3 * n - m
  BY <1>3
<1>9. DecodeLeniently(t) = SubSeq(f, 1, o)
  BY <1>1, <1>2, <1>4, <1>6, <1>8 DEF DecodeLeniently
<1>10. SubSeq(f, 1, o) \in Seq(Byte64) /\ Len(SubSeq(f, 1, o)) = o
  <2> HIDE DEF Byte64
  <2> QED
    BY <1>7, <1>8
<1>11. 3 * (Len(p) \div 4) - (Len(p) - Len(t)) = o
  <2>1. Len(p) \div 4 = n /\ Len(p) - Len(t) = m
    BY <1>2, <1>3, <1>5
  <2> QED
    BY <1>8, <2>1
<1>12. ASSUME NEW b \in Seq(Byte64) PROVE b # Undecoded
  <2>1. SUFFICES ASSUME b = Undecoded PROVE FALSE
    OBVIOUS
  <2>2. 1 \in DOMAIN b /\ b[1] = Foreign
    BY <2>1 DEF Undecoded
  <2>3. b[1] \in Byte64
    <3> HIDE DEF Byte64
    <3> QED
      BY <2>2
  <2> QED
    BY <2>2, <2>3 DEF Foreign, Byte64
<1>13. DecodeLeniently(t) \in Seq(Byte64) /\ DecodeLeniently(t) # Undecoded
  <2> HIDE DEF Byte64
  <2>1. DecodeLeniently(t) \in Seq(Byte64)
    BY <1>9, <1>10
  <2> QED
    BY <1>12, <2>1
<1>14. Len(DecodeLeniently(t)) = (3 * Len(t)) \div 4
  BY <1>2, <1>8, <1>9, <1>10
<1> QED
  BY <1>4, <1>6, <1>9, <1>11, <1>13, <1>14

\* The one spelling of bytes.
LEMMA StrictIs ==
  ASSUME NEW t \in Seq(Letters)
  PROVE  /\ Base64UrlDecode(t) # Undecoded =>
              /\ Base64UrlDecode(t) = DecodeLeniently(t)
              /\ DecodeLeniently(t) \in Seq(Byte64)
         /\ Base64UrlDecode(t) # Undecoded <=>
              /\ t # <<>> /\ DecodeLeniently(t) # Undecoded
              /\ Base64UrlEncode(DecodeLeniently(t)) = t
<1>1. CASE Len(t) % 4 = 1 \/ \E i \in DOMAIN t : ~IsDigit64(t[i])
  <2>1. Base64UrlDecode(t) = Undecoded /\ DecodeLeniently(t) = Undecoded
    BY <1>1 DEF Base64UrlDecode, DecodeLeniently
  <2> QED
    BY <2>1
<1>2. CASE ~(Len(t) % 4 = 1 \/ \E i \in DOMAIN t : ~IsDigit64(t[i]))
  <2>1. PICK b : b = DecodeLeniently(t)
    OBVIOUS
  <2>2. /\ b \in Seq(Byte64) /\ b # Undecoded
        /\ b = SubSeq(DecodeBlocks(Padded(t)), 1,
                     3 * (Len(Padded(t)) \div 4) - (Len(Padded(t)) - Len(t)))
    BY <1>2, <2>1, LenientIs
  <2>3. Base64UrlDecode(t) = IF t = <<>> THEN Undecoded
                             ELSE IF Base64UrlEncode(b) = t THEN b ELSE Undecoded
    BY <1>2, <2>2 DEF Base64UrlDecode
  <2> QED
    BY <2>1, <2>2, <2>3
<1> QED
  BY <1>1, <1>2

-----------------------------------------------------------------------------
(* The specification.                                                      *)

\* What all steps keep: the text holds what a text may hold, the sum is a
\* point of the curve, and the extended coordinates stand for it.
Inv ==
  /\ text \in Seq(Letters)
  /\ sum \in Points
  /\ Represents(point, sum)

LEMMA InvInit == Init => Inv
<1> SUFFICES ASSUME Init PROVE Inv
  OBVIOUS
<1>1. text = <<>> /\ point = Affine(0, 1) /\ sum = Zero
  BY DEF Init
<1>2. Zero[1] = 0 /\ Zero[2] = 1
  BY DEF Zero
<1>3. Represents(Affine(0, 1), Zero)
  BY <1>2, ZeroIsPoint, AffineRepresents
<1>4. <<>> \in Seq(Letters)
  OBVIOUS
<1> QED
  BY <1>1, <1>3, <1>4, ZeroIsPoint DEF Inv

LEMMA InvStep == Inv /\ [Next]_vars => Inv'
<1> SUFFICES ASSUME Inv, [Next]_vars PROVE Inv'
  OBVIOUS
<1>1. text \in Seq(Letters) /\ sum \in Points /\ Represents(point, sum)
  BY DEF Inv
<1>2. CASE Spell
  <2>1. point' = point /\ sum' = sum
    BY <1>2 DEF Spell
  <2>2. PICK c \in Symbols \cup Later : text' = Append(text, c)
    BY <1>2 DEF Spell
  <2>3. c \in Letters
    BY SpellingAssumption DEF Letters, Digit64
  <2>4. text' \in Seq(Letters)
    <3> HIDE DEF Letters
    <3> QED
      BY <1>1, <2>2, <2>3
  <2>5. sum' \in Points
    BY <1>1, <2>1
  <2>6. Represents(point', sum')
    BY <1>1, <2>1
  <2> QED
    BY <2>4, <2>5, <2>6 DEF Inv
<1>3. CASE AddPoint
  <2>1. PICK p \in Addends : /\ point' = PointAdd(point, Affine(p[1], p[2]))
                             /\ sum' = AffineSum(sum, p) /\ text' = text
    BY <1>3 DEF AddPoint
  <2>2. p \in Points
    BY SpellingAssumption DEF Points
  <2>3. Represents(Affine(p[1], p[2]), p)
    BY <2>2, AffineRepresents
  <2>4. PICK a, b, s : a = point /\ b = Affine(p[1], p[2]) /\ s = sum
    OBVIOUS
  <2>5. s \in Points /\ Represents(a, s) /\ Represents(b, p)
    BY <1>1, <2>3, <2>4
  <2>6. Represents(PointAdd(a, b), AffineSum(s, p)) /\ AffineSum(s, p) \in Points
    BY <2>2, <2>5, PointAddIs, AffineSumIs
  <2>7. sum' \in Points
    BY <2>1, <2>4, <2>6
  <2>8. Represents(point', sum')
    BY <2>1, <2>4, <2>6
  <2>9. text' \in Seq(Letters)
    BY <1>1, <2>1
  <2> QED
    BY <2>7, <2>8, <2>9 DEF Inv
<1>4. CASE UNCHANGED vars
  <2>1. text' = text /\ point' = point /\ sum' = sum
    BY <1>4 DEF vars
  <2> QED
    BY <1>1, <2>1 DEF Inv
<1> QED
  BY <1>2, <1>3, <1>4 DEF Next

LEMMA Invariant == Spec => []Inv
<1>1. Init => Inv
  BY InvInit
<1>2. Inv /\ [Next]_vars => Inv'
  BY InvStep
<1> QED
  BY <1>1, <1>2, PTL DEF Spec

LEMMA InvAdds == Inv => AdditionIsAffine
<1> SUFFICES ASSUME Inv PROVE AdditionIsAffine
  OBVIOUS
<1> DEFINE equals(q, p) == /\ q.z # 0
                           /\ q.x = Multiply(p[1], q.z) /\ q.y = Multiply(p[2], q.z)
                           /\ Multiply(q.t, q.z) = Multiply(q.x, q.y)
<1>1. sum \in Points /\ Represents(point, sum)
  BY DEF Inv
<1>2. \A q, p : Represents(q, p) => equals(q, p)
  BY DEF Represents, Point
<1>3. Order - 1 \in Nat /\ Order \in Nat /\ 16 \in Nat
  BY EdwardsAssumption
<1>4. ASSUME NEW n \in Nat PROVE Represents(ScalarMultiply(point, n), Multiple(sum, n))
  BY <1>1, ScalarMultiplyIs
<1>5. \A n \in {Order - 1, Order, 16} : equals(ScalarMultiply(point, n), Multiple(sum, n))
  <2> HIDE DEF equals
  <2> QED
    BY <1>2, <1>3, <1>4
<1>6. equals(point, sum)
  <2> HIDE DEF equals
  <2> QED
    BY <1>1, <1>2
<1> QED
  BY <1>5, <1>6 DEF AdditionIsAffine

\* The sums and multiples that the code computes are those of the affine law,
\* for points of every order: AdditionIsAffine.
THEOREM AdditionFollowsTheLaw == Spec => []AdditionIsAffine
<1>1. Inv => AdditionIsAffine
  BY InvAdds
<1> QED
  BY <1>1, Invariant, PTL

-----------------------------------------------------------------------------
(* The texts of keys and signatures.                                       *)

LEMMA SameBytes == Byte = Byte64
BY SpellingAssumption DEF Byte, Byte64

LEMMA LenientBytes ==
  ASSUME NEW t \in Seq(Letters), DecodeLeniently(t) # Undecoded
  PROVE  /\ DecodeLeniently(t) \in Seq(Byte)
         /\ Len(DecodeLeniently(t)) = (3 * Len(t)) \div 4
<1>1. ~(Len(t) % 4 = 1 \/ \E i \in DOMAIN t : ~IsDigit64(t[i]))
  BY DEF DecodeLeniently
<1> QED
  BY <1>1, LenientIs, SameBytes

\* A text that holds something and is the spelling of its bytes.
LEMMA SpeltOnce ==
  ASSUME NEW t \in Seq(Letters), NEW c \in Seq(Byte), Len(c) > 0, t = Base64UrlEncode(c)
  PROVE  /\ DecodeLeniently(t) = c
         /\ DecodeLeniently(t) # Undecoded =>
              Base64UrlDecode(t) # Undecoded /\ Base64UrlDecode(t) = c
<1>1. DecodeLeniently(t) = c
  BY EncodedReadsBack, SameBytes
<1>2. ASSUME DecodeLeniently(t) # Undecoded PROVE t # <<>>
  <2>1. SUFFICES ASSUME t = <<>> PROVE FALSE
    OBVIOUS
  <2>2. Len(t) = 0 /\ Len(c) = (3 * Len(t)) \div 4
    BY <1>1, <1>2, <2>1, LenientBytes
  <2>3. (3 * 0) \div 4 = 0
    OBVIOUS
  <2> QED
    BY <2>2, <2>3
<1> QED
  BY <1>1, <1>2, StrictIs

LEMMA Decoded ==
  ASSUME NEW t \in Seq(Letters), Base64UrlDecode(t) # Undecoded
  PROVE  /\ Base64UrlDecode(t) = DecodeLeniently(t) /\ DecodeLeniently(t) # Undecoded
         /\ DecodeLeniently(t) \in Seq(Byte)
         /\ t = Base64UrlEncode(DecodeLeniently(t))
BY StrictIs, SameBytes

LEMMA Whole ==
  ASSUME NEW bytes \in Seq(Byte), Len(bytes) = PointSize
  PROVE  SubSeq(bytes, 1, PointSize) = bytes
<1>1. PointSize \in Nat
  BY Sizes
<1>2. PICK s : s = SubSeq(bytes, 1, PointSize)
  OBVIOUS
<1> HIDE DEF Byte
<1>3. s \in Seq(Byte) /\ Len(s) = PointSize /\ \A i \in 1..PointSize : s[i] = bytes[i]
  BY <1>1, <1>2
<1>4. s = bytes
  BY <1>1, <1>3, SeqEqual
<1> QED
  BY <1>2, <1>4

\* What DecodeKey takes.
LEMMA KeyIs ==
  ASSUME NEW t \in Seq(Letters), NEW b, b = DecodeLeniently(t)
  PROVE  DecodeKey(t) # Undecoded <=>
           /\ b # Undecoded /\ Len(b) = PointSize
           /\ \E p \in Meant(b) :
                /\ t = Base64UrlEncode(PointBytes(p))
                /\ p # Zero /\ Multiple(p, Order) = Zero
<1>1. DecodeKey(t) # Undecoded <=>
        Base64UrlDecode(t) # Undecoded /\ ValidPoint(Base64UrlDecode(t), FALSE)
  BY DEF DecodeKey
<1>2. ASSUME DecodeKey(t) # Undecoded
      PROVE  /\ b # Undecoded /\ Len(b) = PointSize
             /\ \E p \in Meant(b) :
                  /\ t = Base64UrlEncode(PointBytes(p))
                  /\ p # Zero /\ Multiple(p, Order) = Zero
  <2>1. b # Undecoded /\ b \in Seq(Byte) /\ t = Base64UrlEncode(b) /\ ValidPoint(b, FALSE)
    BY <1>1, <1>2, Decoded
  <2>2. Len(b) = PointSize
    BY <2>1 DEF ValidPoint
  <2>3. PICK p \in Points : Encodes(b, p, FALSE)
    <3>1. FALSE \in BOOLEAN
      OBVIOUS
    <3> QED
      BY <2>1, <2>2, <3>1, ValidPointIs
  <2>4. b = PointBytes(p) /\ p # Zero /\ Multiple(p, Order) = Zero
    BY <2>3 DEF Encodes
  <2>5. p \in Meant(b)
    <3>1. b = SubSeq(b, 1, PointSize)
      BY <2>1, <2>2, Whole
    <3> QED
      BY <2>1, <2>2, <2>4, <3>1, EncodedIsMeant
  <2>6. t = Base64UrlEncode(PointBytes(p))
    BY <2>1, <2>4
  <2> QED
    BY <2>1, <2>2, <2>4, <2>5, <2>6
<1>3. ASSUME b # Undecoded, Len(b) = PointSize, NEW p \in Meant(b),
             t = Base64UrlEncode(PointBytes(p)), p # Zero, Multiple(p, Order) = Zero
      PROVE  DecodeKey(t) # Undecoded
  <2>1. b \in Seq(Byte)
    BY <1>3, LenientBytes
  <2>2. b = SubSeq(b, 1, PointSize)
    BY <1>3, <2>1, Whole
  <2>3. p \in Points
    BY <1>3, <2>1, <2>2, MeantAre
  <2>4. PointBytes(p) \in Seq(Byte) /\ Len(PointBytes(p)) > 0
    BY <2>3, PointBytesAre, Sizes
  <2>5. b = PointBytes(p) /\ Base64UrlDecode(t) # Undecoded /\ Base64UrlDecode(t) = PointBytes(p)
    BY <1>3, <2>4, SpeltOnce
  <2>6. Encodes(b, p, FALSE)
    BY <1>3, <2>5 DEF Encodes
  <2>7. ValidPoint(b, FALSE)
    <3>1. FALSE \in BOOLEAN
      OBVIOUS
    <3> QED
      BY <1>3, <2>1, <2>3, <2>6, <3>1, ValidPointIs
  <2> QED
    BY <1>1, <2>5, <2>7
<1> QED
  BY <1>2, <1>3

\* A part of a sequence, and the second half of one.
Shifted(s, part, a, l) == \A i \in 1..l : part[i] = s[a + i]

Rear(s, z) == SubSeq(s, z + 1, 2 * z)

LEMMA Parted ==
  ASSUME NEW S, NEW s \in Seq(S), NEW a \in Nat, NEW b \in Nat, a <= b, b <= Len(s)
  PROVE  /\ SubSeq(s, a + 1, b) \in Seq(S) /\ Len(SubSeq(s, a + 1, b)) = b - a
         /\ \A i \in 1..(b - a) : SubSeq(s, a + 1, b)[i] = s[a + i]
OBVIOUS

LEMMA JoinedAt ==
  ASSUME NEW S, NEW a \in Seq(S), NEW b \in Seq(S), NEW z \in Nat, z = Len(a)
  PROVE  /\ \A i \in 1..z : (a \o b)[i] = a[i]
         /\ Shifted(a \o b, b, z, Len(b))
BY DEF Shifted

LEMMA Parts ==
  ASSUME NEW S, NEW s \in Seq(S), NEW z \in Nat, Len(s) = 2 * z
  PROVE  /\ SubSeq(s, 1, z) \in Seq(S) /\ Len(SubSeq(s, 1, z)) = z
         /\ Rear(s, z) \in Seq(S) /\ Len(Rear(s, z)) = z
         /\ s = SubSeq(s, 1, z) \o Rear(s, z)
<1>1. PICK w \in Nat : w = 2 * z /\ w = z + z /\ Len(s) = w
  <2>1. 2 * z \in Nat /\ 2 * z = z + z
    OBVIOUS
  <2> QED
    BY <2>1
<1>2. PICK f, g : f = SubSeq(s, 1, z) /\ g = SubSeq(s, z + 1, w)
  OBVIOUS
<1>3. f \in Seq(S) /\ Len(f) = z /\ \A i \in 1..z : f[i] = s[i]
  <2>1. z <= Len(s)
    BY <1>1
  <2> QED
    BY <1>2, <2>1
<1>4. g \in Seq(S) /\ Len(g) = z /\ \A i \in 1..z : g[i] = s[z + i]
  <2>1. z <= w /\ w <= Len(s) /\ w - z = z
    BY <1>1
  <2> QED
    BY <1>2, <2>1, Parted
<1>5. PICK c : c = f \o g
  OBVIOUS
<1>6. c \in Seq(S) /\ Len(c) = z + z
  <2>1. f \o g \in Seq(S) /\ Len(f \o g) = Len(f) + Len(g)
    BY <1>3, <1>4, Joined
  <2> QED
    BY <1>3, <1>4, <1>5, <2>1
<1>7. (\A i \in 1..z : c[i] = f[i]) /\ Shifted(c, g, z, z)
  BY <1>3, <1>4, <1>5, JoinedAt
<1>8. ASSUME NEW i \in 1..(z + z) PROVE c[i] = s[i]
  <2>1. CASE i <= z
    <3>1. i \in 1..z
      BY <2>1
    <3> QED
      BY <1>3, <1>7, <3>1
  <2>2. CASE i > z
    <3>1. PICK k \in 1..z : i = z + k
      <4>1. i - z \in 1..z /\ i = z + (i - z)
        BY <2>2
      <4> QED
        BY <4>1
    <3>2. c[z + k] = g[k] /\ g[k] = s[z + k]
      BY <1>4, <1>7 DEF Shifted
    <3> QED
      BY <3>1, <3>2
  <2> QED
    BY <2>1, <2>2
<1>9. c = s
  BY <1>1, <1>6, <1>8, SeqEqual
<1> QED
  BY <1>1, <1>2, <1>3, <1>4, <1>5, <1>9 DEF Rear

LEMMA OfParts ==
  ASSUME NEW S, NEW a \in Seq(S), NEW b \in Seq(S), NEW z \in Nat, Len(a) = z, Len(b) = z
  PROVE  /\ a \o b \in Seq(S) /\ Len(a \o b) = 2 * z
         /\ SubSeq(a \o b, 1, z) = a
         /\ Rear(a \o b, z) = b
<1>1. PICK c : c = a \o b
  OBVIOUS
<1>2. (\A i \in 1..z : c[i] = a[i]) /\ Shifted(c, b, z, z)
  BY <1>1, JoinedAt
<1>3. c \in Seq(S) /\ Len(c) = z + z
  <2>1. a \o b \in Seq(S) /\ Len(a \o b) = Len(a) + Len(b)
    BY Joined
  <2> QED
    BY <1>1, <2>1
<1>4. PICK w \in Nat : w = 2 * z /\ w = z + z /\ Len(c) = w
  <2>1. 2 * z \in Nat /\ 2 * z = z + z
    OBVIOUS
  <2> QED
    BY <1>3, <2>1
<1>5. PICK f, g : f = SubSeq(c, 1, z) /\ g = SubSeq(c, z + 1, w)
  OBVIOUS
<1>6. f \in Seq(S) /\ Len(f) = z /\ \A i \in 1..z : f[i] = c[i]
  <2>1. z <= Len(c)
    BY <1>4
  <2> QED
    BY <1>3, <1>5, <2>1
<1>7. g \in Seq(S) /\ Len(g) = z /\ \A i \in 1..z : g[i] = c[z + i]
  <2>1. z <= w /\ w <= Len(c) /\ w - z = z
    BY <1>4
  <2> QED
    BY <1>3, <1>5, <2>1, Parted
<1>8. f = a
  BY <1>2, <1>6, SeqEqual
<1>9. g = b
  BY <1>2, <1>7, SeqEqual DEF Shifted
<1> QED
  BY <1>1, <1>3, <1>4, <1>5, <1>8, <1>9 DEF Rear

LEMMA Halves ==
  ASSUME NEW bytes \in Seq(Byte), Len(bytes) = 2 * PointSize
  PROVE  /\ SubSeq(bytes, 1, PointSize) \in Seq(Byte)
         /\ Len(SubSeq(bytes, 1, PointSize)) = PointSize
         /\ Rear(bytes, PointSize) \in Seq(Byte) /\ Len(Rear(bytes, PointSize)) = PointSize
         /\ bytes = SubSeq(bytes, 1, PointSize) \o Rear(bytes, PointSize)
BY Sizes, Parts

LEMMA OfHalves ==
  ASSUME NEW r \in Seq(Byte), Len(r) = PointSize, NEW s \in Seq(Byte), Len(s) = PointSize
  PROVE  /\ r \o s \in Seq(Byte) /\ Len(r \o s) = 2 * PointSize
         /\ SubSeq(r \o s, 1, PointSize) = r
         /\ Rear(r \o s, PointSize) = s
BY Sizes, OfParts

\* What DecodeSignature takes.
LEMMA SignatureIs ==
  ASSUME NEW t \in Seq(Letters), NEW b, b = DecodeLeniently(t)
  PROVE  DecodeSignature(t) # Undecoded <=>
           /\ b # Undecoded /\ Len(b) = 2 * PointSize
           /\ \E p \in Meant(b), s \in 0..(Order - 1) :
                /\ t = Base64UrlEncode(PointBytes(p) \o LittleBytes(s))
                /\ Multiple(p, Order) = Zero
<1>1. DecodeSignature(t) # Undecoded <=>
        Base64UrlDecode(t) # Undecoded /\ ValidSignature(Base64UrlDecode(t))
  BY DEF DecodeSignature
<1>2. TRUE \in BOOLEAN
  OBVIOUS
<1>3. ASSUME DecodeSignature(t) # Undecoded
      PROVE  /\ b # Undecoded /\ Len(b) = 2 * PointSize
             /\ \E p \in Meant(b), s \in 0..(Order - 1) :
                  /\ t = Base64UrlEncode(PointBytes(p) \o LittleBytes(s))
                  /\ Multiple(p, Order) = Zero
  <2>1. b # Undecoded /\ b \in Seq(Byte) /\ t = Base64UrlEncode(b) /\ ValidSignature(b)
    BY <1>1, <1>3, Decoded
  <2>2. PICK r, c : /\ r = SubSeq(b, 1, PointSize)
                    /\ c = Rear(b, PointSize)
    OBVIOUS
  <2>3. Len(b) = 2 * PointSize /\ ValidPoint(r, TRUE) /\ LittleInteger(c) < Order
    BY <2>1, <2>2 DEF ValidSignature, Rear
  <2>4. /\ r \in Seq(Byte) /\ Len(r) = PointSize
        /\ c \in Seq(Byte) /\ Len(c) = PointSize /\ b = r \o c
    BY <2>1, <2>2, <2>3, Halves
  <2>5. PICK p \in Points : Encodes(r, p, TRUE)
    BY <1>2, <2>3, <2>4, ValidPointIs
  <2>6. r = PointBytes(p) /\ Multiple(p, Order) = Zero
    BY <2>5 DEF Encodes
  <2>7. PICK s \in Nat : s = LittleInteger(c) /\ c = LittleBytes(s)
    BY <2>4, OfTheirNumber
  <2>8. s \in 0..(Order - 1)
    BY <2>3, <2>7, Sizes
  <2>9. p \in Meant(b)
    BY <2>1, <2>2, <2>4, <2>6, EncodedIsMeant
  <2>10. t = Base64UrlEncode(PointBytes(p) \o LittleBytes(s))
    BY <2>1, <2>4, <2>6, <2>7
  <2> QED
    BY <2>1, <2>3, <2>6, <2>8, <2>9, <2>10
<1>4. ASSUME b # Undecoded, Len(b) = 2 * PointSize, NEW p \in Meant(b), NEW s \in 0..(Order - 1),
             t = Base64UrlEncode(PointBytes(p) \o LittleBytes(s)),
             Multiple(p, Order) = Zero
      PROVE  DecodeSignature(t) # Undecoded
  <2>1. b \in Seq(Byte)
    BY <1>4, LenientBytes
  <2>2. PICK h : h = SubSeq(b, 1, PointSize)
    OBVIOUS
  <2>3. h \in Seq(Byte) /\ Len(h) = PointSize
    BY <1>4, <2>1, <2>2, Halves
  <2>4. p \in Points
    BY <2>1, <2>2, <2>3, MeantAre
  <2>5. PICK r, c : r = PointBytes(p) /\ c = LittleBytes(s)
    OBVIOUS
  <2>6. r \in Seq(Byte) /\ Len(r) = PointSize
    BY <2>4, <2>5, PointBytesAre
  <2>7. c \in Seq(Byte) /\ Len(c) = PointSize /\ LittleInteger(c) < Order
    <3>1. s \in Nat /\ s < Order /\ s < Half + Half
      BY Sizes
    <3> QED
      BY <2>5, <3>1, LittleBytesAre
  <2>8. /\ r \o c \in Seq(Byte) /\ Len(r \o c) = 2 * PointSize
        /\ SubSeq(r \o c, 1, PointSize) = r
        /\ Rear(r \o c, PointSize) = c
    BY <2>6, <2>7, OfHalves
  <2>9. Len(r \o c) > 0
    BY <2>8, Sizes
  <2>10. b = r \o c /\ Base64UrlDecode(t) # Undecoded /\ Base64UrlDecode(t) = r \o c
    BY <1>4, <2>5, <2>8, <2>9, SpeltOnce
  <2>11. Encodes(r, p, TRUE)
    BY <1>4, <2>5 DEF Encodes
  <2>12. ValidPoint(r, TRUE)
    BY <1>2, <2>4, <2>6, <2>11, ValidPointIs
  <2>13. ValidSignature(r \o c)
    BY <2>7, <2>8, <2>12 DEF ValidSignature, Rear
  <2> QED
    BY <1>1, <2>10, <2>13
<1> QED
  BY <1>3, <1>4

\* decode_strict_ed25519_public_key takes exactly the one text of each point
\* of the prime subgroup other than zero: KeysArePrimeOrderPoints.
THEOREM KeysAreOfPrimeOrder == Spec => []KeysArePrimeOrderPoints
<1>1. Inv => KeysArePrimeOrderPoints
  <2> SUFFICES ASSUME Inv PROVE KeysArePrimeOrderPoints
    OBVIOUS
  <2>1. text \in Seq(Letters)
    BY DEF Inv
  <2> QED
    BY <2>1, KeyIs DEF KeysArePrimeOrderPoints
<1> QED
  BY <1>1, Invariant, PTL

\* The signature envelope takes exactly the one text of each pair of a point
\* of the prime subgroup and a scalar below the order: SignaturesHaveOneText.
THEOREM SignaturesAreUnique == Spec => []SignaturesHaveOneText
<1>1. Inv => SignaturesHaveOneText
  <2> SUFFICES ASSUME Inv PROVE SignaturesHaveOneText
    OBVIOUS
  <2>1. text \in Seq(Letters)
    BY DEF Inv
  <2> QED
    BY <2>1, SignatureIs DEF SignaturesHaveOneText
<1> QED
  BY <1>1, Invariant, PTL
=============================================================================
