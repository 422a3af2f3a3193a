--------------------------- MODULE ProtocolUriProofs ---------------------------
(***************************************************************************)
(* Theorems about ProtocolUri, for every text of any characters, however   *)
(* long: is_protocol_uri, which cuts a text at the first delimiters it     *)
(* finds, against the grammar, which may cut it anywhere.                  *)
(*                                                                         *)
(* Two facts about each rule carry the proof from the hosts up to the      *)
(* whole text: the code's check of a piece is the rule, and what the rule  *)
(* derives has none of the characters that end the piece, so the first of  *)
(* them is where any derivation has to cut. The scans over percent         *)
(* triplets are recursive functions; that they are what the rules say is   *)
(* shown by a least place where they differ, which the well-foundedness of *)
(* the naturals provides.                                                  *)
(*                                                                         *)
(* What an IPv6 literal is, code and grammar take from the same operator;  *)
(* the proof needs of it that it is not empty and has no delimiter in it.  *)
(***************************************************************************)
EXTENDS ProtocolUri, Integers, SequenceTheorems, WellFoundedInduction, TLAPS

-----------------------------------------------------------------------------
(* Least elements, and what is found from a place on.                      *)

LEMMA LeastNatural ==
  ASSUME NEW T \in SUBSET Nat, T # {}
  PROVE  \E n \in T : \A m \in T : n <= m
<1>1. PICK n \in T : \A m \in T : ~(<<m, n>> \in OpToRel(<, Nat))
  BY NatLessThanWellFounded, WFMin
<1>2. ASSUME NEW m \in T PROVE n <= m
  <2>1. ~(<<m, n>> \in OpToRel(<, Nat))
    BY <1>1
  <2>2. <<m, n>> \in Nat \X Nat
    OBVIOUS
  <2>3. ~(m < n)
    BY <2>1, <2>2 DEF OpToRel
  <2> QED
    BY <2>3
<1> QED
  BY <1>2

\* n is the first place of one of C from i on, or past the end.
IsFirst(t, C, i, n) ==
  /\ n \in i..(Len(t) + 1)
  /\ n <= Len(t) => t[n] \in C
  /\ \A k \in i..(n - 1) : t[k] \notin C

LEMMA FirstIsOne ==
  ASSUME NEW t, Len(t) \in Nat, NEW C, NEW i \in Nat,
         NEW m, IsFirst(t, C, i, m), NEW n, IsFirst(t, C, i, n)
  PROVE  m = n
<1>1. m \in Int /\ n \in Int
  BY DEF IsFirst
<1>2. ~(m < n)
  BY <1>1 DEF IsFirst
<1>3. ~(n < m)
  BY <1>1 DEF IsFirst
<1> QED
  BY <1>1, <1>2, <1>3

LEMMA FirstExists ==
  ASSUME NEW t, Len(t) \in Nat, NEW C, NEW i \in 1..(Len(t) + 1)
  PROVE  \E n : IsFirst(t, C, i, n)
<1> DEFINE T == {n \in i..(Len(t) + 1) : n <= Len(t) => t[n] \in C}
<1>1. T \in SUBSET Nat /\ Len(t) + 1 \in T
  OBVIOUS
<1>2. PICK n \in T : \A m \in T : n <= m
  BY <1>1, LeastNatural
<1>3. ASSUME NEW k \in i..(n - 1) PROVE t[k] \notin C
  BY <1>2
<1> QED
  BY <1>2, <1>3 DEF IsFirst

\* What Find finds.
LEMMA Finds ==
  ASSUME NEW t, Len(t) \in Nat, NEW C, NEW i \in 1..(Len(t) + 1)
  PROVE  IsFirst(t, C, i, Find(t, C, i))
<1>1. PICK n : IsFirst(t, C, i, n)
  BY FirstExists
<1>2. \E m \in i..(Len(t) + 1) : /\ m <= Len(t) => t[m] \in C
                                 /\ \A k \in i..(m - 1) : t[k] \notin C
  BY <1>1 DEF IsFirst
<1> QED
  BY <1>2 DEF Find, IsFirst

LEMMA FindIs ==
  ASSUME NEW t, Len(t) \in Nat, NEW C, NEW i \in 1..(Len(t) + 1),
         NEW n, IsFirst(t, C, i, n)
  PROVE  Find(t, C, i) = n
BY Finds, FirstIsOne

-----------------------------------------------------------------------------
(* The scans: every character is allowed or begins a triplet.              *)

\* The rest of t from n on is spelt with allowed characters and triplets.
SpeltFrom(t, allowed, n) ==
  \A m \in n..Len(t) : t[m] \in allowed \/ (t[m] = "%" /\ Triplet(t, m))

LEMMA SpeltStep ==
  ASSUME NEW S, NEW t \in Seq(S), NEW allowed, HexDigits \subseteq allowed,
         "%" \notin allowed, NEW n \in 1..(Len(t) + 3)
  PROVE  SpeltFrom(t, allowed, n)
           <=> IF n > Len(t) THEN TRUE
               ELSE IF t[n] = "%" THEN Triplet(t, n) /\ SpeltFrom(t, allowed, n + 3)
               ELSE t[n] \in allowed /\ SpeltFrom(t, allowed, n + 1)
<1>1. CASE n > Len(t)
  BY <1>1 DEF SpeltFrom
<1>2. CASE n <= Len(t) /\ t[n] = "%"
  <2>1. SpeltFrom(t, allowed, n) => Triplet(t, n) /\ SpeltFrom(t, allowed, n + 3)
    BY <1>2 DEF SpeltFrom
  <2>2. ASSUME Triplet(t, n), SpeltFrom(t, allowed, n + 3)
        PROVE  SpeltFrom(t, allowed, n)
    <3>1. t[n + 1] \in allowed /\ t[n + 2] \in allowed
      BY <2>2 DEF Triplet
    <3>2. \A m \in n..Len(t) : m = n \/ m = n + 1 \/ m = n + 2 \/ m \in (n + 3)..Len(t)
      OBVIOUS
    <3> QED
      BY <1>2, <2>2, <3>1, <3>2 DEF SpeltFrom
  <2> QED
    BY <1>2, <2>1, <2>2
<1>3. CASE n <= Len(t) /\ t[n] # "%"
  <2>1. \A m \in n..Len(t) : m = n \/ m \in (n + 1)..Len(t)
    OBVIOUS
  <2> QED
    BY <1>3, <2>1 DEF SpeltFrom
<1> QED
  BY <1>1, <1>2, <1>3

LEMMA MatchesIs ==
  ASSUME NEW S, NEW t \in Seq(S), NEW allowed, HexDigits \subseteq allowed,
         "%" \notin allowed
  PROVE  ComponentMatches(t, allowed) <=> Chars(t, allowed)
<1> DEFINE dom == 1..(Len(t) + 3)
           F(f) == [n \in dom |->
                     IF n > Len(t) THEN TRUE
                     ELSE IF t[n] = "%" THEN Triplet(t, n) /\ f[n + 3]
                     ELSE t[n] \in allowed /\ f[n + 1]]
           g == [n \in dom |-> SpeltFrom(t, allowed, n)]
           h == CHOOSE f : f = F(f)
<1>b. \A n : SpeltFrom(t, allowed, n) \in BOOLEAN
  BY DEF SpeltFrom
<1>1. g = F(g)
  <2>1. ASSUME NEW n \in dom
        PROVE  SpeltFrom(t, allowed, n)
                 = IF n > Len(t) THEN TRUE
                   ELSE IF t[n] = "%" THEN Triplet(t, n) /\ g[n + 3]
                   ELSE t[n] \in allowed /\ g[n + 1]
    <3>1. CASE n > Len(t)
      BY <1>b, <3>1, SpeltStep
    <3>2. CASE ~(n > Len(t))
      <4>1. n + 3 \in dom /\ n + 1 \in dom
        BY <3>2
      <4>2. g[n + 3] = SpeltFrom(t, allowed, n + 3) /\ g[n + 1] = SpeltFrom(t, allowed, n + 1)
        BY <4>1
      <4>3. ~(n > Len(t))
        BY <3>2
      <4>4. CASE t[n] = "%"
        <5>1. SpeltFrom(t, allowed, n) <=> Triplet(t, n) /\ SpeltFrom(t, allowed, n + 3)
          BY <4>3, <4>4, SpeltStep
        <5> HIDE DEF g
        <5> QED
          BY <1>b, <4>2, <4>3, <4>4, <5>1
      <4>5. CASE t[n] # "%"
        <5>1. SpeltFrom(t, allowed, n) <=> t[n] \in allowed /\ SpeltFrom(t, allowed, n + 1)
          BY <4>3, <4>5, SpeltStep
        <5> HIDE DEF g
        <5> QED
          BY <1>b, <4>2, <4>3, <4>5, <5>1
      <4> QED
        BY <4>4, <4>5
    <3> QED
      BY <3>1, <3>2
  <2> QED
    BY <2>1
<1>2. h = F(h)
  BY <1>1
<1>3. ComponentMatches(t, allowed) = h[1]
  BY DEF ComponentMatches
<1> HIDE DEF h
<1>4. ASSUME NEW n \in dom PROVE h[n] = SpeltFrom(t, allowed, n)
  <2> DEFINE T == {d \in Nat : \E m \in dom :
                     d = Len(t) + 3 - m /\ h[m] # SpeltFrom(t, allowed, m)}
  <2> SUFFICES ASSUME h[n] # SpeltFrom(t, allowed, n) PROVE FALSE
    OBVIOUS
  <2>0. T \in SUBSET Nat /\ Len(t) + 3 - n \in T
    OBVIOUS
  <2>1. PICK d \in T : \A e \in T : d <= e
    BY <2>0, LeastNatural
  <2>2. PICK m \in dom : d = Len(t) + 3 - m /\ h[m] # SpeltFrom(t, allowed, m)
    BY <2>1
  <2>3. ASSUME NEW l \in dom, l > m PROVE h[l] = SpeltFrom(t, allowed, l)
    <3>1. ~(d <= Len(t) + 3 - l) /\ Len(t) + 3 - l \in Nat
      BY <2>2, <2>3
    <3>2. Len(t) + 3 - l \notin T
      BY <2>1, <3>1
    <3> QED
      BY <3>1, <3>2
  <2>4. h[m] = IF m > Len(t) THEN TRUE
               ELSE IF t[m] = "%" THEN Triplet(t, m) /\ h[m + 3]
               ELSE t[m] \in allowed /\ h[m + 1]
    BY <1>2
  <2>5. CASE m > Len(t)
    BY <2>2, <2>4, <2>5, SpeltStep
  <2>6. CASE ~(m > Len(t))
    <3>1. h[m + 3] = SpeltFrom(t, allowed, m + 3) /\ h[m + 1] = SpeltFrom(t, allowed, m + 1)
      BY <2>3, <2>6
    <3>2. CASE t[m] = "%"
      <4>1. SpeltFrom(t, allowed, m) <=> Triplet(t, m) /\ SpeltFrom(t, allowed, m + 3)
        BY <2>6, <3>2, SpeltStep
      <4>2. h[m] = (Triplet(t, m) /\ h[m + 3])
        BY <2>4, <2>6, <3>2
      <4> QED
        BY <1>b, <2>2, <3>1, <4>1, <4>2
    <3>3. CASE t[m] # "%"
      <4>1. SpeltFrom(t, allowed, m) <=> t[m] \in allowed /\ SpeltFrom(t, allowed, m + 1)
        BY <2>6, <3>3, SpeltStep
      <4>2. h[m] = (t[m] \in allowed /\ h[m + 1])
        BY <2>4, <2>6, <3>3
      <4> QED
        BY <1>b, <2>2, <3>1, <4>1, <4>2
    <3> QED
      BY <3>2, <3>3
  <2> QED
    BY <2>5, <2>6
<1>5. 1 \in dom
  OBVIOUS
<1> QED
  BY <1>3, <1>4, <1>5 DEF SpeltFrom, Chars

\* Where every percent sign begins a triplet, stepping over the digits finds
\* nothing else.
LEMMA TripletsAreValid ==
  ASSUME NEW S, NEW t \in Seq(S), \A m \in 1..Len(t) : t[m] = "%" => Triplet(t, m)
  PROVE  ValidTriplets(t)
<1> DEFINE dom == 1..(Len(t) + 3)
           F(f) == [n \in dom |->
                     IF n > Len(t) THEN TRUE
                     ELSE IF t[n] # "%" THEN f[n + 1]
                     ELSE Triplet(t, n) /\ f[n + 3]]
           g == [n \in dom |-> TRUE]
           h == CHOOSE f : f = F(f)
<1>1. g = F(g)
  <2>1. ASSUME NEW n \in dom
        PROVE  TRUE = IF n > Len(t) THEN TRUE
                      ELSE IF t[n] # "%" THEN g[n + 1]
                      ELSE Triplet(t, n) /\ g[n + 3]
    <3>1. CASE n > Len(t)
      BY <3>1
    <3>2. CASE ~(n > Len(t))
      <4>1. g[n + 3] = TRUE /\ g[n + 1] = TRUE
        BY <3>2
      <4>2. t[n] = "%" => Triplet(t, n)
        BY <3>2
      <4> HIDE DEF g
      <4> QED
        BY <3>2, <4>1, <4>2
    <3> QED
      BY <3>1, <3>2
  <2> QED
    BY <2>1
<1>2. h = F(h)
  BY <1>1
<1>3. ValidTriplets(t) = h[1]
  BY DEF ValidTriplets
<1> HIDE DEF h
<1> DEFINE passed == {n \in dom : h[n] = TRUE}
<1>4. /\ \A n \in dom : n > Len(t) => n \in passed
      /\ \A n \in dom : ~(n > Len(t)) /\ t[n] # "%" /\ n + 1 \in passed => n \in passed
      /\ \A n \in dom : ~(n > Len(t)) /\ t[n] = "%" /\ Triplet(t, n) /\ n + 3 \in passed
           => n \in passed
  <2>1. \A n \in dom : h[n] = IF n > Len(t) THEN TRUE
                              ELSE IF t[n] # "%" THEN h[n + 1]
                              ELSE Triplet(t, n) /\ h[n + 3]
    BY <1>2
  <2>2. ASSUME NEW n \in dom, n > Len(t) PROVE n \in passed
    BY <2>1, <2>2
  <2>3. ASSUME NEW n \in dom, ~(n > Len(t)), t[n] # "%", n + 1 \in passed
        PROVE  n \in passed
    BY <2>1, <2>3
  <2>4. ASSUME NEW n \in dom, ~(n > Len(t)), t[n] = "%", Triplet(t, n), n + 3 \in passed
        PROVE  n \in passed
    <3>1. h[n] = (Triplet(t, n) /\ h[n + 3])
      BY <2>1, <2>4
    <3> QED
      BY <2>4, <3>1
  <2> QED
    BY <2>2, <2>3, <2>4
<1> HIDE DEF passed
<1>p. \A n \in dom : n \in passed
  <2> DEFINE T == {d \in Nat : \E m \in dom : d = Len(t) + 3 - m /\ m \notin passed}
  <2> SUFFICES ASSUME NEW n \in dom, n \notin passed PROVE FALSE
    OBVIOUS
  <2>0. T \in SUBSET Nat /\ Len(t) + 3 - n \in T
    OBVIOUS
  <2>1. PICK d \in T : \A e \in T : d <= e
    BY <2>0, LeastNatural
  <2>2. PICK m \in dom : d = Len(t) + 3 - m /\ m \notin passed
    BY <2>1
  <2>3. ASSUME NEW l \in dom, l > m PROVE l \in passed
    <3>1. ~(d <= Len(t) + 3 - l) /\ Len(t) + 3 - l \in Nat
      BY <2>2, <2>3
    <3>2. Len(t) + 3 - l \notin T
      BY <2>1, <3>1
    <3> QED
      BY <3>1, <3>2
  <2>5. m <= Len(t)
    BY <1>4, <2>2
  <2>6. m + 3 \in passed /\ m + 1 \in passed
    BY <2>3, <2>5
  <2> QED
    BY <1>4, <2>2, <2>5, <2>6
<1>5. 1 \in dom
  OBVIOUS
<1>6. h[1] = TRUE
  BY <1>p, <1>5 DEF passed
<1> QED
  BY <1>3, <1>6

-----------------------------------------------------------------------------
(* Pieces of texts.                                                        *)

\* A piece of a text, and a piece of a piece.
LEMMA Piece ==
  ASSUME NEW S, NEW t \in Seq(S), NEW a \in Nat \ {0}, NEW b \in Int, b <= Len(t)
  PROVE  /\ SubSeq(t, a, b) \in Seq(S)
         /\ Len(SubSeq(t, a, b)) = IF a <= b THEN b - a + 1 ELSE 0
         /\ \A m \in 1..(b - a + 1) : SubSeq(t, a, b)[m] = t[a + m - 1]
<1>1. \A i \in a..b : t[i] \in S
  OBVIOUS
<1>2. SubSeq(t, a, b) \in Seq(S)
  BY <1>1, SubSeqProperties
<1>3. Len(SubSeq(t, a, b)) = IF a <= b THEN b - a + 1 ELSE 0
  BY <1>1, SubSeqProperties
<1>4. \A m \in 1..(b - a + 1) : SubSeq(t, a, b)[m] = t[a + m - 1]
  BY <1>1, SubSeqProperties
<1> QED
  BY <1>2, <1>3, <1>4

LEMMA PieceOfPiece ==
  ASSUME NEW S, NEW t \in Seq(S), NEW a \in Nat \ {0}, NEW b \in Int, b <= Len(t),
         a <= b + 1,
         NEW c \in Nat \ {0}, NEW d \in Int, d <= b - a + 1, c <= d + 1
  PROVE  SubSeq(SubSeq(t, a, b), c, d) = SubSeq(t, a + c - 1, a + d - 1)
<1> DEFINE p == SubSeq(t, a, b)
           q == SubSeq(p, c, d)
           r == SubSeq(t, a + c - 1, a + d - 1)
<1>1. /\ p \in Seq(S) /\ Len(p) = b - a + 1
      /\ \A m \in 1..(b - a + 1) : p[m] = t[a + m - 1]
  BY Piece
<1> HIDE DEF p
<1>2. /\ q \in Seq(S) /\ Len(q) = d - c + 1
      /\ \A m \in 1..(d - c + 1) : q[m] = p[c + m - 1]
  BY <1>1, Piece
<1>3. /\ r \in Seq(S) /\ Len(r) = d - c + 1
      /\ \A m \in 1..(d - c + 1) : r[m] = t[a + c + m - 2]
  <2> DEFINE i == a + c - 1
             j == a + d - 1
  <2>1. /\ i \in Nat \ {0} /\ j \in Int /\ j <= Len(t)
        /\ Len(t) \in Nat /\ i <= j + 1 /\ j - i + 1 = d - c + 1
        /\ \A m \in 1..(d - c + 1) : i + m - 1 = a + c + m - 2
    OBVIOUS
  <2>2. r = SubSeq(t, i, j)
    OBVIOUS
  <2> HIDE DEF r, i, j
  <2>3. /\ r \in Seq(S) /\ Len(r) = (IF i <= j THEN j - i + 1 ELSE 0)
        /\ \A m \in 1..(j - i + 1) : r[m] = t[i + m - 1]
    BY <2>1, <2>2, Piece
  <2>4. Len(r) = d - c + 1
    BY <2>1, <2>3
  <2>5. \A m \in 1..(d - c + 1) : r[m] = t[a + c + m - 2]
    BY <2>1, <2>3
  <2> QED
    BY <2>3, <2>4, <2>5
<1> HIDE DEF q, r
<1>4. ASSUME NEW m \in 1..Len(q) PROVE q[m] = r[m]
  <2> DEFINE k == c + m - 1
  <2>1. m \in 1..(d - c + 1) /\ k \in 1..(b - a + 1) /\ a + k - 1 = a + c + m - 2
    BY <1>2
  <2>2. q[m] = p[k]
    BY <1>2, <2>1
  <2> HIDE DEF k
  <2>3. p[k] = t[a + k - 1]
    BY <1>1, <2>1
  <2>4. r[m] = t[a + c + m - 2]
    BY <1>3, <2>1
  <2> QED
    BY <2>1, <2>2, <2>3, <2>4
<1> QED
  BY <1>2, <1>3, <1>4, SeqEqual DEF p, q, r

LEMMA WholePiece ==
  ASSUME NEW S, NEW t \in Seq(S)
  PROVE  SubSeq(t, 1, Len(t)) = t
<1> DEFINE p == SubSeq(t, 1, Len(t))
<1>1. p \in Seq(S) /\ Len(p) = Len(t) /\ \A m \in 1..Len(t) : p[m] = t[m]
  BY Piece
<1> HIDE DEF p
<1> QED
  BY <1>1, SeqEqual DEF p

\* A text before one of its places, after it, and both.
LEMMA CutBefore ==
  ASSUME NEW S, NEW t \in Seq(S), NEW n \in 1..Len(t)
  PROVE  /\ Before(t, n) \in Seq(S) /\ Len(Before(t, n)) = n - 1
         /\ \A m \in 1..(n - 1) : Before(t, n)[m] = t[m]
<1>1. /\ SubSeq(t, 1, n - 1) \in Seq(S) /\ Len(SubSeq(t, 1, n - 1)) = n - 1
      /\ \A m \in 1..(n - 1) : SubSeq(t, 1, n - 1)[m] = t[m]
  BY Piece
<1> QED
  BY <1>1 DEF Before

LEMMA CutAfter ==
  ASSUME NEW S, NEW t \in Seq(S), NEW n \in 1..Len(t)
  PROVE  /\ After(t, n) \in Seq(S) /\ Len(After(t, n)) = Len(t) - n
         /\ \A m \in 1..(Len(t) - n) : After(t, n)[m] = t[n + m]
         /\ \A m \in (n + 1)..Len(t) : t[m] = After(t, n)[m - n]
<1> DEFINE i == n + 1
           L == Len(t)
<1>2. /\ i \in Nat \ {0} /\ L \in Nat /\ L - i + 1 = L - n /\ i <= L + 1
      /\ \A m \in 1..(L - n) : i + m - 1 = n + m
  OBVIOUS
<1>3. /\ SubSeq(t, i, L) \in Seq(S) /\ Len(SubSeq(t, i, L)) = L - n
      /\ \A m \in 1..(L - n) : SubSeq(t, i, L)[m] = t[n + m]
  <2> HIDE DEF i
  <2>1. /\ SubSeq(t, i, L) \in Seq(S)
        /\ Len(SubSeq(t, i, L)) = IF i <= L THEN L - i + 1 ELSE 0
        /\ \A m \in 1..(L - i + 1) : SubSeq(t, i, L)[m] = t[i + m - 1]
    BY <1>2, Piece
  <2> HIDE DEF L
  <2>2. Len(SubSeq(t, i, L)) = L - n
    BY <1>2, <2>1
  <2>3. \A m \in 1..(L - n) : SubSeq(t, i, L)[m] = t[n + m]
    BY <1>2, <2>1
  <2> QED
    BY <2>1, <2>2, <2>3
<1>4. After(t, n) = SubSeq(t, i, L)
  BY DEF After, From
<1>5. \A m \in (n + 1)..Len(t) : m - n \in 1..(L - n) /\ n + (m - n) = m
  OBVIOUS
<1> HIDE DEF i, L
<1>6. \A m \in (n + 1)..Len(t) : t[m] = After(t, n)[m - n]
  BY <1>3, <1>4, <1>5
<1> QED
  BY <1>3, <1>4, <1>6 DEF L

LEMMA Cut ==
  ASSUME NEW S, NEW t \in Seq(S), NEW n \in 1..Len(t)
  PROVE  /\ Before(t, n) \in Seq(S) /\ Len(Before(t, n)) = n - 1
         /\ \A m \in 1..(n - 1) : Before(t, n)[m] = t[m]
         /\ After(t, n) \in Seq(S) /\ Len(After(t, n)) = Len(t) - n
         /\ \A m \in 1..(Len(t) - n) : After(t, n)[m] = t[n + m]
         /\ \A m \in (n + 1)..Len(t) : t[m] = After(t, n)[m - n]
<1> DEFINE p == Before(t, n)
           q == After(t, n)
<1>1. p \in Seq(S) /\ Len(p) = n - 1 /\ \A m \in 1..(n - 1) : p[m] = t[m]
  BY CutBefore
<1>2. /\ q \in Seq(S) /\ Len(q) = Len(t) - n
      /\ \A m \in 1..(Len(t) - n) : q[m] = t[n + m]
      /\ \A m \in (n + 1)..Len(t) : t[m] = q[m - n]
  BY CutAfter
<1> HIDE DEF p, q
<1>3. /\ p \in Seq(S) /\ Len(p) = n - 1 /\ \A m \in 1..(n - 1) : p[m] = t[m]
      /\ q \in Seq(S) /\ Len(q) = Len(t) - n
      /\ \A m \in 1..(Len(t) - n) : q[m] = t[n + m]
      /\ \A m \in (n + 1)..Len(t) : t[m] = q[m - n]
  BY <1>1, <1>2
<1> QED
  BY <1>3 DEF p, q

-----------------------------------------------------------------------------
(* The characters of the rules.                                            *)

HostChars == Unreserved \cup SubDelims
UserChars == Unreserved \cup SubDelims \cup {":"}
HostPortChars == UserChars \cup {"[", "]"}
AuthorityChars == HostPortChars \cup {"@"}
PathChars == PChars \cup {"/"}
HierChars == PathChars \cup {"[", "]"}
QueryChars == PChars \cup {"/", "?"}
UriChars == HierChars \cup {"?", "#"}

\* Each rule allows hexadecimal digits and does not allow what delimits it.
LEMMA CharacterSets ==
  /\ HexDigits \subseteq HostChars /\ Digits \subseteq HostChars
  /\ HostChars \subseteq UserChars /\ UserChars \subseteq HostPortChars
  /\ HostPortChars \subseteq AuthorityChars /\ AuthorityChars \subseteq HierChars
  /\ UserChars \subseteq PathChars
  /\ PathChars \subseteq HierChars /\ PathChars \subseteq QueryChars
  /\ HierChars \subseteq UriChars /\ QueryChars \subseteq UriChars
  /\ SchemeCharacters \subseteq UriChars /\ Letters \subseteq SchemeCharacters
  /\ "%" \notin UriChars /\ " " \notin UriChars
  /\ "#" \notin HierChars /\ "#" \notin QueryChars /\ "?" \notin HierChars
  /\ "/" \notin AuthorityChars /\ "@" \notin HostPortChars
  /\ "[" \notin UserChars /\ "]" \notin UserChars /\ ":" \notin HostChars
  /\ ":" \notin SchemeCharacters /\ ":" \in UserChars
  /\ "." \notin HexDigits /\ "." \in UserChars /\ {"v", "V"} \subseteq UserChars
  /\ Digits \cap {":", "[", "]", "@"} = {}
BY DEF HostChars, UserChars, HostPortChars, AuthorityChars, PathChars, HierChars,
       QueryChars, UriChars, SchemeCharacters, PChars, Unreserved, SubDelims,
       HexDigits, Digits, Letters

LEMMA CharsWider ==
  ASSUME NEW t, NEW C, NEW D, Chars(t, C), C \subseteq D
  PROVE  Chars(t, D)
BY DEF Chars

LEMMA AllInIsChars ==
  ASSUME NEW t, NEW C, AllIn(t, C)
  PROVE  Chars(t, C)
BY DEF Chars, AllIn

\* Two pieces with an allowed character between them.
LEMMA CharsJoin ==
  ASSUME NEW S, NEW t \in Seq(S), NEW n \in 1..Len(t), NEW C, t[n] \in C,
         Chars(Before(t, n), C), Chars(After(t, n), C)
  PROVE  Chars(t, C)
<1> DEFINE p == Before(t, n)
           q == After(t, n)
<1>1. /\ Len(p) = n - 1 /\ Len(q) = Len(t) - n
      /\ \A m \in 1..(n - 1) : p[m] = t[m]
      /\ \A m \in (n + 1)..Len(t) : t[m] = q[m - n]
      /\ \A m \in 1..(Len(t) - n) : q[m] = t[n + m]
  <2>1. Len(p) = n - 1 /\ \A m \in 1..(n - 1) : p[m] = t[m]
    BY CutBefore
  <2>2. /\ Len(q) = Len(t) - n
        /\ \A m \in (n + 1)..Len(t) : t[m] = q[m - n]
        /\ \A m \in 1..(Len(t) - n) : q[m] = t[n + m]
    BY CutAfter
  <2> QED
    BY <2>1, <2>2
<1>2. Chars(p, C) /\ Chars(q, C)
  OBVIOUS
<1> HIDE DEF p, q
<1> SUFFICES ASSUME NEW m \in 1..Len(t)
             PROVE  t[m] \in C \/ (t[m] = "%" /\ Triplet(t, m))
  BY DEF Chars
<1>L. Len(t) \in Nat
  OBVIOUS
<1>3. CASE m < n
  <2>1. p[m] \in C \/ (p[m] = "%" /\ Triplet(p, m))
    BY <1>1, <1>2, <1>3 DEF Chars
  <2>2. Triplet(p, m) => Triplet(t, m)
    BY <1>1, <1>3 DEF Triplet
  <2> QED
    BY <1>1, <1>3, <2>1, <2>2
<1>4. CASE m = n
  BY <1>4
<1>5. CASE m > n
  <2>1. m - n \in 1..Len(q) /\ t[m] = q[m - n]
    BY <1>1, <1>5
  <2>2. q[m - n] \in C \/ (q[m - n] = "%" /\ Triplet(q, m - n))
    BY <1>2, <2>1 DEF Chars
  <2>3. ASSUME Triplet(q, m - n) PROVE Triplet(t, m)
    <3>1. /\ m - n + 2 <= Len(q)
          /\ q[m - n + 1] \in HexDigits /\ q[m - n + 2] \in HexDigits
      BY <2>3 DEF Triplet
    <3>2. /\ m + 1 \in (n + 1)..Len(t) /\ m + 2 \in (n + 1)..Len(t)
          /\ (m + 1) - n = m - n + 1 /\ (m + 2) - n = m - n + 2
      BY <1>1, <1>5, <3>1
    <3>3. t[m + 1] = q[(m + 1) - n] /\ t[m + 2] = q[(m + 2) - n]
      BY <1>1, <3>2
    <3>4. t[m + 1] = q[m - n + 1] /\ t[m + 2] = q[m - n + 2]
      BY <3>2, <3>3
    <3> QED
      BY <3>1, <3>2, <3>4 DEF Triplet
  <2> QED
    BY <2>1, <2>2, <2>3
<1> QED
  BY <1>3, <1>4, <1>5

-----------------------------------------------------------------------------
(* Hosts and ports.                                                        *)

LEMMA PieceAllIn ==
  ASSUME NEW S, NEW t \in Seq(S), NEW a \in Nat \ {0}, NEW b \in Int, b <= Len(t), NEW C
  PROVE  AllIn(SubSeq(t, a, b), C) <=> \A m \in a..b : t[m] \in C
<1> DEFINE p == SubSeq(t, a, b)
<1>1. /\ Len(p) = IF a <= b THEN b - a + 1 ELSE 0
      /\ \A m \in 1..(b - a + 1) : p[m] = t[a + m - 1]
  BY Piece
<1> HIDE DEF p
<1>2. ASSUME \A m \in a..b : t[m] \in C, NEW m \in 1..Len(p) PROVE p[m] \in C
  <2>1. m \in 1..(b - a + 1) /\ a + m - 1 \in a..b
    BY <1>1
  <2> QED
    BY <1>1, <1>2, <2>1
<1>3. ASSUME \A m \in 1..Len(p) : p[m] \in C, NEW m \in a..b PROVE t[m] \in C
  <2>1. m - a + 1 \in 1..Len(p) /\ m - a + 1 \in 1..(b - a + 1)
        /\ a + (m - a + 1) - 1 = m
    BY <1>1
  <2>2. p[m - a + 1] = t[a + (m - a + 1) - 1]
    BY <1>1, <2>1
  <2> QED
    BY <1>3, <2>1, <2>2
<1> QED
  BY <1>2, <1>3 DEF AllIn, p

\* The first dot is the dot of the rule.
LEMMA FutureIs ==
  ASSUME NEW S, NEW t \in Seq(S)
  PROVE  IsIPvFuture(t) <=> IPvFuture(t)
<1>1. Len(t) \in Nat /\ (t # <<>> => Head(t) = t[1]) /\ (t # <<>> <=> Len(t) >= 1)
  OBVIOUS
<1>2. ASSUME IsIPvFuture(t) PROVE IPvFuture(t)
  <2> DEFINE dot == Find(t, {"."}, 2)
  <2>1. /\ Len(t) >= 4 /\ t[1] \in {"v", "V"} /\ dot \notin {2, Len(t), Len(t) + 1}
        /\ AllIn(SubSeq(t, 2, dot - 1), HexDigits)
        /\ AllIn(From(t, dot + 1), Unreserved \cup SubDelims \cup {":"})
    BY <1>2 DEF IsIPvFuture
  <2>2. IsFirst(t, {"."}, 2, dot)
    BY <2>1, Finds
  <2> HIDE DEF dot
  <2>3. dot \in 3..(Len(t) - 1) /\ t[dot] = "."
    BY <1>1, <2>1, <2>2 DEF IsFirst
  <2> QED
    BY <1>1, <2>1, <2>3 DEF IPvFuture, After
<1>3. ASSUME IPvFuture(t) PROVE IsIPvFuture(t)
  <2>1. PICK n \in 3..(Len(t) - 1) :
          /\ t[n] = "." /\ AllIn(SubSeq(t, 2, n - 1), HexDigits)
          /\ AllIn(After(t, n), Unreserved \cup SubDelims \cup {":"})
    BY <1>3 DEF IPvFuture
  <2>2. \A k \in 2..(n - 1) : t[k] \in HexDigits
    BY <1>1, <2>1, PieceAllIn
  <2>3. IsFirst(t, {"."}, 2, n)
    <3>1. \A k \in 2..(n - 1) : t[k] \notin {"."}
      BY <2>2, CharacterSets
    <3>2. n \in 2..(Len(t) + 1) /\ n <= Len(t) /\ t[n] \in {"."}
      BY <1>1, <2>1
    <3> QED
      BY <3>1, <3>2 DEF IsFirst
  <2>4. Find(t, {"."}, 2) = n
    BY <1>1, <2>3, FindIs
  <2>5. t # <<>> /\ t[1] \in {"v", "V"} /\ Len(t) >= 4 /\ n \notin {2, Len(t), Len(t) + 1}
    BY <1>1, <1>3 DEF IPvFuture
  <2> QED
    BY <2>1, <2>4, <2>5 DEF IsIPvFuture, After
<1> QED
  BY <1>2, <1>3

Literal(t) == IPvFuture(t) \/ IsIPv6Address(t)

\* No literal is empty, and none has a bracket in it.
LEMMA LiteralChars ==
  ASSUME NEW S, NEW t \in Seq(S), Literal(t)
  PROVE  /\ Len(t) >= 1
         /\ \A m \in 1..Len(t) : t[m] \in UserChars
<1>1. Len(t) \in Nat /\ (t # <<>> => Head(t) = t[1]) /\ (t # <<>> <=> Len(t) >= 1)
  OBVIOUS
<1>2. HexDigits \subseteq UserChars /\ "." \in UserChars /\ ":" \in UserChars
      /\ {"v", "V"} \subseteq UserChars
  BY CharacterSets
<1>3. CASE IPvFuture(t)
  <2>1. PICK n \in 3..(Len(t) - 1) :
          /\ t[n] = "." /\ AllIn(SubSeq(t, 2, n - 1), HexDigits)
          /\ AllIn(SubSeq(t, n + 1, Len(t)), UserChars)
    BY <1>3 DEF IPvFuture, After, From, UserChars
  <2>2. \A k \in 2..(n - 1) : t[k] \in HexDigits
    BY <1>1, <2>1, PieceAllIn
  <2>3. \A k \in (n + 1)..Len(t) : t[k] \in UserChars
    BY <1>1, <2>1, PieceAllIn
  <2>4. t[1] \in UserChars
    BY <1>1, <1>2, <1>3 DEF IPvFuture
  <2>5. \A m \in 1..Len(t) : m = 1 \/ m \in 2..(n - 1) \/ m = n \/ m \in (n + 1)..Len(t)
    BY <1>1, <2>1
  <2> QED
    BY <1>1, <1>2, <2>1, <2>2, <2>3, <2>4, <2>5
<1>4. CASE IsIPv6Address(t)
  <2>1. PICK n \in 1..(Len(t) - 1) :
          /\ t[n] = ":" /\ t[n + 1] = ":"
          /\ AllIn(SubSeq(t, 1, n - 1), HexDigits \cup {":"})
          /\ AllIn(SubSeq(t, n + 2, Len(t)), HexDigits \cup {":"})
    BY <1>4 DEF IsIPv6Address, From
  <2>2. \A k \in 1..(n - 1) : t[k] \in HexDigits \cup {":"}
    BY <1>1, <2>1, PieceAllIn
  <2>3. \A k \in (n + 2)..Len(t) : t[k] \in HexDigits \cup {":"}
    BY <1>1, <2>1, PieceAllIn
  <2>4. \A m \in 1..Len(t) : m \in 1..(n - 1) \/ m = n \/ m = n + 1 \/ m \in (n + 2)..Len(t)
    BY <1>1, <2>1
  <2> QED
    BY <1>1, <1>2, <2>1, <2>2, <2>3, <2>4
<1> QED
  BY <1>3, <1>4 DEF Literal

\* A host in brackets, and the places of its characters.
Bracketed(t) ==
  /\ Len(t) >= 2 /\ t[1] = "[" /\ t[Len(t)] = "]"
  /\ Literal(SubSeq(t, 2, Len(t) - 1))

LEMMA BracketedChars ==
  ASSUME NEW S, NEW t \in Seq(S), Bracketed(t)
  PROVE  /\ Len(t) >= 3
         /\ \A m \in 2..(Len(t) - 1) : t[m] \in UserChars
<1> DEFINE p == SubSeq(t, 2, Len(t) - 1)
<1>1. p \in Seq(S) /\ Len(p) = IF 2 <= Len(t) - 1 THEN Len(t) - 2 ELSE 0
  BY Piece DEF Bracketed
<1>2. Literal(p)
  BY DEF Bracketed
<1>3. Len(p) >= 1 /\ AllIn(p, UserChars)
  <2> HIDE DEF p
  <2> QED
    BY <1>1, <1>2, LiteralChars DEF AllIn
<1>4. Len(t) >= 3
  BY <1>1, <1>3
<1>5. \A m \in 2..(Len(t) - 1) : t[m] \in UserChars
  BY <1>3, PieceAllIn
<1> QED
  BY <1>4, <1>5

LEMMA PieceHasNot ==
  ASSUME NEW S, NEW t \in Seq(S), NEW a \in Nat \ {0}, NEW b \in Int, b <= Len(t), NEW C
  PROVE  ~Has(SubSeq(t, a, b), C) <=> \A m \in a..b : t[m] \notin C
<1> DEFINE p == SubSeq(t, a, b)
<1>1. /\ Len(p) = IF a <= b THEN b - a + 1 ELSE 0
      /\ \A m \in 1..(b - a + 1) : p[m] = t[a + m - 1]
  BY Piece
<1> HIDE DEF p
<1>2. ASSUME \A m \in a..b : t[m] \notin C, NEW m \in 1..Len(p) PROVE p[m] \notin C
  <2>1. m \in 1..(b - a + 1) /\ a + m - 1 \in a..b
    BY <1>1
  <2> QED
    BY <1>1, <1>2, <2>1
<1>3. ASSUME \A m \in 1..Len(p) : p[m] \notin C, NEW m \in a..b PROVE t[m] \notin C
  <2>1. m - a + 1 \in 1..Len(p) /\ m - a + 1 \in 1..(b - a + 1)
        /\ a + (m - a + 1) - 1 = m
    BY <1>1
  <2>2. p[m - a + 1] = t[a + (m - a + 1) - 1]
    BY <1>1, <2>1
  <2> QED
    BY <1>3, <2>1, <2>2
<1> QED
  BY <1>2, <1>3 DEF Has, p

LEMMA HostIs ==
  ASSUME NEW t
  PROVE  Host(t) <=> Chars(t, HostChars) \/ Bracketed(t)
BY DEF Host, HostChars, Bracketed, Literal

\* t is a host in brackets that close there, and perhaps a port.
BracketsClose(t, close) ==
  /\ close \in 3..Len(t) /\ t[close] = "]"
  /\ Literal(SubSeq(t, 2, close - 1))
  /\ \/ close = Len(t)
     \/ /\ close < Len(t) /\ t[close + 1] = ":"
        /\ \A m \in (close + 2)..Len(t) : t[m] \in Digits

LEMMA ClosedChars ==
  ASSUME NEW S, NEW t \in Seq(S), NEW close, BracketsClose(t, close)
  PROVE  /\ close \in 3..Len(t)
         /\ \A m \in 2..(close - 1) : t[m] \in UserChars
         /\ \A m \in (close + 1)..Len(t) : t[m] \in Digits \cup {":"}
<1>1. close \in 3..Len(t) /\ close <= Len(t) /\ close \in Int
  BY DEF BracketsClose
<1> DEFINE p == SubSeq(t, 2, close - 1)
<1>2. p \in Seq(S)
  BY <1>1, Piece
<1>3. AllIn(p, UserChars)
  <2>1. Literal(p)
    BY DEF BracketsClose
  <2> HIDE DEF p
  <2> QED
    BY <1>2, <2>1, LiteralChars DEF AllIn
<1>4. \A m \in 2..(close - 1) : t[m] \in UserChars
  BY <1>1, <1>3, PieceAllIn
<1>5. \A m \in (close + 1)..Len(t) : m = close + 1 \/ m \in (close + 2)..Len(t)
  BY <1>1
<1>6. \A m \in (close + 1)..Len(t) : t[m] \in Digits \cup {":"}
  BY <1>1, <1>5 DEF BracketsClose
<1> QED
  BY <1>1, <1>4, <1>6

\* What the code takes for a host in brackets.
LEMMA BracketedIs ==
  ASSUME NEW S, NEW t \in Seq(S), Len(t) >= 1, t[1] = "["
  PROVE  ValidBracketed(t) <=> \E close : BracketsClose(t, close)
<1> DEFINE L == Len(t)
<1>0. L \in Nat /\ L >= 1
  OBVIOUS
<1>1. ASSUME NEW close \in 1..L
      PROVE  LET rest == SubSeq(t, close + 1, L) IN
             /\ rest = <<>> <=> close = L
             /\ close < L => Head(rest) = t[close + 1] /\ Tail(rest) = SubSeq(t, close + 2, L)
             /\ AllIn(SubSeq(t, close + 2, L), Digits)
                  <=> \A m \in (close + 2)..L : t[m] \in Digits
  <2> DEFINE rest == SubSeq(t, close + 1, L)
             i == close + 1
             j == close + 2
  <2>1. i \in Nat \ {0} /\ j \in Nat \ {0} /\ L \in Int /\ L <= Len(t) /\ j = i + 1
    BY <1>0
  <2>2. Len(rest) = L - close /\ rest \in Seq(S)
    <3> HIDE DEF i
    <3>1. /\ SubSeq(t, i, L) \in Seq(S)
          /\ Len(SubSeq(t, i, L)) = IF i <= L THEN L - i + 1 ELSE 0
      BY <2>1, Piece
    <3> QED
      BY <1>0, <3>1 DEF i
  <2>3. rest = <<>> <=> close = L
    <3> HIDE DEF rest, L
    <3> QED
      BY <1>0, <2>2
  <2>4. ASSUME close < L
        PROVE  Head(rest) = t[close + 1] /\ Tail(rest) = SubSeq(t, close + 2, L)
    <3>1. i \in 1..Len(t) /\ L \in i..Len(t)
      BY <1>0, <2>4
    <3> HIDE DEF i
    <3>2. Head(SubSeq(t, i, L)) = t[i] /\ Tail(SubSeq(t, i, L)) = SubSeq(t, i + 1, L)
      BY <3>1, HeadTailOfSubSeq
    <3>3. i + 1 = close + 2
      BY DEF i
    <3> QED
      BY <3>2, <3>3 DEF i
  <2>5. AllIn(SubSeq(t, j, L), Digits) <=> \A m \in j..L : t[m] \in Digits
    <3> HIDE DEF j
    <3> QED
      BY <2>1, PieceAllIn
  <2> QED
    BY <2>3, <2>4, <2>5
<1>2. ASSUME ValidBracketed(t) PROVE \E close : BracketsClose(t, close)
  <2> DEFINE close == Find(t, {"]"}, 1)
             rest == SubSeq(t, close + 1, L)
  <2>1. /\ close <= L /\ close # 2
        /\ IsIPvFuture(SubSeq(t, 2, close - 1)) \/ IsIPv6Address(SubSeq(t, 2, close - 1))
        /\ rest = <<>> \/ (Head(rest) = ":" /\ AllIn(Tail(rest), Digits))
    BY <1>2 DEF ValidBracketed, From, ValidPort
  <2>2. IsFirst(t, {"]"}, 1, close)
    BY <1>0, Finds
  <2> HIDE DEF close
  <2>3. close \in 3..L /\ close \in 1..L /\ t[close] = "]"
    <3>1. close \in 1..(L + 1) /\ t[close] = "]"
      BY <1>0, <2>1, <2>2 DEF IsFirst
    <3>2. close # 1
      BY <3>1
    <3> QED
      BY <1>0, <2>1, <3>1, <3>2
  <2>4. Literal(SubSeq(t, 2, close - 1))
    <3>1. SubSeq(t, 2, close - 1) \in Seq(S)
      BY <2>3, Piece
    <3> QED
      BY <2>1, <3>1, FutureIs DEF Literal
  <2>5. close = L \/ (close < L /\ t[close + 1] = ":"
                      /\ \A m \in (close + 2)..L : t[m] \in Digits)
    <3>1. CASE close = L
      BY <3>1
    <3>2. CASE close # L
      <4>1. close < L
        BY <2>3, <3>2
      <4>2. rest # <<>> /\ Head(rest) = t[close + 1] /\ Tail(rest) = SubSeq(t, close + 2, L)
        BY <1>1, <2>3, <3>2, <4>1
      <4>3. AllIn(SubSeq(t, close + 2, L), Digits) /\ t[close + 1] = ":"
        BY <2>1, <4>2
      <4> QED
        BY <1>1, <2>3, <4>1, <4>3
    <3> QED
      BY <3>1, <3>2
  <2> QED
    BY <2>3, <2>4, <2>5 DEF BracketsClose
<1>3. ASSUME NEW close, BracketsClose(t, close) PROVE ValidBracketed(t)
  <2> DEFINE rest == SubSeq(t, close + 1, L)
  <2>1. /\ close \in 3..L /\ close \in 1..L
        /\ \A m \in 2..(close - 1) : t[m] \in UserChars
        /\ \A m \in (close + 1)..L : t[m] \in Digits \cup {":"}
        /\ t[close] = "]"
    <3>1. /\ close \in 3..L
          /\ \A m \in 2..(close - 1) : t[m] \in UserChars
          /\ \A m \in (close + 1)..L : t[m] \in Digits \cup {":"}
      BY <1>3, ClosedChars
    <3>2. t[close] = "]"
      BY <1>3 DEF BracketsClose
    <3> QED
      BY <1>0, <3>1, <3>2
  <2>2. IsFirst(t, {"]"}, 1, close)
    <3>1. \A k \in 1..(close - 1) : k = 1 \/ k \in 2..(close - 1)
      BY <2>1
    <3>2. \A k \in 1..(close - 1) : t[k] \notin {"]"}
      BY <2>1, <3>1, CharacterSets
    <3> QED
      BY <1>0, <2>1, <3>2 DEF IsFirst
  <2>3. Find(t, {"]"}, 1) = close
    BY <1>0, <2>2, FindIs
  <2>4. ~Has(SubSeq(t, 2, L), {"["})
    <3>1. \A k \in 2..L : k \in 2..(close - 1) \/ k = close \/ k \in (close + 1)..L
      BY <2>1
    <3>2. \A k \in 2..L : t[k] \notin {"["}
      BY <2>1, <3>1, CharacterSets
    <3> QED
      BY <1>0, <3>2, PieceHasNot
  <2>5. ~Has(rest, {"]"})
    <3>1. \A k \in (close + 1)..L : t[k] \notin {"]"}
      BY <2>1, CharacterSets
    <3>2. close + 1 \in Nat \ {0} /\ L \in Int /\ L <= Len(t)
      BY <1>0, <2>1
    <3> QED
      BY <3>1, <3>2, PieceHasNot
  <2>6. IsIPvFuture(SubSeq(t, 2, close - 1)) \/ IsIPv6Address(SubSeq(t, 2, close - 1))
    <3>1. SubSeq(t, 2, close - 1) \in Seq(S)
      BY <2>1, Piece
    <3> QED
      BY <1>3, <3>1, FutureIs DEF BracketsClose, Literal
  <2>7. rest = <<>> \/ (Head(rest) = ":" /\ AllIn(Tail(rest), Digits))
    BY <1>1, <1>3, <2>1 DEF BracketsClose
  <2>8. close <= L /\ close # 2
    BY <1>0, <2>1
  <2> QED
    BY <2>3, <2>4, <2>5, <2>6, <2>7, <2>8 DEF ValidBracketed, From, ValidPort
<1> QED
  BY <1>2, <1>3

\* What the grammar takes for one.
LEMMA BracketHostPort ==
  ASSUME NEW S, NEW t \in Seq(S), Len(t) >= 1, t[1] = "["
  PROVE  HostPort(t) <=> \E close : BracketsClose(t, close)
<1> DEFINE L == Len(t)
<1>0. L \in Nat /\ L >= 1
  OBVIOUS
<1>1. ASSUME NEW u \in Seq(S), Len(u) >= 1, u[1] = "[", Host(u) PROVE Bracketed(u)
  <2>1. Chars(u, HostChars) => u[1] \in HostChars \/ u[1] = "%"
    BY <1>1 DEF Chars
  <2> QED
    BY <1>1, <2>1, HostIs, CharacterSets
<1>2. ASSUME Bracketed(t) PROVE BracketsClose(t, L)
  BY <1>2, BracketedChars DEF BracketsClose, Bracketed
<1>3. ASSUME NEW n \in 1..L, t[n] = ":", Host(Before(t, n)), AllIn(After(t, n), Digits)
      PROVE  BracketsClose(t, n - 1)
  <2> DEFINE u == Before(t, n)
  <2>1. n >= 2
    BY <1>3
  <2>2. u \in Seq(S) /\ Len(u) = n - 1 /\ \A m \in 1..(n - 1) : u[m] = t[m]
    BY Cut
  <2>3. Bracketed(u)
    BY <1>1, <1>3, <2>1, <2>2
  <2>4. Len(u) >= 3
    BY <2>2, <2>3, BracketedChars
  <2>5. SubSeq(u, 2, n - 2) = SubSeq(t, 2, n - 2)
    <3> DEFINE b == n - 1
               d == n - 2
    <3>1. /\ b \in Int /\ b <= Len(t) /\ 1 <= b + 1 /\ d \in Int /\ d <= b - 1 + 1
          /\ 2 <= d + 1 /\ 1 + d - 1 = d
      BY <2>2, <2>4
    <3> HIDE DEF b, d
    <3>2. SubSeq(SubSeq(t, 1, b), 2, d) = SubSeq(t, 1 + 2 - 1, 1 + d - 1)
      BY <3>1, PieceOfPiece
    <3>3. SubSeq(SubSeq(t, 1, b), 2, d) = SubSeq(t, 2, d)
      BY <3>1, <3>2
    <3> QED
      BY <3>3 DEF b, d, Before
  <2> HIDE DEF u
  <2>6. Literal(SubSeq(t, 2, n - 2))
    <3>1. Len(u) - 1 = n - 2
      BY <2>2
    <3> QED
      BY <2>3, <2>5, <3>1 DEF Bracketed
  <2>7. t[n - 1] = "]" /\ n - 1 \in 3..L
    BY <2>1, <2>2, <2>3, <2>4 DEF Bracketed
  <2>8. \A m \in (n + 1)..L : t[m] \in Digits
    <3>1. AllIn(SubSeq(t, n + 1, L), Digits) /\ n + 1 \in Nat \ {0} /\ L \in Int /\ L <= Len(t)
      BY <1>0, <1>3 DEF After, From
    <3> QED
      BY <3>1, PieceAllIn
  <2>9. /\ n - 1 < L /\ (n - 1) + 1 = n /\ (n - 1) - 1 = n - 2 /\ (n - 1) + 2 = n + 1
    BY <2>1
  <2> QED
    BY <1>3, <2>6, <2>7, <2>8, <2>9 DEF BracketsClose
<1>4. ASSUME NEW close, BracketsClose(t, close), close = L PROVE Bracketed(t)
  BY <1>0, <1>4 DEF BracketsClose, Bracketed
<1>5. ASSUME NEW close, BracketsClose(t, close), close < L
      PROVE  /\ close + 1 \in 1..L /\ t[close + 1] = ":"
             /\ Host(Before(t, close + 1)) /\ AllIn(After(t, close + 1), Digits)
  <2> DEFINE n == close + 1
             u == Before(t, n)
  <2>1. /\ close \in 3..L /\ t[close] = "]" /\ Literal(SubSeq(t, 2, close - 1))
        /\ t[close + 1] = ":" /\ \A m \in (close + 2)..L : t[m] \in Digits
    BY <1>0, <1>5 DEF BracketsClose
  <2>2. n \in 1..L /\ n - 1 = close
    BY <1>5, <2>1
  <2>3. u \in Seq(S) /\ Len(u) = close /\ \A m \in 1..close : u[m] = t[m]
    <3> HIDE DEF n
    <3>1. u \in Seq(S) /\ Len(u) = n - 1 /\ \A m \in 1..(n - 1) : u[m] = t[m]
      BY <2>2, Cut
    <3> QED
      BY <2>2, <3>1
  <2>4. SubSeq(u, 2, close - 1) = SubSeq(t, 2, close - 1)
    <3> DEFINE d == close - 1
    <3>1. /\ close \in Int /\ close <= Len(t) /\ 1 <= close + 1 /\ d \in Int
          /\ d <= close - 1 + 1 /\ 2 <= d + 1 /\ 1 + d - 1 = d
      BY <2>1
    <3> HIDE DEF d
    <3>2. SubSeq(SubSeq(t, 1, close), 2, d) = SubSeq(t, 1 + 2 - 1, 1 + d - 1)
      BY <3>1, PieceOfPiece
    <3>3. SubSeq(SubSeq(t, 1, close), 2, d) = SubSeq(t, 2, d)
      BY <3>1, <3>2
    <3>4. u = SubSeq(t, 1, close)
      BY <2>2 DEF Before
    <3> QED
      BY <3>3, <3>4 DEF d
  <2> HIDE DEF u
  <2>5. Bracketed(u)
    <3>1. Len(u) - 1 = close - 1 /\ Len(u) >= 2 /\ u[Len(u)] = "]" /\ u[1] = "["
      BY <1>0, <2>1, <2>3
    <3> QED
      BY <2>1, <2>4, <3>1 DEF Bracketed
  <2>6. AllIn(SubSeq(t, close + 2, L), Digits)
    <3>1. close + 2 \in Nat \ {0} /\ L \in Int /\ L <= Len(t)
      BY <1>0, <2>1
    <3> QED
      BY <2>1, <3>1, PieceAllIn
  <2>7. After(t, n) = SubSeq(t, close + 2, L)
    <3>1. n + 1 = close + 2
      BY <2>1
    <3> HIDE DEF n
    <3> QED
      BY <3>1 DEF After, From
  <2> QED
    BY <2>1, <2>2, <2>5, <2>6, <2>7, HostIs DEF u
<1>6. ASSUME HostPort(t) PROVE \E close : BracketsClose(t, close)
  <2>1. CASE Host(t)
    BY <1>1, <1>2, <2>1
  <2>2. CASE \E n \in 1..L : t[n] = ":" /\ Host(Before(t, n)) /\ AllIn(After(t, n), Digits)
    BY <1>3, <2>2
  <2> QED
    BY <1>6, <2>1, <2>2 DEF HostPort
<1>7. ASSUME NEW close, BracketsClose(t, close) PROVE HostPort(t)
  <2>1. close = L \/ close < L
    BY <1>7 DEF BracketsClose
  <2>2. CASE close = L
    BY <1>4, <1>7, <2>2, HostIs DEF HostPort
  <2>3. CASE close < L
    <3>1. /\ close + 1 \in 1..L /\ t[close + 1] = ":"
          /\ Host(Before(t, close + 1)) /\ AllIn(After(t, close + 1), Digits)
      BY <1>5, <1>7, <2>3
    <3> QED
      BY <3>1 DEF HostPort
  <2> QED
    BY <2>1, <2>2, <2>3
<1> QED
  BY <1>6, <1>7

\* The characters of a piece that a rule derives.
LEMMA PieceChars ==
  ASSUME NEW S, NEW t \in Seq(S), NEW a \in Nat \ {0}, NEW b \in Int, b <= Len(t),
         NEW C, Chars(SubSeq(t, a, b), C)
  PROVE  \A m \in a..b : t[m] \in C \/ t[m] = "%"
<1> DEFINE p == SubSeq(t, a, b)
<1>1. AllIn(p, C \cup {"%"})
  BY DEF Chars, AllIn
<1>2. \A m \in a..b : t[m] \in C \cup {"%"}
  BY <1>1, PieceAllIn
<1> QED
  BY <1>2

LEMMA PlainHosts ==
  ASSUME NEW S, NEW t \in Seq(S), Len(t) >= 1 => t[1] # "["
  PROVE  /\ Host(t) <=> Chars(t, HostChars)
         /\ \A n \in 1..Len(t) : Host(Before(t, n)) <=> Chars(Before(t, n), HostChars)
<1>1. Host(t) <=> Chars(t, HostChars)
  BY HostIs DEF Bracketed
<1>2. ASSUME NEW n \in 1..Len(t)
      PROVE  Host(Before(t, n)) <=> Chars(Before(t, n), HostChars)
  <2>1. /\ Len(Before(t, n)) = n - 1
        /\ \A m \in 1..(n - 1) : Before(t, n)[m] = t[m]
    BY Cut
  <2>2. ~Bracketed(Before(t, n))
    BY <2>1 DEF Bracketed
  <2> QED
    BY <2>2, HostIs
<1> QED
  BY <1>1, <1>2

\* A host without brackets: its first colon begins the port.
LEMMA PlainHostPort ==
  ASSUME NEW S, NEW t \in Seq(S), Len(t) >= 1 => t[1] # "["
  PROVE  ValidHostPort(t) <=> HostPort(t)
<1> DEFINE L == Len(t)
<1>0. L \in Nat
  OBVIOUS
<1>c. HexDigits \subseteq HostChars /\ "%" \notin HostChars
      /\ HostChars = Unreserved \cup SubDelims
      /\ ":" \notin HostChars /\ "[" \notin HostChars /\ "]" \notin HostChars
      /\ Digits \cap {":", "[", "]"} = {}
  BY CharacterSets DEF HostChars
<1>1. ASSUME NEW n \in 1..(L + 1)
      PROVE  /\ ComponentMatches(SubSeq(t, 1, n - 1), HostChars)
                  <=> Chars(SubSeq(t, 1, n - 1), HostChars)
             /\ AllIn(From(t, n + 1), Digits) <=> \A m \in (n + 1)..L : t[m] \in Digits
             /\ ~Has(From(t, n + 1), {":"}) <=> \A m \in (n + 1)..L : t[m] \notin {":"}
  <2>1. SubSeq(t, 1, n - 1) \in Seq(S)
    BY Piece
  <2>2. n + 1 \in Nat \ {0} /\ L \in Int /\ L <= Len(t)
    BY <1>0
  <2>3. AllIn(SubSeq(t, n + 1, L), Digits) <=> \A m \in (n + 1)..L : t[m] \in Digits
    BY <2>2, PieceAllIn
  <2>4. ~Has(SubSeq(t, n + 1, L), {":"}) <=> \A m \in (n + 1)..L : t[m] \notin {":"}
    BY <2>2, PieceHasNot
  <2> QED
    BY <1>c, <2>1, <2>3, <2>4, MatchesIs DEF From
<1>2. ASSUME ValidHostPort(t) PROVE HostPort(t)
  <2> DEFINE n == Find(t, {":"}, 1)
  <2>1. IsFirst(t, {":"}, 1, n)
    BY <1>0, Finds
  <2>2. /\ ComponentMatches(SubSeq(t, 1, n - 1), HostChars)
        /\ AllIn(From(t, n + 1), Digits)
    BY <1>2, <1>c DEF ValidHostPort, ValidPort
  <2> HIDE DEF n
  <2>3. n \in 1..(L + 1) /\ (n <= L => t[n] = ":")
    BY <2>1 DEF IsFirst
  <2>4. Chars(SubSeq(t, 1, n - 1), HostChars)
    BY <1>1, <2>2, <2>3
  <2>5. CASE n <= L
    <3>1. Host(Before(t, n))
      BY <1>0, <2>3, <2>4, <2>5, PlainHosts DEF Before
    <3> QED
      BY <1>0, <2>2, <2>3, <2>5, <3>1 DEF HostPort, After
  <2>6. CASE ~(n <= L)
    <3>1. n - 1 = L
      BY <1>0, <2>3, <2>6
    <3>2. Chars(t, HostChars)
      BY <2>4, <3>1, WholePiece
    <3> QED
      BY <3>2, PlainHosts DEF HostPort
  <2> QED
    BY <2>5, <2>6
<1>3. ASSUME NEW n \in 1..(L + 1), n <= L => t[n] = ":",
             Chars(SubSeq(t, 1, n - 1), HostChars),
             \A m \in (n + 1)..L : t[m] \in Digits
      PROVE  ValidHostPort(t)
  <2>1. \A m \in 1..(n - 1) : t[m] \in HostChars \/ t[m] = "%"
    <3>1. n - 1 \in Int /\ n - 1 <= Len(t)
      BY <1>0
    <3> QED
      BY <1>3, <3>1, PieceChars
  <2>2. IsFirst(t, {":"}, 1, n)
    BY <1>0, <1>3, <1>c, <2>1 DEF IsFirst
  <2>3. Find(t, {":"}, 1) = n
    BY <1>0, <2>2, FindIs
  <2>4. \A m \in 1..L : m \in 1..(n - 1) \/ m = n \/ m \in (n + 1)..L
    BY <1>0
  <2>5. ~Has(t, {"[", "]"})
    BY <1>0, <1>3, <1>c, <2>1, <2>4 DEF Has
  <2>6. ~Has(From(t, n + 1), {":"}) /\ AllIn(From(t, n + 1), Digits)
        /\ ComponentMatches(SubSeq(t, 1, n - 1), Unreserved \cup SubDelims)
    BY <1>1, <1>3, <1>c
  <2> QED
    BY <2>3, <2>5, <2>6 DEF ValidHostPort, ValidPort
<1>4. ASSUME HostPort(t) PROVE ValidHostPort(t)
  <2>1. CASE Host(t)
    <3>1. Chars(t, HostChars)
      BY <2>1, PlainHosts
    <3>2. L + 1 \in 1..(L + 1) /\ ~(L + 1 <= L) /\ (L + 1) - 1 = L
          /\ \A m \in ((L + 1) + 1)..L : t[m] \in Digits
      BY <1>0
    <3>3. Chars(SubSeq(t, 1, (L + 1) - 1), HostChars)
      BY <3>1, <3>2, WholePiece
    <3> QED
      BY <1>3, <3>2, <3>3
  <2>2. CASE \E n \in 1..L : t[n] = ":" /\ Host(Before(t, n)) /\ AllIn(After(t, n), Digits)
    <3>1. PICK n \in 1..L : t[n] = ":" /\ Host(Before(t, n)) /\ AllIn(After(t, n), Digits)
      BY <2>2
    <3>2. Chars(SubSeq(t, 1, n - 1), HostChars)
      BY <3>1, PlainHosts DEF Before
    <3>3. \A m \in (n + 1)..L : t[m] \in Digits
      BY <1>0, <1>1, <3>1 DEF After
    <3> QED
      BY <1>0, <1>3, <3>1, <3>2, <3>3
  <2> QED
    BY <1>4, <2>1, <2>2 DEF HostPort
<1> QED
  BY <1>2, <1>4

\* What the code accepts after the user information.
ValidHostAndPort(t) ==
  IF t # <<>> /\ Head(t) = "[" THEN ValidBracketed(t) ELSE ValidHostPort(t)

LEMMA HostPortIs ==
  ASSUME NEW S, NEW t \in Seq(S)
  PROVE  ValidHostAndPort(t) <=> HostPort(t)
<1>1. (t # <<>> <=> Len(t) >= 1) /\ (t # <<>> => Head(t) = t[1])
  OBVIOUS
<1>2. CASE t # <<>> /\ Head(t) = "["
  BY <1>1, <1>2, BracketedIs, BracketHostPort DEF ValidHostAndPort
<1>3. CASE ~(t # <<>> /\ Head(t) = "[")
  BY <1>1, <1>3, PlainHostPort DEF ValidHostAndPort
<1> QED
  BY <1>2, <1>3

LEMMA HostPortHasChars ==
  ASSUME NEW S, NEW t \in Seq(S), HostPort(t)
  PROVE  Chars(t, HostPortChars)
<1>0. Len(t) \in Nat
  OBVIOUS
<1>c. /\ HostChars \subseteq HostPortChars /\ UserChars \subseteq HostPortChars
      /\ {"[", "]", ":"} \subseteq HostPortChars /\ Digits \subseteq HostPortChars
  BY CharacterSets DEF HostPortChars
<1>1. ASSUME NEW u \in Seq(S), Host(u) PROVE Chars(u, HostPortChars)
  <2>1. CASE Chars(u, HostChars)
    BY <1>c, <2>1, CharsWider
  <2>2. CASE Bracketed(u)
    <3>1. Len(u) \in Nat /\ \A m \in 2..(Len(u) - 1) : u[m] \in UserChars
      BY <2>2, BracketedChars
    <3>2. \A m \in 1..Len(u) : m = 1 \/ m = Len(u) \/ m \in 2..(Len(u) - 1)
      BY <3>1
    <3>3. AllIn(u, HostPortChars)
      BY <1>c, <2>2, <3>1, <3>2 DEF AllIn, Bracketed
    <3> QED
      BY <3>3, AllInIsChars
  <2> QED
    BY <1>1, <2>1, <2>2, HostIs
<1>2. CASE \E n \in 1..Len(t) : t[n] = ":" /\ Host(Before(t, n)) /\ AllIn(After(t, n), Digits)
  <2>1. PICK n \in 1..Len(t) : t[n] = ":" /\ Host(Before(t, n)) /\ AllIn(After(t, n), Digits)
    BY <1>2
  <2>2. Chars(Before(t, n), HostPortChars)
    BY <1>1, <2>1, Cut
  <2>3. Chars(After(t, n), HostPortChars)
    BY <1>c, <2>1, AllInIsChars, CharsWider
  <2> QED
    BY <1>c, <2>1, <2>2, <2>3, CharsJoin
<1> QED
  BY <1>1, <1>2 DEF HostPort

-----------------------------------------------------------------------------
(* Authorities and paths.                                                  *)

\* What spells a piece spells it where it stands.
LEMMA PieceSpelt ==
  ASSUME NEW S, NEW t \in Seq(S), NEW a \in Nat \ {0}, NEW b \in Int, b <= Len(t),
         NEW C, Chars(SubSeq(t, a, b), C)
  PROVE  \A m \in a..b : t[m] \in C \/ (t[m] = "%" /\ Triplet(t, m))
<1> DEFINE p == SubSeq(t, a, b)
<1>1. /\ Len(p) = IF a <= b THEN b - a + 1 ELSE 0
      /\ \A m \in 1..(b - a + 1) : p[m] = t[a + m - 1]
  BY Piece
<1>2. Chars(p, C)
  OBVIOUS
<1> HIDE DEF p
<1> TAKE m \in a..b
<1> DEFINE i == m - a + 1
<1>3. i \in 1..Len(p) /\ i \in 1..(b - a + 1) /\ a + i - 1 = m
  BY <1>1
<1> HIDE DEF i
<1>4. p[i] = t[m]
  BY <1>1, <1>3
<1>5. p[i] \in C \/ (p[i] = "%" /\ Triplet(p, i))
  BY <1>2, <1>3 DEF Chars
<1>6. ASSUME Triplet(p, i) PROVE Triplet(t, m)
  <2>1. i + 2 <= Len(p) /\ p[i + 1] \in HexDigits /\ p[i + 2] \in HexDigits
    BY <1>6 DEF Triplet
  <2>2. /\ i + 1 \in 1..(b - a + 1) /\ i + 2 \in 1..(b - a + 1)
        /\ a + (i + 1) - 1 = m + 1 /\ a + (i + 2) - 1 = m + 2 /\ m + 2 <= Len(t)
    BY <1>1, <1>3, <2>1
  <2>3. p[i + 1] = t[a + (i + 1) - 1] /\ p[i + 2] = t[a + (i + 2) - 1]
    BY <1>1, <2>2
  <2>4. p[i + 1] = t[m + 1] /\ p[i + 2] = t[m + 2]
    BY <2>2, <2>3
  <2> QED
    BY <2>1, <2>2, <2>4 DEF Triplet
<1> QED
  BY <1>4, <1>5, <1>6

\* The first at sign ends the user information.
LEMMA AuthorityIs ==
  ASSUME NEW S, NEW t \in Seq(S)
  PROVE  ValidAuthority(t) <=> Authority(t)
<1> DEFINE L == Len(t)
<1>0. L \in Nat
  OBVIOUS
<1>c. /\ HexDigits \subseteq UserChars /\ "%" \notin UserChars
      /\ UserChars = Unreserved \cup SubDelims \cup {":"}
      /\ "@" \notin UserChars /\ "@" \notin HostPortChars /\ "@" # "%"
  BY CharacterSets DEF UserChars
<1>1. ASSUME NEW n \in 1..L
      PROVE  /\ Before(t, n) \in Seq(S) /\ After(t, n) \in Seq(S)
             /\ ComponentMatches(Before(t, n), UserChars) <=> Chars(Before(t, n), UserChars)
             /\ ~Has(After(t, n), {"@"}) <=> \A m \in (n + 1)..L : t[m] \notin {"@"}
  <2>1. Before(t, n) \in Seq(S) /\ After(t, n) \in Seq(S)
    BY Cut
  <2>2. n + 1 \in Nat \ {0} /\ L \in Int /\ L <= Len(t)
    BY <1>0
  <2>3. ~Has(SubSeq(t, n + 1, L), {"@"}) <=> \A m \in (n + 1)..L : t[m] \notin {"@"}
    BY <2>2, PieceHasNot
  <2> QED
    BY <1>c, <2>1, <2>3, MatchesIs DEF After, From
<1>2. ASSUME ValidAuthority(t) PROVE Authority(t)
  <2> DEFINE n == Find(t, {"@"}, 1)
  <2>1. IsFirst(t, {"@"}, 1, n)
    BY <1>0, Finds
  <2>2. /\ n <= L => ComponentMatches(Before(t, n), UserChars)
        /\ ValidHostAndPort(IF n <= L THEN After(t, n) ELSE t)
    BY <1>2, <1>c DEF ValidAuthority, ValidHostAndPort, Before, After
  <2> HIDE DEF n
  <2>3. n \in 1..(L + 1) /\ (n <= L => t[n] = "@")
    BY <2>1 DEF IsFirst
  <2>4. CASE n <= L
    <3>1. n \in 1..L /\ ValidHostAndPort(After(t, n))
      BY <1>0, <2>2, <2>3, <2>4
    <3>2. Chars(Before(t, n), UserChars) /\ HostPort(After(t, n))
      BY <1>1, <2>2, <2>4, <3>1, HostPortIs
    <3> QED
      BY <1>c, <2>3, <2>4, <3>1, <3>2 DEF Authority
  <2>5. CASE ~(n <= L)
    BY <2>2, <2>5, HostPortIs DEF Authority
  <2> QED
    BY <2>4, <2>5
<1>3. ASSUME Authority(t), ~HostPort(t) PROVE ValidAuthority(t)
  <2>1. PICK n \in 1..L : /\ t[n] = "@" /\ Chars(Before(t, n), UserChars)
                          /\ HostPort(After(t, n))
    BY <1>3, <1>c DEF Authority
  <2>2. \A m \in 1..(n - 1) : t[m] # "@"
    <3>1. n - 1 \in Int /\ n - 1 <= Len(t)
      BY <1>0
    <3> QED
      BY <1>c, <2>1, <3>1, PieceChars DEF Before
  <2>3. \A m \in (n + 1)..L : t[m] # "@"
    <3>1. Chars(SubSeq(t, n + 1, L), HostPortChars)
      BY <1>1, <2>1, HostPortHasChars DEF After, From
    <3>2. n + 1 \in Nat \ {0} /\ L \in Int /\ L <= Len(t)
      BY <1>0
    <3> QED
      BY <1>c, <3>1, <3>2, PieceChars
  <2>4. IsFirst(t, {"@"}, 1, n)
    BY <1>0, <2>1, <2>2 DEF IsFirst
  <2>5. Find(t, {"@"}, 1) = n /\ n <= L
    BY <1>0, <2>4, FindIs
  <2>6. ~Has(After(t, n), {"@"}) /\ ValidHostAndPort(After(t, n))
    BY <1>1, <2>1, <2>3, HostPortIs
  <2>7. ComponentMatches(Before(t, n), UserChars)
    BY <1>1, <2>1
  <2> QED
    BY <1>c, <2>5, <2>6, <2>7 DEF ValidAuthority, ValidHostAndPort, Before, After
<1>4. ASSUME HostPort(t) PROVE ValidAuthority(t)
  <2>1. \A m \in 1..L : t[m] # "@"
    BY <1>4, <1>c, HostPortHasChars DEF Chars
  <2>2. IsFirst(t, {"@"}, 1, L + 1)
    BY <1>0, <2>1 DEF IsFirst
  <2>3. Find(t, {"@"}, 1) = L + 1 /\ ~(L + 1 <= L)
    BY <1>0, <2>2, FindIs
  <2>4. ValidHostAndPort(t)
    BY <1>4, HostPortIs
  <2> QED
    BY <2>3, <2>4 DEF ValidAuthority, ValidHostAndPort
<1> QED
  BY <1>2, <1>3, <1>4

LEMMA AuthorityHasChars ==
  ASSUME NEW S, NEW t \in Seq(S), Authority(t)
  PROVE  Chars(t, AuthorityChars)
<1>c. /\ HostPortChars \subseteq AuthorityChars /\ UserChars \subseteq AuthorityChars
      /\ "@" \in AuthorityChars /\ UserChars = Unreserved \cup SubDelims \cup {":"}
  BY CharacterSets DEF AuthorityChars, UserChars
<1>1. CASE HostPort(t)
  BY <1>1, <1>c, HostPortHasChars, CharsWider
<1>2. CASE ~HostPort(t)
  <2>1. PICK n \in 1..Len(t) : /\ t[n] = "@" /\ Chars(Before(t, n), UserChars)
                               /\ HostPort(After(t, n))
    BY <1>2, <1>c DEF Authority
  <2>2. Chars(Before(t, n), AuthorityChars)
    BY <1>c, <2>1, CharsWider
  <2>3. Chars(After(t, n), AuthorityChars)
    BY <1>c, <2>1, Cut, HostPortHasChars, CharsWider
  <2> QED
    BY <1>c, <2>1, <2>2, <2>3, CharsJoin
<1> QED
  BY <1>1, <1>2

LEMMA NoneSpelt ==
  ASSUME NEW C
  PROVE  Chars(<<>>, C)
BY DEF Chars

LEMMA TailPiece ==
  ASSUME NEW S, NEW t \in Seq(S), Len(t) >= 1
  PROVE  /\ Tail(t) = SubSeq(t, 2, Len(t)) /\ Tail(t) \in Seq(S)
         /\ Len(Tail(t)) = Len(t) - 1
         /\ Len(t) >= 2 => Head(Tail(t)) = t[2]
<1>1. Tail(t) \in Seq(S) /\ Len(Tail(t)) = Len(t) - 1
      /\ \A i \in 1..Len(Tail(t)) : Tail(t)[i] = t[i + 1]
  BY HeadTailProperties
<1>2. /\ SubSeq(t, 2, Len(t)) \in Seq(S)
      /\ Len(SubSeq(t, 2, Len(t))) = IF 2 <= Len(t) THEN Len(t) - 2 + 1 ELSE 0
      /\ \A m \in 1..(Len(t) - 2 + 1) : SubSeq(t, 2, Len(t))[m] = t[2 + m - 1]
  BY Piece
<1>3. Tail(t) = SubSeq(t, 2, Len(t))
  <2> DEFINE p == SubSeq(t, 2, Len(t))
             q == Tail(t)
  <2>1. Len(p) = Len(t) - 1
    <3>1. Len(p) = IF 2 <= Len(t) THEN Len(t) - 2 + 1 ELSE 0
      BY <1>2
    <3> DEFINE L == Len(t)
    <3>2. L \in Nat /\ L >= 1 /\ Len(p) = IF 2 <= L THEN L - 2 + 1 ELSE 0
      BY <3>1
    <3> HIDE DEF p, L
    <3>3. Len(p) = L - 1
      BY <3>2
    <3> QED
      BY <3>3 DEF L
  <2>2. \A m \in 1..(Len(t) - 1) : p[m] = t[m + 1]
    <3>1. \A m \in 1..(Len(t) - 1) : m \in 1..(Len(t) - 2 + 1) /\ 2 + m - 1 = m + 1
      OBVIOUS
    <3> QED
      BY <1>2, <3>1
  <2>3. p \in Seq(S) /\ q \in Seq(S) /\ Len(q) = Len(t) - 1
        /\ \A m \in 1..(Len(t) - 1) : q[m] = t[m + 1]
    BY <1>1, <1>2
  <2> HIDE DEF p, q
  <2>4. q = p
    BY <2>1, <2>2, <2>3, SeqEqual
  <2> QED
    BY <2>4 DEF p, q
<1> QED
  BY <1>1, <1>3

\* A path behind an authority begins where the first slash stands.
LEMMA NetPathIs ==
  ASSUME NEW S, NEW t \in Seq(S), Len(t) >= 2, t[1] = "/", t[2] = "/"
  PROVE  ValidHierPart(t) <=> HierPart(t)
<1> DEFINE L == Len(t)
           Net(n) == Authority(SubSeq(t, 3, n - 1)) /\ PathAbempty(From(t, n))
<1>0. L \in Nat /\ L >= 2
  OBVIOUS
<1>c. /\ HexDigits \subseteq PathChars /\ "%" \notin PathChars
      /\ PathChars = PChars \cup {"/"} /\ "/" \notin AuthorityChars /\ "/" # "%"
  BY CharacterSets DEF PathChars
<1>1. HierPart(t) <=> \E n \in 3..(L + 1) : Net(n)
  <2>1. t # <<>> /\ Head(t) = "/" /\ Tail(t) # <<>> /\ Head(Tail(t)) = "/"
    BY <1>0, TailPiece
  <2>2. ~PathRootless(t) /\ ~PathAbsolute(t)
    BY <2>1 DEF PathRootless, PathAbsolute
  <2> QED
    BY <1>0, <2>1, <2>2 DEF HierPart
<1>2. ASSUME NEW n \in 3..(L + 1)
      PROVE  /\ ValidAuthority(SubSeq(t, 3, n - 1)) <=> Authority(SubSeq(t, 3, n - 1))
             /\ ComponentMatches(From(t, n), PathChars) <=> Segments(From(t, n))
             /\ n = L + 1 => From(t, n) = <<>>
             /\ n # L + 1 => From(t, n) # <<>> /\ Head(From(t, n)) = t[n]
  <2>1. SubSeq(t, 3, n - 1) \in Seq(S)
    BY <1>0, Piece
  <2>2. /\ SubSeq(t, n, L) \in Seq(S)
        /\ Len(SubSeq(t, n, L)) = IF n <= L THEN L - n + 1 ELSE 0
        /\ \A m \in 1..(L - n + 1) : SubSeq(t, n, L)[m] = t[n + m - 1]
    BY <1>0, Piece
  <2>3. ComponentMatches(SubSeq(t, n, L), PathChars) <=> Chars(SubSeq(t, n, L), PathChars)
    BY <1>c, <2>2, MatchesIs
  <2>4. n = L + 1 => SubSeq(t, n, L) = <<>>
    BY <1>0, <2>2
  <2>5. ASSUME n # L + 1 PROVE SubSeq(t, n, L) # <<>> /\ Head(SubSeq(t, n, L)) = t[n]
    <3> DEFINE p == SubSeq(t, n, L)
    <3>1. Len(p) >= 1
      BY <1>0, <2>2, <2>5
    <3>2. 1 \in 1..(L - n + 1) /\ n + 1 - 1 = n
      BY <1>0, <2>5
    <3>3. p[1] = t[n]
      BY <2>2, <3>2
    <3>4. p \in Seq(S)
      BY <2>2
    <3> HIDE DEF p
    <3>5. p # <<>> /\ Head(p) = t[n]
      BY <3>1, <3>3, <3>4
    <3> QED
      BY <3>5 DEF p
  <2> QED
    BY <1>c, <2>1, <2>3, <2>4, <2>5, AuthorityIs DEF Segments, From
<1>3. ValidHierPart(t)
        <=> LET n == Find(t, {"/"}, 3)
            IN ValidAuthority(SubSeq(t, 3, n - 1)) /\ ComponentMatches(From(t, n), PathChars)
  BY <1>c DEF ValidHierPart
<1>4. ASSUME ValidHierPart(t) PROVE \E n \in 3..(L + 1) : Net(n)
  <2> DEFINE n == Find(t, {"/"}, 3)
  <2>1. IsFirst(t, {"/"}, 3, n)
    BY <1>0, Finds
  <2>2. ValidAuthority(SubSeq(t, 3, n - 1)) /\ ComponentMatches(From(t, n), PathChars)
    BY <1>3, <1>4
  <2> HIDE DEF n
  <2>3. n \in 3..(L + 1) /\ (n <= L => t[n] = "/")
    BY <2>1 DEF IsFirst
  <2>4. Authority(SubSeq(t, 3, n - 1)) /\ Segments(From(t, n))
    BY <1>2, <2>2, <2>3
  <2>5. PathAbempty(From(t, n))
    BY <1>0, <1>2, <2>3, <2>4 DEF PathAbempty
  <2> QED
    BY <2>3, <2>4, <2>5
<1>5. ASSUME NEW n \in 3..(L + 1), Net(n) PROVE ValidHierPart(t)
  <2>1. \A m \in 3..(n - 1) : t[m] # "/"
    <3>1. Chars(SubSeq(t, 3, n - 1), AuthorityChars)
      <4> DEFINE p == SubSeq(t, 3, n - 1)
      <4>1. p \in Seq(S) /\ Authority(p)
        BY <1>0, <1>5, Piece
      <4> HIDE DEF p
      <4>2. Chars(p, AuthorityChars)
        BY <4>1, AuthorityHasChars
      <4> QED
        BY <4>2 DEF p
    <3>2. n - 1 \in Int /\ n - 1 <= Len(t)
      BY <1>0
    <3> QED
      BY <1>c, <3>1, <3>2, PieceChars
  <2>2. n <= L => t[n] = "/"
    BY <1>0, <1>2, <1>5 DEF PathAbempty
  <2>3. IsFirst(t, {"/"}, 3, n)
    BY <1>0, <2>1, <2>2 DEF IsFirst
  <2>4. Find(t, {"/"}, 3) = n
    BY <1>0, <2>3, FindIs
  <2>5. Segments(From(t, n))
    <3>1. From(t, n) = <<>> => Segments(From(t, n))
      BY DEF Segments, Chars
    <3> QED
      BY <1>5, <3>1 DEF PathAbempty
  <2> QED
    BY <1>2, <1>3, <1>5, <2>4, <2>5
<1> QED
  BY <1>1, <1>4, <1>5

LEMMA HierPartIs ==
  ASSUME NEW S, NEW t \in Seq(S)
  PROVE  ValidHierPart(t) <=> HierPart(t)
<1>0. Len(t) \in Nat /\ (t # <<>> <=> Len(t) >= 1) /\ (t # <<>> => Head(t) = t[1])
  OBVIOUS
<1>c. /\ HexDigits \subseteq PathChars /\ "%" \notin PathChars
      /\ PathChars = PChars \cup {"/"}
  BY CharacterSets DEF PathChars
<1>1. CASE Len(t) >= 2 /\ t[1] = "/" /\ t[2] = "/"
  BY <1>1, NetPathIs
<1>2. CASE t # <<>> /\ t[1] = "/" /\ ~(Len(t) >= 2 /\ t[2] = "/")
  <2>1. /\ Tail(t) = From(t, 2) /\ Tail(t) \in Seq(S) /\ Len(Tail(t)) = Len(t) - 1
        /\ Len(t) >= 2 => Head(Tail(t)) = t[2]
    BY <1>0, <1>2, TailPiece DEF From
  <2>2. ValidHierPart(t) <=> Segments(Tail(t))
    BY <1>2, <1>c, <2>1, MatchesIs DEF ValidHierPart, Segments
  <2>3. HierPart(t) <=> PathAbsolute(t)
    BY <1>0, <1>2 DEF HierPart, PathRootless
  <2>4. Tail(t) = <<>> => Segments(Tail(t))
    BY NoneSpelt DEF Segments
  <2>5. Tail(t) # <<>> => Head(Tail(t)) # "/"
    <3> DEFINE q == Tail(t)
    <3>1. q \in Seq(S) /\ Len(q) = Len(t) - 1
      BY <2>1
    <3> HIDE DEF q
    <3>2. q # <<>> => Len(t) >= 2
      BY <1>0, <3>1
    <3> QED
      BY <1>2, <2>1, <3>2 DEF q
  <2> QED
    BY <1>0, <1>2, <2>2, <2>3, <2>4, <2>5 DEF PathAbsolute, PathRootless
<1>3. CASE t = <<>>
  <2>1. Segments(t)
    BY <1>3 DEF Segments, Chars
  <2>2. ComponentMatches(t, PathChars)
    BY <1>c, <2>1, MatchesIs DEF Segments
  <2>3. ~(Len(t) >= 2)
    BY <1>0, <1>3
  <2> QED
    BY <1>3, <1>c, <2>2, <2>3 DEF ValidHierPart, HierPart
<1>4. CASE t # <<>> /\ t[1] # "/"
  <2>1. ValidHierPart(t) <=> Segments(t)
    BY <1>4, <1>c, MatchesIs DEF ValidHierPart, Segments
  <2>2. HierPart(t) <=> PathRootless(t)
    BY <1>0, <1>4 DEF HierPart, PathAbsolute
  <2> QED
    BY <1>0, <1>4, <2>1, <2>2 DEF PathRootless
<1> QED
  BY <1>1, <1>2, <1>3, <1>4

LEMMA HierPartHasChars ==
  ASSUME NEW S, NEW t \in Seq(S), HierPart(t)
  PROVE  Chars(t, HierChars)
<1> DEFINE L == Len(t)
<1>0. L \in Nat /\ (t # <<>> <=> L >= 1) /\ (t # <<>> => Head(t) = t[1])
  OBVIOUS
<1>c. /\ PathChars \subseteq HierChars /\ AuthorityChars \subseteq HierChars
      /\ "/" \in HierChars /\ PathChars = PChars \cup {"/"}
  BY CharacterSets DEF PathChars, HierChars
<1>1. CASE t = <<>>
  BY <1>1 DEF Chars
<1>2. CASE PathRootless(t)
  BY <1>2, <1>c, CharsWider DEF PathRootless, Segments
<1>3. CASE PathAbsolute(t)
  <2>1. t # <<>> /\ t[1] = "/" /\ Tail(t) = SubSeq(t, 2, L)
    BY <1>0, <1>3, TailPiece DEF PathAbsolute
  <2>2. Chars(Tail(t), PathChars)
    <3>1. Tail(t) = <<>> => Chars(Tail(t), PathChars)
      BY NoneSpelt
    <3> QED
      BY <1>3, <1>c, <3>1 DEF PathAbsolute, PathRootless, Segments
  <2>3. \A m \in 2..L : t[m] \in PathChars \/ (t[m] = "%" /\ Triplet(t, m))
    <3>1. Chars(SubSeq(t, 2, L), PathChars)
      BY <2>1, <2>2
    <3>2. L \in Int /\ L <= Len(t)
      BY <1>0
    <3> QED
      BY <3>1, <3>2, PieceSpelt
  <2>4. \A m \in 1..L : m = 1 \/ m \in 2..L
    OBVIOUS
  <2> QED
    BY <1>0, <1>c, <2>1, <2>3, <2>4 DEF Chars
<1>4. CASE /\ L >= 2 /\ t[1] = "/" /\ t[2] = "/"
           /\ \E n \in 3..(L + 1) : Authority(SubSeq(t, 3, n - 1)) /\ PathAbempty(From(t, n))
  <2>1. PICK n \in 3..(L + 1) : Authority(SubSeq(t, 3, n - 1)) /\ PathAbempty(From(t, n))
    BY <1>4
  <2>2. n - 1 \in Int /\ n - 1 <= Len(t) /\ n \in Nat \ {0} /\ L \in Int /\ L <= Len(t)
    BY <1>0, <1>4
  <2>3. \A m \in 3..(n - 1) : t[m] \in AuthorityChars \/ (t[m] = "%" /\ Triplet(t, m))
    <3>1. Chars(SubSeq(t, 3, n - 1), AuthorityChars)
      <4> DEFINE p == SubSeq(t, 3, n - 1)
      <4>1. p \in Seq(S) /\ Authority(p)
        BY <2>1, <2>2, Piece
      <4> HIDE DEF p
      <4>2. Chars(p, AuthorityChars)
        BY <4>1, AuthorityHasChars
      <4> QED
        BY <4>2 DEF p
    <3> QED
      BY <2>2, <3>1, PieceSpelt
  <2>4. \A m \in n..L : t[m] \in PathChars \/ (t[m] = "%" /\ Triplet(t, m))
    <3>1. From(t, n) = <<>> => Segments(From(t, n))
      BY DEF Segments, Chars
    <3>2. Chars(SubSeq(t, n, L), PathChars)
      BY <1>c, <2>1, <3>1 DEF PathAbempty, Segments, From
    <3> QED
      BY <2>2, <3>2, PieceSpelt
  <2>5. \A m \in 1..L : m = 1 \/ m = 2 \/ m \in 3..(n - 1) \/ m \in n..L
    OBVIOUS
  <2> QED
    BY <1>0, <1>4, <1>c, <2>3, <2>4, <2>5 DEF Chars
<1> QED
  BY <1>1, <1>2, <1>3, <1>4 DEF HierPart

-----------------------------------------------------------------------------
(* Queries and fragments.                                                  *)

\* The first question mark begins the query.
LEMMA QueryCut ==
  ASSUME NEW S, NEW t \in Seq(S), NEW n, IsFirst(t, {"?"}, 1, n)
  PROVE  HierAndQuery(t)
           <=> HierPart(Before(t, n)) /\ (n <= Len(t) => Query(After(t, n)))
<1> DEFINE L == Len(t)
<1>0. L \in Nat /\ n \in 1..(L + 1) /\ (n <= L => t[n] = "?")
      /\ \A k \in 1..(n - 1) : t[k] # "?"
  BY DEF IsFirst
<1>c. "?" \notin HierChars /\ "?" # "%"
  BY CharacterSets
<1>1. n = L + 1 => Before(t, n) = t
  <2>1. n = L + 1 => n - 1 = L
    BY <1>0
  <2> QED
    BY <2>1, WholePiece DEF Before
<1>2. ASSUME HierPart(t) PROVE n = L + 1
  <2>1. \A m \in 1..L : t[m] # "?"
    BY <1>2, <1>c, HierPartHasChars DEF Chars
  <2> QED
    BY <1>0, <2>1
<1>3. ASSUME NEW k \in 1..L, t[k] = "?", HierPart(Before(t, k)) PROVE k = n
  <2>1. Chars(Before(t, k), HierChars)
    BY <1>3, Cut, HierPartHasChars
  <2>2. k - 1 \in Int /\ k - 1 <= Len(t)
    BY <1>0
  <2>3. \A m \in 1..(k - 1) : t[m] # "?"
    BY <1>c, <2>1, <2>2, PieceChars DEF Before
  <2> QED
    BY <1>0, <1>3, <2>3
<1>4. ASSUME HierAndQuery(t)
      PROVE  HierPart(Before(t, n)) /\ (n <= L => Query(After(t, n)))
  <2>1. CASE HierPart(t)
    BY <1>0, <1>1, <1>2, <2>1
  <2>2. CASE \E k \in 1..L : t[k] = "?" /\ HierPart(Before(t, k)) /\ Query(After(t, k))
    BY <1>3, <2>2
  <2> QED
    BY <1>4, <2>1, <2>2 DEF HierAndQuery
<1>5. ASSUME HierPart(Before(t, n)), n <= L => Query(After(t, n))
      PROVE  HierAndQuery(t)
  <2>1. CASE n = L + 1
    BY <1>1, <1>5, <2>1 DEF HierAndQuery
  <2>2. CASE n \in 1..L
    BY <1>0, <1>5, <2>2 DEF HierAndQuery
  <2> QED
    BY <1>0, <2>1, <2>2
<1> QED
  BY <1>4, <1>5

HierQueryChars == HierChars \cup {"?"}

LEMMA HierAndQueryHasChars ==
  ASSUME NEW S, NEW t \in Seq(S), HierAndQuery(t)
  PROVE  Chars(t, HierQueryChars)
<1>c. /\ HierChars \subseteq HierQueryChars /\ QueryChars \subseteq HierQueryChars
      /\ "?" \in HierQueryChars /\ QueryChars = PChars \cup {"/", "?"}
  BY CharacterSets DEF HierQueryChars, QueryChars, HierChars, PathChars
<1>1. CASE HierPart(t)
  BY <1>1, <1>c, HierPartHasChars, CharsWider
<1>2. CASE \E n \in 1..Len(t) : t[n] = "?" /\ HierPart(Before(t, n)) /\ Query(After(t, n))
  <2>1. PICK n \in 1..Len(t) : t[n] = "?" /\ HierPart(Before(t, n)) /\ Query(After(t, n))
    BY <1>2
  <2>2. Chars(Before(t, n), HierQueryChars)
    BY <1>c, <2>1, Cut, HierPartHasChars, CharsWider
  <2>3. Chars(After(t, n), HierQueryChars)
    BY <1>c, <2>1, CharsWider DEF Query
  <2> QED
    BY <1>c, <2>1, <2>2, <2>3, CharsJoin
<1> QED
  BY <1>1, <1>2 DEF HierAndQuery

\* The first number sign begins the fragment, in a query or not.
LEMMA FragmentCut ==
  ASSUME NEW S, NEW t \in Seq(S), NEW n, IsFirst(t, {"#"}, 1, n)
  PROVE  Relative(t)
           <=> HierAndQuery(Before(t, n)) /\ (n <= Len(t) => Query(After(t, n)))
<1> DEFINE L == Len(t)
<1>0. L \in Nat /\ n \in 1..(L + 1) /\ (n <= L => t[n] = "#")
      /\ \A k \in 1..(n - 1) : t[k] # "#"
  BY DEF IsFirst
<1>c. "#" \notin HierQueryChars /\ "#" # "%"
  BY CharacterSets DEF HierQueryChars
<1>1. n = L + 1 => Before(t, n) = t
  <2>1. n = L + 1 => n - 1 = L
    BY <1>0
  <2> QED
    BY <2>1, WholePiece DEF Before
<1>2. ASSUME HierAndQuery(t) PROVE n = L + 1
  <2>1. \A m \in 1..L : t[m] # "#"
    BY <1>2, <1>c, HierAndQueryHasChars DEF Chars
  <2> QED
    BY <1>0, <2>1
<1>3. ASSUME NEW k \in 1..L, t[k] = "#", HierAndQuery(Before(t, k)) PROVE k = n
  <2>1. Chars(Before(t, k), HierQueryChars)
    BY <1>3, Cut, HierAndQueryHasChars
  <2>2. k - 1 \in Int /\ k - 1 <= Len(t)
    BY <1>0
  <2>3. \A m \in 1..(k - 1) : t[m] # "#"
    BY <1>c, <2>1, <2>2, PieceChars DEF Before
  <2> QED
    BY <1>0, <1>3, <2>3
<1>4. ASSUME Relative(t)
      PROVE  HierAndQuery(Before(t, n)) /\ (n <= L => Query(After(t, n)))
  <2>1. CASE HierAndQuery(t)
    BY <1>0, <1>1, <1>2, <2>1
  <2>2. CASE \E k \in 1..L : t[k] = "#" /\ HierAndQuery(Before(t, k)) /\ Query(After(t, k))
    BY <1>3, <2>2
  <2> QED
    BY <1>4, <2>1, <2>2 DEF Relative
<1>5. ASSUME HierAndQuery(Before(t, n)), n <= L => Query(After(t, n))
      PROVE  Relative(t)
  <2>1. CASE n = L + 1
    BY <1>1, <1>5, <2>1 DEF Relative
  <2>2. CASE n \in 1..L
    BY <1>0, <1>5, <2>2 DEF Relative
  <2> QED
    BY <1>0, <2>1, <2>2
<1> QED
  BY <1>4, <1>5

LEMMA RelativeHasChars ==
  ASSUME NEW S, NEW t \in Seq(S), Relative(t)
  PROVE  Chars(t, UriChars)
<1>c. /\ HierQueryChars \subseteq UriChars /\ QueryChars \subseteq UriChars
      /\ "#" \in UriChars /\ QueryChars = PChars \cup {"/", "?"}
  BY CharacterSets DEF HierQueryChars, UriChars, QueryChars
<1>1. CASE HierAndQuery(t)
  BY <1>1, <1>c, HierAndQueryHasChars, CharsWider
<1>2. CASE \E n \in 1..Len(t) : t[n] = "#" /\ HierAndQuery(Before(t, n)) /\ Query(After(t, n))
  <2>1. PICK n \in 1..Len(t) : t[n] = "#" /\ HierAndQuery(Before(t, n)) /\ Query(After(t, n))
    BY <1>2
  <2>2. Chars(Before(t, n), UriChars)
    BY <1>c, <2>1, Cut, HierAndQueryHasChars, CharsWider
  <2>3. Chars(After(t, n), UriChars)
    BY <1>c, <2>1, CharsWider DEF Query
  <2> QED
    BY <1>c, <2>1, <2>2, <2>3, CharsJoin
<1> QED
  BY <1>1, <1>2 DEF Relative

-----------------------------------------------------------------------------
(* The whole text: the code's places are counted in it, the grammar's in   *)
(* the pieces.                                                             *)

LEMMA ShiftedFirst ==
  ASSUME NEW S, NEW t \in Seq(S), NEW c \in 1..Len(t), NEW C,
         NEW n, IsFirst(t, C, c + 1, n), NEW b \in c..Len(t)
  PROVE  LET u == SubSeq(t, c + 1, b)
         IN IsFirst(u, C, 1, IF n <= b THEN n - c ELSE b - c + 1)
<1> DEFINE u == SubSeq(t, c + 1, b)
           a == c + 1
<1>0. Len(t) \in Nat /\ a \in Nat \ {0} /\ b \in Int /\ b <= Len(t)
  OBVIOUS
<1>1. Len(u) = b - c /\ \A m \in 1..(b - c) : u[m] = t[c + m]
  <2>1. b - a + 1 = b - c /\ \A m \in 1..(b - c) : a + m - 1 = c + m
    OBVIOUS
  <2>2. a <= b \/ b - c = 0
    OBVIOUS
  <2> HIDE DEF a
  <2>3. /\ Len(SubSeq(t, a, b)) = IF a <= b THEN b - a + 1 ELSE 0
        /\ \A m \in 1..(b - a + 1) : SubSeq(t, a, b)[m] = t[a + m - 1]
    BY <1>0, Piece
  <2> DEFINE p == SubSeq(t, a, b)
  <2>4. /\ Len(p) = IF a <= b THEN b - a + 1 ELSE 0
        /\ \A m \in 1..(b - a + 1) : p[m] = t[a + m - 1]
    BY <2>3
  <2> HIDE DEF p
  <2>5. Len(p) = b - c
    BY <1>0, <2>1, <2>2, <2>4
  <2>6. \A m \in 1..(b - c) : p[m] = t[c + m]
    BY <2>1, <2>4
  <2> QED
    BY <2>5, <2>6 DEF p, a
<1> HIDE DEF u
<1>2. /\ n \in (c + 1)..(Len(t) + 1) /\ (n <= Len(t) => t[n] \in C)
      /\ \A k \in (c + 1)..(n - 1) : t[k] \notin C
  BY DEF IsFirst
<1>3. CASE n <= b
  <2>1. n - c \in 1..(b - c) /\ c + (n - c) = n
    BY <1>2, <1>3
  <2>2. u[n - c] = t[n]
    BY <1>1, <2>1
  <2>3. ASSUME NEW k \in 1..((n - c) - 1) PROVE u[k] \notin C
    <3>1. k \in 1..(b - c) /\ c + k \in (c + 1)..(n - 1)
      BY <1>2, <1>3
    <3> QED
      BY <1>1, <1>2, <3>1
  <2>4. IsFirst(u, C, 1, n - c)
    BY <1>0, <1>1, <1>2, <1>3, <2>1, <2>2, <2>3 DEF IsFirst
  <2> QED
    BY <1>3, <2>4 DEF u
<1>4. CASE ~(n <= b)
  <2>1. ASSUME NEW k \in 1..(b - c) PROVE u[k] \notin C
    <3>1. c + k \in (c + 1)..(n - 1)
      BY <1>2, <1>4
    <3> QED
      BY <1>1, <1>2, <3>1
  <2>2. IsFirst(u, C, 1, b - c + 1)
    BY <1>0, <1>1, <2>1 DEF IsFirst
  <2> QED
    BY <1>4, <2>2 DEF u
<1> QED
  BY <1>3, <1>4

\* The pieces the code cuts behind the scheme are those of the grammar.
LEMMA BodyIs ==
  ASSUME NEW S, NEW t \in Seq(S), NEW c \in 1..Len(t),
         NEW f, IsFirst(t, {"#"}, c + 1, f), NEW q, IsFirst(t, {"?"}, c + 1, q)
  PROVE  Relative(After(t, c))
           <=> /\ HierPart(SubSeq(t, c + 1, (IF q < f THEN q ELSE f) - 1))
               /\ q < f => Query(SubSeq(t, q + 1, f - 1))
               /\ f <= Len(t) => Query(From(t, f + 1))
<1> DEFINE L == Len(t)
           s == SubSeq(t, c + 1, L)
           u == SubSeq(t, c + 1, f - 1)
<1>0. L \in Nat /\ c \in Nat /\ c >= 1 /\ c <= L
      /\ f \in Int /\ f >= c + 1 /\ f <= L + 1 /\ q \in Int /\ q >= c + 1 /\ q <= L + 1
  BY DEF IsFirst
<1>1. s = After(t, c) /\ s \in Seq(S) /\ Len(s) = L - c
  BY Cut DEF After, From
<1>2. u \in Seq(S) /\ Len(u) = f - 1 - c
  <2> DEFINE a == c + 1
             b == f - 1
  <2>1. a \in Nat \ {0} /\ b \in Int /\ b <= Len(t) /\ (IF a <= b THEN b - a + 1 ELSE 0) = f - 1 - c
    BY <1>0
  <2> HIDE DEF a, b
  <2>2. SubSeq(t, a, b) \in Seq(S) /\ Len(SubSeq(t, a, b)) = IF a <= b THEN b - a + 1 ELSE 0
    BY <2>1, Piece
  <2>3. SubSeq(t, a, b) \in Seq(S) /\ Len(SubSeq(t, a, b)) = f - 1 - c
    BY <2>1, <2>2
  <2> QED
    BY <2>3 DEF a, b
<1>p. ASSUME NEW a \in Nat, a >= c + 1, NEW b \in Int, b <= L, a <= b + 1,
             NEW i \in Nat, i >= 1, NEW j \in Int, j <= b - a + 1, i <= j + 1
      PROVE  SubSeq(SubSeq(t, a, b), i, j) = SubSeq(t, a + i - 1, a + j - 1)
  <2>1. a \in Nat \ {0} /\ i \in Nat \ {0} /\ b <= Len(t)
    BY <1>0, <1>p
  <2> QED
    BY <1>p, <2>1, PieceOfPiece
<1>3. IsFirst(s, {"#"}, 1, f - c)
  <2>1. L \in c..Len(t)
    BY <1>0
  <2>2. IsFirst(s, {"#"}, 1, IF f <= L THEN f - c ELSE L - c + 1)
    BY <2>1, ShiftedFirst
  <2>3. (IF f <= L THEN f - c ELSE L - c + 1) = f - c
    BY <1>0
  <2> QED
    BY <2>2, <2>3
<1>4. Before(s, f - c) = u
  <2> DEFINE a == c + 1
             j == (f - c) - 1
  <2>1. /\ a \in Nat /\ a >= c + 1 /\ L \in Int /\ L <= L /\ a <= L + 1
        /\ 1 \in Nat /\ 1 >= 1 /\ j \in Int /\ j <= L - a + 1 /\ 1 <= j + 1
        /\ a + 1 - 1 = a /\ a + j - 1 = f - 1
    BY <1>0
  <2> HIDE DEF a, j
  <2>2. SubSeq(SubSeq(t, a, L), 1, j) = SubSeq(t, a + 1 - 1, a + j - 1)
    BY <1>p, <2>1
  <2>3. SubSeq(SubSeq(t, a, L), 1, j) = SubSeq(t, a, f - 1)
    BY <2>1, <2>2
  <2> QED
    BY <2>3 DEF a, j, Before
<1>5. f <= L => After(s, f - c) = From(t, f + 1)
  <2> HAVE f <= L
  <2> DEFINE a == c + 1
             i == (f - c) + 1
             j == L - c
  <2>1. /\ a \in Nat /\ a >= c + 1 /\ L \in Int /\ L <= L /\ a <= L + 1
        /\ i \in Nat /\ i >= 1 /\ j \in Int /\ j <= L - a + 1 /\ i <= j + 1
        /\ a + i - 1 = f + 1 /\ a + j - 1 = L
    BY <1>0
  <2> HIDE DEF a, i, j
  <2>2. SubSeq(SubSeq(t, a, L), i, j) = SubSeq(t, a + i - 1, a + j - 1)
    BY <1>p, <2>1
  <2>3. SubSeq(SubSeq(t, a, L), i, j) = SubSeq(t, f + 1, L)
    BY <2>1, <2>2
  <2>4. After(s, f - c) = SubSeq(s, i, j)
    BY <1>1 DEF i, j, After, From
  <2> QED
    BY <2>3, <2>4 DEF a, From
<1>6. f - c <= Len(s) <=> f <= L
  BY <1>0, <1>1
<1>7. Relative(s) <=> HierAndQuery(u) /\ (f <= L => Query(From(t, f + 1)))
  <2> DEFINE n == f - c
  <2>1. /\ IsFirst(s, {"#"}, 1, n) /\ Before(s, n) = u
        /\ f <= L => After(s, n) = From(t, f + 1)
        /\ n <= Len(s) <=> f <= L
    BY <1>3, <1>4, <1>5, <1>6
  <2> HIDE DEF n, s, u
  <2>2. Relative(s) <=> HierAndQuery(Before(s, n)) /\ (n <= Len(s) => Query(After(s, n)))
    BY <1>1, <2>1, FragmentCut
  <2> QED
    BY <2>1, <2>2
<1>8. HierAndQuery(u)
        <=> /\ HierPart(SubSeq(t, c + 1, (IF q < f THEN q ELSE f) - 1))
            /\ q < f => Query(SubSeq(t, q + 1, f - 1))
  <2>1. IsFirst(u, {"?"}, 1, IF q < f THEN q - c ELSE f - c)
    <3> DEFINE b == f - 1
    <3>1. b \in c..Len(t)
      BY <1>0
    <3>2. (q <= b <=> q < f) /\ b - c + 1 = f - c
      BY <1>0
    <3> HIDE DEF b
    <3>3. IsFirst(SubSeq(t, c + 1, b), {"?"}, 1, IF q <= b THEN q - c ELSE b - c + 1)
      BY <3>1, ShiftedFirst
    <3>4. IsFirst(SubSeq(t, c + 1, b), {"?"}, 1, IF q < f THEN q - c ELSE f - c)
      BY <3>2, <3>3
    <3> QED
      BY <3>4 DEF b
  <2>2. CASE q < f
    <3> DEFINE n == q - c
    <3>1. IsFirst(u, {"?"}, 1, n)
      BY <2>1, <2>2
    <3>2. n <= Len(u)
      BY <1>0, <1>2, <2>2
    <3>3. Before(u, n) = SubSeq(t, c + 1, q - 1)
      <4> DEFINE a == c + 1
                 b == f - 1
                 j == (q - c) - 1
      <4>1. /\ a \in Nat /\ a >= c + 1 /\ b \in Int /\ b <= L /\ a <= b + 1
            /\ 1 \in Nat /\ 1 >= 1 /\ j \in Int /\ j <= b - a + 1 /\ 1 <= j + 1
            /\ a + 1 - 1 = a /\ a + j - 1 = q - 1
        BY <1>0, <2>2
      <4> HIDE DEF a, b, j
      <4>2. SubSeq(SubSeq(t, a, b), 1, j) = SubSeq(t, a + 1 - 1, a + j - 1)
        BY <1>p, <4>1
      <4>3. SubSeq(SubSeq(t, a, b), 1, j) = SubSeq(t, a, q - 1)
        BY <4>1, <4>2
      <4> QED
        BY <4>3 DEF a, b, j, Before
    <3>4. After(u, n) = SubSeq(t, q + 1, f - 1)
      <4> DEFINE a == c + 1
                 b == f - 1
                 i == (q - c) + 1
                 j == f - 1 - c
      <4>1. /\ a \in Nat /\ a >= c + 1 /\ b \in Int /\ b <= L /\ a <= b + 1
            /\ i \in Nat /\ i >= 1 /\ j \in Int /\ j <= b - a + 1 /\ i <= j + 1
            /\ a + i - 1 = q + 1 /\ a + j - 1 = f - 1
        BY <1>0, <2>2
      <4> HIDE DEF a, b, i, j
      <4>2. SubSeq(SubSeq(t, a, b), i, j) = SubSeq(t, a + i - 1, a + j - 1)
        BY <1>p, <4>1
      <4>3. SubSeq(SubSeq(t, a, b), i, j) = SubSeq(t, q + 1, f - 1)
        BY <4>1, <4>2
      <4>4. After(u, n) = SubSeq(u, i, j)
        BY <1>2 DEF i, j, After, From
      <4> QED
        BY <4>3, <4>4 DEF a, b
    <3> HIDE DEF n, u
    <3>5. HierAndQuery(u) <=> HierPart(Before(u, n)) /\ (n <= Len(u) => Query(After(u, n)))
      BY <1>2, <3>1, QueryCut
    <3> QED
      BY <2>2, <3>2, <3>3, <3>4, <3>5
  <2>3. CASE ~(q < f)
    <3> DEFINE n == f - c
    <3>1. IsFirst(u, {"?"}, 1, n)
      BY <2>1, <2>3
    <3>2. ~(n <= Len(u)) /\ n - 1 = Len(u)
      BY <1>0, <1>2
    <3> HIDE DEF n, u
    <3>3. Before(u, n) = u
      BY <1>2, <3>2, WholePiece DEF Before
    <3>4. HierAndQuery(u) <=> HierPart(Before(u, n)) /\ (n <= Len(u) => Query(After(u, n)))
      BY <1>2, <3>1, QueryCut
    <3> QED
      BY <2>3, <3>2, <3>3, <3>4 DEF u
  <2> QED
    BY <2>2, <2>3
<1> HIDE DEF u, s
<1> QED
  BY <1>1, <1>7, <1>8

\* What the code checks behind the scheme's colon.
ValidBody(t, c) ==
  LET fragment == Find(t, {"#"}, c + 1)
      query == Find(t, {"?"}, c + 1)
      hierEnd == IF query < fragment THEN query ELSE fragment
  IN /\ ValidHierPart(SubSeq(t, c + 1, hierEnd - 1))
     /\ query < fragment => ValidQueryOrFragment(SubSeq(t, query + 1, fragment - 1))
     /\ fragment <= Len(t) => ValidQueryOrFragment(From(t, fragment + 1))

LEMMA ValidBodyIs ==
  ASSUME NEW S, NEW t \in Seq(S), NEW c \in 1..Len(t)
  PROVE  ValidBody(t, c) <=> Relative(After(t, c))
<1> DEFINE f == Find(t, {"#"}, c + 1)
           q == Find(t, {"?"}, c + 1)
           e == IF q < f THEN q ELSE f
           L == Len(t)
<1>0. L \in Nat /\ c + 1 \in 1..(L + 1)
  OBVIOUS
<1>c. /\ HexDigits \subseteq QueryChars /\ "%" \notin QueryChars
      /\ QueryChars = PChars \cup {"/", "?"}
  BY CharacterSets DEF QueryChars
<1>1. IsFirst(t, {"#"}, c + 1, f) /\ IsFirst(t, {"?"}, c + 1, q)
  BY <1>0, Finds
<1>2. ValidBody(t, c)
        <=> /\ ValidHierPart(SubSeq(t, c + 1, e - 1))
            /\ q < f => ComponentMatches(SubSeq(t, q + 1, f - 1), QueryChars)
            /\ f <= L => ComponentMatches(SubSeq(t, f + 1, L), QueryChars)
  BY <1>c DEF ValidBody, ValidQueryOrFragment, From
<1> HIDE DEF f, q
<1>3. /\ f \in Int /\ f >= c + 1 /\ f <= L + 1 /\ q \in Int /\ q >= c + 1 /\ q <= L + 1
      /\ e \in Int /\ e >= c + 1 /\ e <= L + 1
  BY <1>0, <1>1 DEF IsFirst
<1> HIDE DEF e
<1>4. /\ SubSeq(t, c + 1, e - 1) \in Seq(S) /\ SubSeq(t, q + 1, f - 1) \in Seq(S)
      /\ SubSeq(t, f + 1, L) \in Seq(S)
  <2>1. /\ c + 1 \in Nat \ {0} /\ q + 1 \in Nat \ {0} /\ f + 1 \in Nat \ {0}
        /\ e - 1 \in Int /\ e - 1 <= Len(t) /\ f - 1 \in Int /\ f - 1 <= Len(t)
        /\ L \in Int /\ L <= Len(t)
    BY <1>0, <1>3
  <2>2. SubSeq(t, c + 1, e - 1) \in Seq(S)
    BY <2>1, Piece
  <2>3. SubSeq(t, q + 1, f - 1) \in Seq(S)
    BY <2>1, Piece
  <2>4. SubSeq(t, f + 1, L) \in Seq(S)
    BY <2>1, Piece
  <2> QED
    BY <2>2, <2>3, <2>4
<1>5. ValidHierPart(SubSeq(t, c + 1, e - 1)) <=> HierPart(SubSeq(t, c + 1, e - 1))
  BY <1>4, HierPartIs
<1>6. ASSUME NEW u \in Seq(S) PROVE ComponentMatches(u, QueryChars) <=> Query(u)
  BY <1>c, MatchesIs DEF Query
<1>7. Relative(After(t, c))
        <=> /\ HierPart(SubSeq(t, c + 1, e - 1))
            /\ q < f => Query(SubSeq(t, q + 1, f - 1))
            /\ f <= L => Query(SubSeq(t, f + 1, L))
  BY <1>1, BodyIs DEF e, From
<1> QED
  BY <1>2, <1>4, <1>5, <1>6, <1>7

\* The code accepts exactly what the grammar derives.
LEMMA UriIs ==
  ASSUME NEW S, NEW t \in Seq(S)
  PROVE  IsProtocolUri(t) <=> Uri(t)
<1> DEFINE L == Len(t)
<1>0. L \in Nat /\ (t # <<>> <=> L >= 1)
  OBVIOUS
<1>c. /\ ":" \notin SchemeCharacters /\ Letters \subseteq SchemeCharacters
      /\ SchemeCharacters \subseteq UriChars /\ ":" \in UriChars
      /\ "%" \notin UriChars /\ " " \notin UriChars
  BY CharacterSets
<1>1. IsProtocolUri(t)
        <=> LET c == Find(t, {":"}, 1)
            IN /\ t # <<>> /\ ~Has(t, Invisible) /\ ValidTriplets(t)
               /\ ValidScheme(t, c) /\ ValidBody(t, c)
  BY DEF IsProtocolUri, ValidBody
<1>s. ASSUME NEW n \in 1..L
      PROVE  Scheme(Before(t, n))
               <=> n >= 2 /\ t[1] \in Letters /\ AllIn(SubSeq(t, 2, n - 1), SchemeCharacters)
  <2> DEFINE p == Before(t, n)
  <2>1. p \in Seq(S) /\ Len(p) = n - 1 /\ \A m \in 1..(n - 1) : p[m] = t[m]
    BY Cut
  <2>2. AllIn(SubSeq(t, 2, n - 1), SchemeCharacters)
          <=> \A m \in 2..(n - 1) : t[m] \in SchemeCharacters
    <3>1. n - 1 \in Int /\ n - 1 <= Len(t)
      BY <1>0
    <3> QED
      BY <3>1, PieceAllIn
  <2> HIDE DEF p
  <2>3. (p # <<>> <=> n >= 2) /\ (p # <<>> => Head(p) = p[1])
    BY <2>1
  <2>4. ASSUME n >= 2 PROVE Head(p) = t[1]
    BY <2>1, <2>3, <2>4
  <2>5. AllIn(p, SchemeCharacters) <=> \A m \in 1..(n - 1) : t[m] \in SchemeCharacters
    BY <2>1 DEF AllIn
  <2>6. \A m \in 1..(n - 1) : m = 1 \/ m \in 2..(n - 1)
    OBVIOUS
  <2>7. \A m \in 2..(n - 1) : m \in 1..(n - 1)
    OBVIOUS
  <2>8. ASSUME n >= 2, t[1] \in Letters
        PROVE  (\A m \in 1..(n - 1) : t[m] \in SchemeCharacters)
                 <=> \A m \in 2..(n - 1) : t[m] \in SchemeCharacters
    BY <1>c, <2>6, <2>7, <2>8
  <2>9. Scheme(p) <=> p # <<>> /\ Head(p) \in Letters /\ AllIn(p, SchemeCharacters)
    BY DEF Scheme
  <2>10. CASE n >= 2 /\ t[1] \in Letters
    BY <2>2, <2>3, <2>4, <2>5, <2>8, <2>9, <2>10 DEF p
  <2>11. CASE ~(n >= 2 /\ t[1] \in Letters)
    BY <2>3, <2>4, <2>9, <2>11 DEF p
  <2> QED
    BY <2>10, <2>11
<1>2. ASSUME IsProtocolUri(t) PROVE Uri(t)
  <2> DEFINE c == Find(t, {":"}, 1)
  <2>1. ValidScheme(t, c) /\ ValidBody(t, c)
    BY <1>1, <1>2
  <2>2. IsFirst(t, {":"}, 1, c)
    BY <1>0, Finds
  <2> HIDE DEF c
  <2>3. c \in 1..L /\ c >= 2 /\ t[c] = ":"
    BY <1>0, <2>1, <2>2 DEF IsFirst, ValidScheme
  <2>4. Scheme(Before(t, c))
    BY <1>s, <2>1, <2>3 DEF ValidScheme
  <2>5. Relative(After(t, c))
    BY <2>1, <2>3, ValidBodyIs
  <2> QED
    BY <2>3, <2>4, <2>5 DEF Uri
<1>3. ASSUME Uri(t) PROVE IsProtocolUri(t)
  <2>1. PICK n \in 1..L : t[n] = ":" /\ Scheme(Before(t, n)) /\ Relative(After(t, n))
    BY <1>3 DEF Uri
  <2>2. n >= 2 /\ t[1] \in Letters /\ AllIn(SubSeq(t, 2, n - 1), SchemeCharacters)
    BY <1>s, <2>1
  <2>3. AllIn(Before(t, n), SchemeCharacters)
    BY <2>1 DEF Scheme
  <2>4. \A m \in 1..(n - 1) : t[m] # ":"
    <3>1. Len(Before(t, n)) = n - 1 /\ \A m \in 1..(n - 1) : Before(t, n)[m] = t[m]
      BY CutBefore
    <3> QED
      BY <1>c, <2>3, <3>1 DEF AllIn
  <2>5. IsFirst(t, {":"}, 1, n)
    BY <1>0, <2>1, <2>4 DEF IsFirst
  <2>6. Find(t, {":"}, 1) = n
    BY <1>0, <2>5, FindIs
  <2>7. ValidScheme(t, n)
    BY <1>0, <2>2 DEF ValidScheme
  <2>8. ValidBody(t, n)
    BY <2>1, ValidBodyIs
  <2>9. Chars(t, UriChars)
    <3>1. Chars(Before(t, n), UriChars)
      BY <1>c, <2>3, AllInIsChars, CharsWider
    <3>2. Chars(After(t, n), UriChars)
      BY <2>1, Cut, RelativeHasChars
    <3> QED
      BY <1>c, <2>1, <3>1, <3>2, CharsJoin
  <2>10. ~Has(t, Invisible)
    BY <1>c, <2>9 DEF Chars, Has, Invisible
  <2>11. ValidTriplets(t)
    <3>1. \A m \in 1..Len(t) : t[m] = "%" => Triplet(t, m)
      BY <1>c, <2>9 DEF Chars
    <3> QED
      BY <3>1, TripletsAreValid
  <2>12. t # <<>>
    BY <1>0
  <2> QED
    BY <1>1, <2>6, <2>7, <2>8, <2>10, <2>11, <2>12
<1> QED
  BY <1>2, <1>3

-----------------------------------------------------------------------------
\* A text is a sequence of its family's characters.
TextOK == family \in Families /\ text \in Seq(family.characters)

\* However an identifier is composed, character by character, is_protocol_uri
\* accepts it exactly if it is a URI of RFC 3986.
THEOREM AcceptsUris == Spec => []AcceptsTheGrammar
<1>1. Init => TextOK
  BY UriAssumption DEF Init, TextOK
<1>2. TextOK /\ [Next]_<<text, family>> => TextOK'
  <2> SUFFICES ASSUME TextOK, [Next]_<<text, family>> PROVE TextOK'
    OBVIOUS
  <2>1. CASE Next
    <3>1. PICK c \in family.characters : Type(c)
      BY <2>1 DEF Next
    <3>2. text' = Append(text, c) /\ family' = family
      BY <3>1 DEF Type
    <3> QED
      BY <3>2 DEF TextOK
  <2>2. CASE UNCHANGED <<text, family>>
    BY <2>2 DEF TextOK
  <2> QED
    BY <2>1, <2>2
<1>3. TextOK => AcceptsTheGrammar
  BY UriIs DEF TextOK, AcceptsTheGrammar
<1> QED
  BY <1>1, <1>2, <1>3, PTL DEF Spec
=============================================================================
