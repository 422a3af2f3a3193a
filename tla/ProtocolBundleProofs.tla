------------------------ MODULE ProtocolBundleProofs ------------------------
(***************************************************************************)
(* Theorems about ProtocolBundle, for every release and every edit of its  *)
(* files, however many: the table that the script writes holds the files   *)
(* of the tree, and the search that halves it finds all of them and no     *)
(* other, wherever the two orders of paths agree; a table that was         *)
(* verified holds what the pinned release holds; and a run that comes to a *)
(* verdict over a table comes to the verdict of its tree.                  *)
(*                                                                         *)
(* Both orders are lexicographic, so both are total. The script puts a     *)
(* file where as many others come before it, which by counting makes the   *)
(* table a sorted list of all of them. The search is a recursive function: *)
(* where the table is sorted by what the search compares, the function     *)
(* that gives the boundary, moved into the places that are left, satisfies *)
(* the recursion, and nothing else does.                                   *)
(*                                                                         *)
(* What was digested is told apart from the front: the entries of two      *)
(* trees begin at the same places, because a released file has no          *)
(* separator and the other tree has as many files. A set of files has one  *)
(* sorted table, so the same files have the same digest again. A path that *)
(* was split is put together in one way, and one without "." and ".."      *)
(* leads where it says.                                                    *)
(***************************************************************************)
EXTENDS ProtocolBundle, SequenceTheorems, FiniteSetTheorems, WellFoundedInduction, TLAPS

-----------------------------------------------------------------------------
(* Lexicographic order.                                                    *)

LEMMA LeastNatural ==
  ASSUME NEW T \in SUBSET Nat, T # {}
  PROVE  \E n \in T : \A m \in T : n <= m
<1>1. PICK n \in T : \A m \in T : ~(<<m, n>> \in OpToRel(<, Nat))
  BY NatLessThanWellFounded, WFMin
<1>2. ASSUME NEW m \in T PROVE n <= m
  <2>1. ~(<<m, n>> \in OpToRel(<, Nat))
    BY <1>1
  <2>2. <<m, n>> \in Nat \X Nat
    OBVIOUS
  <2>3. ~(m < n)
    BY <2>1, <2>2 DEF OpToRel
  <2> QED
    BY <2>3
<1> QED
  BY <1>2

\* A sequence goes on, after its end, with what comes before every character.
At(a, i) == IF i \in DOMAIN a THEN a[i] + 1 ELSE 0

\* Place i is the first at which a and b differ, and a is the smaller there.
Precedes(a, b, i) ==
  At(a, i) < At(b, i) /\ \A j \in 1..(i - 1) : At(a, j) = At(b, j)

LEMMA FrontIs ==
  ASSUME NEW S, NEW t \in Seq(S), NEW n \in 0..Len(t)
  PROVE  /\ SubSeq(t, 1, n) \in [1..n -> S]
         /\ \A i \in 1..n : SubSeq(t, 1, n)[i] = t[i]
<1>1. n \in Int /\ 1 \in Int /\ \A i \in 1..n : t[i] \in S
  OBVIOUS
<1>2. SubSeq(t, 1, n) \in Seq(S)
  BY <1>1, SubSeqProperties
<1>3. Len(SubSeq(t, 1, n)) = n
  BY <1>1, SubSeqProperties
<1>4. \A i \in 1..(n - 1 + 1) : SubSeq(t, 1, n)[i] = t[1 + i - 1]
  BY <1>1, SubSeqProperties
<1>5. SubSeq(t, 1, n) \in [1..n -> S]
  BY <1>2, <1>3, LenProperties
<1>6. ASSUME NEW i \in 1..n PROVE SubSeq(t, 1, n)[i] = t[i]
  <2>1. i \in 1..(n - 1 + 1) /\ 1 + i - 1 = i
    OBVIOUS
  <2> QED
    BY <1>4, <2>1
<1> QED
  BY <1>5, <1>6

LEMMA PrefixIs ==
  ASSUME NEW S, NEW a \in Seq(S), NEW b \in Seq(S)
  PROVE  IsPrefix(a, b) <=> Len(a) <= Len(b) /\ \A i \in 1..Len(a) : a[i] = b[i]
<1>1. CASE ~(Len(a) <= Len(b))
  BY <1>1 DEF IsPrefix
<1>2. CASE Len(a) <= Len(b)
  <2>1. Len(a) \in 0..Len(a) /\ Len(a) \in 0..Len(b)
    BY <1>2
  <2>2. /\ SubSeq(a, 1, Len(a)) \in [1..Len(a) -> S]
        /\ SubSeq(b, 1, Len(a)) \in [1..Len(a) -> S]
        /\ \A i \in 1..Len(a) : SubSeq(a, 1, Len(a))[i] = a[i]
        /\ \A i \in 1..Len(a) : SubSeq(b, 1, Len(a))[i] = b[i]
    <3>1. /\ SubSeq(a, 1, Len(a)) \in [1..Len(a) -> S]
          /\ \A i \in 1..Len(a) : SubSeq(a, 1, Len(a))[i] = a[i]
      BY <2>1, FrontIs
    <3>2. /\ SubSeq(b, 1, Len(a)) \in [1..Len(a) -> S]
          /\ \A i \in 1..Len(a) : SubSeq(b, 1, Len(a))[i] = b[i]
      BY <2>1, FrontIs
    <3> QED
      BY <3>1, <3>2
  <2>3. IsPrefix(a, b) <=> SubSeq(a, 1, Len(a)) = SubSeq(b, 1, Len(a))
    BY <1>2 DEF IsPrefix
  <2> QED
    BY <1>2, <2>2, <2>3
<1> QED
  BY <1>1, <1>2

LEMMA AtInside ==
  ASSUME NEW a \in Seq(Nat), NEW i \in 1..Len(a)
  PROVE  At(a, i) = a[i] + 1 /\ a[i] \in Nat /\ At(a, i) > 0
BY DEF At

LEMMA AtBeyond ==
  ASSUME NEW a \in Seq(Nat), NEW i \in Nat, i > Len(a)
  PROVE  At(a, i) = 0
BY DEF At

LEMMA AtType ==
  ASSUME NEW a \in Seq(Nat), NEW i
  PROVE  At(a, i) \in Nat
BY DEF At

\* The order of std::string_view is the order at the first difference.
LEMMA LessIs ==
  ASSUME NEW a \in Seq(Nat), NEW b \in Seq(Nat)
  PROVE  LexicallyLess(a, b) <=> \E i \in Nat \ {0} : Precedes(a, b, i)
<1>1. ASSUME IsStrictPrefix(a, b) PROVE \E i \in Nat \ {0} : Precedes(a, b, i)
  <2>1. Len(a) <= Len(b) /\ (\A i \in 1..Len(a) : a[i] = b[i]) /\ a # b
    BY <1>1, PrefixIs DEF IsStrictPrefix
  <2>2. ASSUME Len(a) = Len(b) PROVE FALSE
    <3>1. a \in [1..Len(a) -> Nat] /\ b \in [1..Len(a) -> Nat]
      BY <2>2, LenProperties
    <3> QED
      BY <2>1, <3>1
  <2>3. Len(a) + 1 \in Nat \ {0} /\ Len(a) + 1 <= Len(b)
    BY <2>1, <2>2
  <2>4. At(a, Len(a) + 1) < At(b, Len(a) + 1)
    <3>1. At(a, Len(a) + 1) = 0
      BY <2>3, AtBeyond
    <3>2. Len(a) + 1 \in 1..Len(b)
      BY <2>3
    <3>3. At(b, Len(a) + 1) > 0
      BY <3>2, AtInside
    <3> QED
      BY <3>1, <3>3
  <2>5. ASSUME NEW j \in 1..(Len(a) + 1 - 1) PROVE At(a, j) = At(b, j)
    <3>1. j \in Nat /\ j > 0 /\ j <= Len(a) /\ j <= Len(b) /\ a[j] = b[j]
      BY <2>1
    <3> QED
      BY <3>1, AtInside, AtBeyond, AtType
  <2> QED
    BY <2>3, <2>4, <2>5 DEF Precedes
<1>2. ASSUME NEW i \in DOMAIN a \cap DOMAIN b,
             a[i] < b[i], \A j \in 1..(i - 1) : a[j] = b[j]
      PROVE  \E k \in Nat \ {0} : Precedes(a, b, k)
  <2>1. i \in Nat \ {0} /\ i <= Len(a) /\ i <= Len(b)
    OBVIOUS
  <2>2. At(a, i) < At(b, i)
    BY <1>2, <2>1, AtInside, AtBeyond, AtType
  <2>3. ASSUME NEW j \in 1..(i - 1) PROVE At(a, j) = At(b, j)
    <3>1. j \in 1..Len(a) /\ j \in 1..Len(b) /\ a[j] = b[j]
      BY <1>2, <2>1
    <3>2. At(a, j) = a[j] + 1 /\ At(b, j) = b[j] + 1
      BY <3>1, AtInside
    <3> QED
      BY <3>1, <3>2
  <2> QED
    BY <2>1, <2>2, <2>3 DEF Precedes
<1>3. ASSUME NEW i \in Nat \ {0}, Precedes(a, b, i) PROVE LexicallyLess(a, b)
  <2>1. /\ At(a, i) < At(b, i)
        /\ \A j \in 1..(i - 1) : At(a, j) = At(b, j)
    BY <1>3 DEF Precedes
  <2>2. i <= Len(b)
    BY <2>1, AtInside, AtBeyond, AtType
  <2>3. ASSUME NEW j \in 1..(i - 1)
        PROVE  j <= Len(a) /\ a[j] = b[j]
    <3>1. j \in Nat /\ j \in 1..Len(b) /\ At(a, j) = At(b, j)
      BY <2>1, <2>2
    <3>2. At(b, j) = b[j] + 1 /\ b[j] \in Nat /\ At(b, j) > 0
      BY <3>1, AtInside
    <3>3. j \in 1..Len(a)
      <4>1. ASSUME j > Len(a) PROVE FALSE
        <5>1. At(a, j) = 0
          BY <3>1, <4>1, AtBeyond
        <5> QED
          BY <3>1, <3>2, <5>1
      <4>2. Len(a) \in Nat /\ j > 0
        BY <3>1
      <4> QED
        BY <3>1, <4>1, <4>2
    <3>4. At(a, j) = a[j] + 1 /\ a[j] \in Nat
      BY <3>3, AtInside
    <3> QED
      <4>1. j <= Len(a)
        BY <3>3
      <4>2. PICK u \in Nat : u = a[j] /\ At(a, j) = u + 1
        BY <3>4
      <4>3. PICK v \in Nat : v = b[j] /\ At(b, j) = v + 1
        BY <3>2
      <4>4. u + 1 = v + 1
        BY <3>1, <4>2, <4>3
      <4>5. u = v
        BY <4>4
      <4> QED
        BY <4>1, <4>2, <4>3, <4>5
  <2>4. CASE i <= Len(a)
    <3>1. i \in DOMAIN a \cap DOMAIN b /\ a[i] < b[i]
      <4>1. i \in 1..Len(a) /\ i \in 1..Len(b)
        BY <2>2, <2>4
      <4>2. /\ At(a, i) = a[i] + 1 /\ a[i] \in Nat
            /\ At(b, i) = b[i] + 1 /\ b[i] \in Nat
        BY <4>1, AtInside
      <4>3. a[i] < b[i]
        BY ONLY <2>1, <4>2
      <4> QED
        BY <4>1, <4>3, LenProperties
    <3> QED
      BY <2>3, <3>1 DEF LexicallyLess
  <2>5. CASE i > Len(a)
    <3>1. Len(a) = i - 1
      <4>1. CASE i = 1
        BY <2>5, <4>1
      <4>2. CASE i > 1
        BY <2>3, <2>5, <4>2
      <4> QED
        BY <4>1, <4>2
    <3>2. IsPrefix(a, b)
      <4>1. Len(a) <= Len(b)
        BY <2>2, <3>1
      <4>2. \A j \in 1..Len(a) : a[j] = b[j]
        BY <2>3, <3>1
      <4> QED
        BY <4>1, <4>2, PrefixIs
    <3>3. a # b
      BY <2>2, <3>1
    <3> QED
      BY <3>2, <3>3 DEF LexicallyLess, IsStrictPrefix
  <2> QED
    BY <2>4, <2>5
<1> QED
  BY <1>1, <1>2, <1>3 DEF LexicallyLess

LEMMA LessIrreflexive ==
  ASSUME NEW a \in Seq(Nat)
  PROVE  ~LexicallyLess(a, a)
BY LessIs, AtInside, AtBeyond, AtType DEF Precedes

LEMMA LessTransitive ==
  ASSUME NEW a \in Seq(Nat), NEW b \in Seq(Nat), NEW c \in Seq(Nat),
         LexicallyLess(a, b), LexicallyLess(b, c)
  PROVE  LexicallyLess(a, c)
<1>1. PICK i \in Nat \ {0} : Precedes(a, b, i)
  BY LessIs
<1>2. PICK k \in Nat \ {0} : Precedes(b, c, k)
  BY LessIs
<1>3. \A j \in Nat \ {0} : At(a, j) \in Nat /\ At(b, j) \in Nat /\ At(c, j) \in Nat
  BY AtInside, AtBeyond, AtType
<1>4. CASE i <= k
  <2>1. \A j \in 1..(i - 1) : j \in 1..(k - 1)
    BY <1>4
  <2>2. At(a, i) < At(b, i) /\ \A j \in 1..(i - 1) : At(a, j) = At(b, j)
    BY <1>1 DEF Precedes
  <2>3. /\ At(b, i) = At(c, i) \/ At(b, i) < At(c, i)
        /\ \A j \in 1..(i - 1) : At(b, j) = At(c, j)
    BY <1>2, <1>4, <2>1 DEF Precedes
  <2>4. At(a, i) < At(c, i)
    BY <1>3, <2>2, <2>3
  <2>5. Precedes(a, c, i)
    BY <2>2, <2>3, <2>4 DEF Precedes
  <2> QED
    BY <2>5, LessIs
<1>5. CASE k < i
  <2>1. Precedes(a, c, k)
    BY <1>1, <1>2, <1>3, <1>5 DEF Precedes
  <2> QED
    BY <2>1, LessIs
<1> QED
  BY <1>4, <1>5

LEMMA LessTotal ==
  ASSUME NEW a \in Seq(Nat), NEW b \in Seq(Nat), a # b
  PROVE  LexicallyLess(a, b) \/ LexicallyLess(b, a)
<1> DEFINE T == {i \in Nat : i > 0 /\ At(a, i) # At(b, i)}
<1>1. T # {}
  <2>1. CASE Len(a) = Len(b)
    <3>1. a \in [1..Len(a) -> Nat] /\ b \in [1..Len(a) -> Nat]
      BY <2>1, LenProperties
    <3>2. PICK i \in 1..Len(a) : a[i] # b[i]
      BY <3>1
    <3>3. i \in 1..Len(b) /\ i \in Nat /\ i > 0
      BY <2>1
    <3>4. /\ At(a, i) = a[i] + 1 /\ a[i] \in Nat
          /\ At(b, i) = b[i] + 1 /\ b[i] \in Nat
      BY <3>3, AtInside
    <3>5. At(a, i) # At(b, i)
      <4>1. PICK u \in Nat : u = a[i]
        BY <3>4
      <4>2. PICK v \in Nat : v = b[i]
        BY <3>4
      <4>3. u # v
        BY <3>2, <4>1, <4>2
      <4>4. u + 1 # v + 1
        BY <4>3
      <4> QED
        BY <3>4, <4>1, <4>2, <4>4
    <3>6. i \in T
      BY <3>3, <3>5
    <3> QED
      BY <3>6
  <2>2. CASE Len(a) < Len(b)
    <3>1. Len(b) \in T
      BY <2>2, AtInside, AtBeyond, AtType
    <3> QED
      BY <3>1
  <2>3. CASE Len(b) < Len(a)
    <3>1. Len(a) \in T
      BY <2>3, AtInside, AtBeyond, AtType
    <3> QED
      BY <3>1
  <2>4. Len(a) \in Nat /\ Len(b) \in Nat
    OBVIOUS
  <2> QED
    BY <2>1, <2>2, <2>3, <2>4
<1>2. PICK i \in T : \A j \in T : i <= j
  <2>1. T \in SUBSET Nat
    OBVIOUS
  <2> HIDE DEF T
  <2> QED
    BY <1>1, <2>1, LeastNatural
<1>3. i \in Nat \ {0} /\ At(a, i) # At(b, i) /\ At(a, i) \in Nat /\ At(b, i) \in Nat
  BY AtInside, AtBeyond, AtType
<1>4. ASSUME NEW j \in 1..(i - 1) PROVE At(a, j) = At(b, j)
  BY <1>2, <1>3
<1>5. Precedes(a, b, i) \/ Precedes(b, a, i)
  BY <1>3, <1>4 DEF Precedes
<1> QED
  BY <1>3, <1>5, LessIs

-----------------------------------------------------------------------------
(* The order of components.                                                *)

LEMMA PathIsText ==
  ASSUME NEW a \in Paths
  PROVE  /\ a \in Seq(Nat)
         /\ \A i \in 1..Len(a) : a[i] \in Nat /\ a[i] > 0
<1>1. \A i \in 1..Len(a) : a[i] \in Nat \ {0}
  <2>1. a \in Seq(Nat \ {0})
    BY DEF Paths
  <2> QED
    BY <2>1
<1>2. a \in Seq(Nat)
  BY <1>1, SeqMonotonic DEF Paths
<1> QED
  BY <1>1, <1>2

\* A path with the slash before every other character.
SlashFirst(a) == [i \in DOMAIN a |-> IF a[i] = Slash THEN 0 ELSE a[i]]

LEMMA SlashFirstIs ==
  ASSUME NEW a \in Paths
  PROVE  /\ SlashFirst(a) \in Seq(Nat)
         /\ Len(SlashFirst(a)) = Len(a)
         /\ \A i \in 1..Len(a) :
              SlashFirst(a)[i] = IF a[i] = Slash THEN 0 ELSE a[i]
<1>1. a \in Seq(Nat) /\ DOMAIN a = 1..Len(a) /\ Len(a) \in Nat
  BY PathIsText, LenProperties
<1>2. \A i \in 1..Len(a) : (IF a[i] = Slash THEN 0 ELSE a[i]) \in Nat
  BY PathIsText
<1>3. SlashFirst(a) \in [1..Len(a) -> Nat]
  BY <1>1, <1>2 DEF SlashFirst
<1>4. SlashFirst(a) \in Seq(Nat) /\ Len(SlashFirst(a)) = Len(a)
  <2>1. PICK b \in [1..Len(a) -> Nat] : b = SlashFirst(a)
    BY <1>3
  <2>2. b \in Seq(Nat) /\ Len(b) = Len(a)
    BY ONLY <1>1, <2>1
  <2> QED
    BY <2>1, <2>2
<1> QED
  BY <1>1, <1>4 DEF SlashFirst

LEMMA ComponentsLessIs ==
  ASSUME NEW a, NEW b
  PROVE  ComponentsLess(a, b) <=> LexicallyLess(SlashFirst(a), SlashFirst(b))
BY DEF ComponentsLess, SlashFirst

\* No two paths are alike to the script.
LEMMA SlashFirstDiffers ==
  ASSUME NEW a \in Paths, NEW b \in Paths, SlashFirst(a) = SlashFirst(b)
  PROVE  a = b
<1>1. Len(a) = Len(b)
  BY SlashFirstIs
<1>2. ASSUME NEW i \in 1..Len(a) PROVE a[i] = b[i]
  <2>1. /\ SlashFirst(a)[i] = IF a[i] = Slash THEN 0 ELSE a[i]
        /\ SlashFirst(b)[i] = IF b[i] = Slash THEN 0 ELSE b[i]
    BY <1>1, SlashFirstIs
  <2>2. a[i] > 0 /\ b[i] > 0 /\ a[i] \in Nat /\ b[i] \in Nat
    BY <1>1, PathIsText
  <2> QED
    BY <2>1, <2>2
<1>3. a \in [1..Len(a) -> Nat] /\ b \in [1..Len(a) -> Nat]
  BY <1>1, PathIsText, LenProperties
<1> QED
  BY <1>2, <1>3

LEMMA ComponentsOrder ==
  /\ \A a \in Paths : ~ComponentsLess(a, a)
  /\ \A a, b, c \in Paths :
       ComponentsLess(a, b) /\ ComponentsLess(b, c) => ComponentsLess(a, c)
  /\ \A a, b \in Paths : a = b \/ ComponentsLess(a, b) \/ ComponentsLess(b, a)
<1>1. \A a \in Paths : SlashFirst(a) \in Seq(Nat)
  BY SlashFirstIs
<1>2. ASSUME NEW a \in Paths PROVE ~ComponentsLess(a, a)
  BY <1>1, ComponentsLessIs, LessIrreflexive
<1>3. ASSUME NEW a \in Paths, NEW b \in Paths, NEW c \in Paths,
             ComponentsLess(a, b), ComponentsLess(b, c)
      PROVE  ComponentsLess(a, c)
  <2>1. LexicallyLess(SlashFirst(a), SlashFirst(b))
        /\ LexicallyLess(SlashFirst(b), SlashFirst(c))
    BY <1>3, ComponentsLessIs
  <2>2. LexicallyLess(SlashFirst(a), SlashFirst(c))
    BY <1>1, <2>1, LessTransitive
  <2> QED
    BY <2>2, ComponentsLessIs
<1>4. ASSUME NEW a \in Paths, NEW b \in Paths, a # b
      PROVE  ComponentsLess(a, b) \/ ComponentsLess(b, a)
  <2>1. SlashFirst(a) # SlashFirst(b)
    BY <1>4, SlashFirstDiffers
  <2>2. LexicallyLess(SlashFirst(a), SlashFirst(b))
        \/ LexicallyLess(SlashFirst(b), SlashFirst(a))
    BY <1>1, <2>1, LessTotal
  <2> QED
    BY <2>2, ComponentsLessIs
<1> QED
  BY <1>2, <1>3, <1>4

-----------------------------------------------------------------------------
(* Counting what comes before.                                             *)

\* The elements of S, in the order R, each with how many come before it.
Ranked(S, R, rank) ==
  /\ IsFiniteSet(S)
  /\ \A p \in S : <<p, p>> \notin R
  /\ \A p, q, r \in S : <<p, q>> \in R /\ <<q, r>> \in R => <<p, r>> \in R
  /\ \A p, q \in S : p = q \/ <<p, q>> \in R \/ <<q, p>> \in R
  /\ rank = [p \in S |-> Cardinality({q \in S : <<q, p>> \in R})]

LEMMA Ranks ==
  ASSUME NEW S, NEW R, NEW rank, Ranked(S, R, rank)
  PROVE  /\ Cardinality(S) \in Nat
         /\ \A p \in S : rank[p] \in 0..(Cardinality(S) - 1)
         /\ \A p, q \in S : <<p, q>> \in R <=> rank[p] < rank[q]
         /\ \A i \in 1..Cardinality(S) : \E p \in S : rank[p] = i - 1
<1> DEFINE Below(p) == {q \in S : <<q, p>> \in R}
           n == Cardinality(S)
           f == [p \in S |-> rank[p] + 1]
<1>0. /\ IsFiniteSet(S)
      /\ \A p \in S : <<p, p>> \notin R
      /\ \A p, q, r \in S : <<p, q>> \in R /\ <<q, r>> \in R => <<p, r>> \in R
      /\ \A p, q \in S : p = q \/ <<p, q>> \in R \/ <<q, p>> \in R
      /\ rank = [p \in S |-> Cardinality({q \in S : <<q, p>> \in R})]
  BY DEF Ranked
<1>1. n \in Nat
  BY <1>0, FS_CardinalityType
<1>2. ASSUME NEW p \in S
      PROVE  IsFiniteSet(Below(p)) /\ rank[p] = Cardinality(Below(p)) /\ rank[p] \in Nat
  <2>1. Below(p) \in SUBSET S
    OBVIOUS
  <2>2. IsFiniteSet(Below(p))
    BY <1>0, <2>1, FS_Subset
  <2>3. Cardinality(Below(p)) \in Nat
    BY <2>2, FS_CardinalityType
  <2> QED
    BY <1>0, <2>2, <2>3
<1>3. ASSUME NEW p \in S PROVE rank[p] < n
  <2>1. Below(p) \in SUBSET S /\ p \notin Below(p)
    BY <1>0
  <2>2. Cardinality(Below(p)) <= n /\ (n = Cardinality(Below(p)) => S = Below(p))
    BY <1>0, <2>1, FS_Subset
  <2>3. n # Cardinality(Below(p))
    BY <2>1, <2>2
  <2> HIDE DEF n, Below
  <2> QED
    BY <1>1, <1>2, <2>2, <2>3
<1>4. ASSUME NEW p \in S, NEW q \in S, <<p, q>> \in R
      PROVE  rank[p] < rank[q]
  <2>1. Below(p) \in SUBSET Below(q) /\ p \in Below(q) /\ p \notin Below(p)
    BY <1>0, <1>4
  <2>2. IsFiniteSet(Below(q))
    BY <1>2
  <2>3. /\ Cardinality(Below(p)) <= Cardinality(Below(q))
        /\ Cardinality(Below(q)) = Cardinality(Below(p)) => Below(q) = Below(p)
    BY <2>1, <2>2, FS_Subset
  <2>4. Cardinality(Below(q)) # Cardinality(Below(p))
    BY <2>1, <2>3
  <2> HIDE DEF Below
  <2> QED
    BY <1>2, <2>3, <2>4
<1>r. \A p \in S : rank[p] \in Nat /\ rank[p] < n
  BY <1>2, <1>3
<1> HIDE DEF n, Below
<1>5. ASSUME NEW p \in S, NEW q \in S, rank[p] < rank[q]
      PROVE  <<p, q>> \in R
  <2>1. rank[p] \in Nat /\ rank[q] \in Nat
    BY ONLY <1>r
  <2>2. p # q /\ ~(rank[q] < rank[p])
    BY ONLY <2>1, <1>5
  <2> QED
    BY <1>0, <1>4, <2>2
<1>e. ASSUME NEW p \in S, NEW q \in S, rank[p] = rank[q] PROVE p = q
  <2>1. rank[p] \in Nat /\ rank[q] \in Nat
    BY ONLY <1>r
  <2>2. ~(rank[p] < rank[q]) /\ ~(rank[q] < rank[p])
    BY ONLY <2>1, <1>e
  <2> QED
    BY <1>0, <1>4, <2>2
<1>6. f \in Injection(S, 1..n)
  <2>1. f \in [S -> 1..n]
    <3>1. \A p \in S : rank[p] + 1 \in 1..n
      BY ONLY <1>1, <1>r
    <3> QED
      BY ONLY <3>1
  <2>2. ASSUME NEW p \in S, NEW q \in S, f[p] = f[q] PROVE p = q
    <3>1. rank[p] + 1 = rank[q] + 1 /\ rank[p] \in Nat /\ rank[q] \in Nat
      BY ONLY <1>r, <2>2
    <3>2. rank[p] = rank[q]
      BY ONLY <3>1
    <3> QED
      BY <1>e, <3>2
  <2> HIDE DEF f
  <2> QED
    BY <2>1, <2>2 DEF Injection, IsInjective
<1>7. IsFiniteSet(1..n) /\ Cardinality(1..n) = n
  BY <1>1, FS_Interval
<1>8. f \in Surjection(S, 1..n)
  <2>1. Cardinality(S) = Cardinality(1..n)
    BY <1>7 DEF n
  <2> HIDE DEF f
  <2> QED
    BY <1>6, <1>7, <2>1, FS_Injection
<1>9. ASSUME NEW i \in 1..n PROVE \E p \in S : rank[p] = i - 1
  <2>1. PICK p \in S : f[p] = i
    BY <1>8 DEF Surjection
  <2>2. rank[p] + 1 = i /\ rank[p] \in Nat
    BY ONLY <1>r, <2>1
  <2> QED
    BY ONLY <2>2
<1>10. \A p \in S : rank[p] \in 0..(n - 1)
  BY ONLY <1>1, <1>r
<1> USE DEF n
<1> QED
  BY <1>1, <1>4, <1>5, <1>9, <1>10

-----------------------------------------------------------------------------
(* The table.                                                              *)

\* The files of a tree, as many as there may be.
Tree(tree) ==
  /\ IsFiniteSet(DOMAIN tree) /\ DOMAIN tree \subseteq Paths
  /\ \A p \in DOMAIN tree : tree[p] \in Contents

Assets == [path: Paths, bytes: Contents]

\* The files of the set, and no other.
Listing(t, tree, S) ==
  /\ t \in Seq(Assets)
  /\ \A i \in 1..Len(t) : t[i].path \in S /\ t[i].bytes = tree[t[i].path]
  /\ \A p \in S : \E i \in 1..Len(t) : t[i].path = p

\* Sorted by bytes, which leaves no path twice.
Sorted(t) ==
  \A i, j \in 1..Len(t) : i < j => LexicallyLess(t[i].path, t[j].path)

\* Every file of the set has one place, and the places are ordered.
TableOf(t, tree, S) ==
  /\ Listing(t, tree, S)
  /\ \A i, j \in 1..Len(t) : i < j => ComponentsLess(t[i].path, t[j].path)

LEMMA TableIs ==
  ASSUME NEW tree, Tree(tree)
  PROVE  TableOf(Table(tree), tree, AssetPaths(DOMAIN tree))
<1> DEFINE S == AssetPaths(DOMAIN tree)
           n == Cardinality(S)
           R == {e \in S \X S : ComponentsLess(e[1], e[2])}
           rank == [p \in S |-> Cardinality({q \in S : <<q, p>> \in R})]
           at(i) == CHOOSE p \in S : Cardinality({q \in S : ComponentsLess(q, p)}) = i - 1
           t == Table(tree)
<1>1. S \in SUBSET DOMAIN tree
  BY DEF AssetPaths
<1>2. S \subseteq Paths
  BY <1>1 DEF Tree
<1>3. IsFiniteSet(S)
  <2> HIDE DEF S
  <2> QED
    BY <1>1, FS_Subset DEF Tree
<1> HIDE DEF S
<1>4. \A p, q \in S : <<p, q>> \in R <=> ComponentsLess(p, q)
  OBVIOUS
<1>5. /\ n \in Nat
      /\ \A p \in S : rank[p] \in 0..(n - 1)
      /\ \A p, q \in S : <<p, q>> \in R <=> rank[p] < rank[q]
      /\ \A i \in 1..n : \E p \in S : rank[p] = i - 1
  <2>1. \A p \in S : <<p, p>> \notin R
    BY <1>2, <1>4, ComponentsOrder
  <2>2. \A p, q, r \in S : <<p, q>> \in R /\ <<q, r>> \in R => <<p, r>> \in R
    <3>1. ASSUME NEW p \in S, NEW q \in S, NEW r \in S, <<p, q>> \in R, <<q, r>> \in R
          PROVE  <<p, r>> \in R
      <4>1. ComponentsLess(p, q) /\ ComponentsLess(q, r)
        BY <1>4, <3>1
      <4>2. ComponentsLess(p, r)
        BY <1>2, <4>1, ComponentsOrder
      <4> QED
        BY <1>4, <4>2
    <3> HIDE DEF R
    <3> QED
      BY <3>1
  <2>3. \A p, q \in S : p = q \/ <<p, q>> \in R \/ <<q, p>> \in R
    BY <1>2, <1>4, ComponentsOrder
  <2>4. rank = [p \in S |-> Cardinality({q \in S : <<q, p>> \in R})]
    OBVIOUS
  <2> HIDE DEF R, rank, n
  <2>5. Ranked(S, R, rank)
    BY ONLY <1>3, <2>1, <2>2, <2>3, <2>4 DEF Ranked
  <2>6. /\ Cardinality(S) \in Nat
        /\ \A p \in S : rank[p] \in 0..(Cardinality(S) - 1)
        /\ \A p, q \in S : <<p, q>> \in R <=> rank[p] < rank[q]
        /\ \A i \in 1..Cardinality(S) : \E p \in S : rank[p] = i - 1
    BY ONLY <2>5, Ranks
  <2> QED
    BY ONLY <2>6 DEF n
<1>6. ASSUME NEW p \in S
      PROVE  rank[p] = Cardinality({q \in S : ComponentsLess(q, p)})
  <2>1. {q \in S : <<q, p>> \in R} = {q \in S : ComponentsLess(q, p)}
    BY <1>4
  <2> QED
    BY <2>1
<1>7. t = [i \in 1..n |-> [path |-> at(i), bytes |-> tree[at(i)]]]
  BY DEF Table, S
<1> HIDE DEF n, R, rank, t
<1>8. ASSUME NEW i \in 1..n PROVE at(i) \in S /\ rank[at(i)] = i - 1
  <2>1. PICK p \in S : rank[p] = i - 1
    BY <1>5
  <2>2. \E q \in S : Cardinality({r \in S : ComponentsLess(r, q)}) = i - 1
    BY <1>6, <2>1
  <2>3. at(i) \in S /\ Cardinality({q \in S : ComponentsLess(q, at(i))}) = i - 1
    BY <2>2
  <2> HIDE DEF at
  <2> QED
    BY <1>6, <2>3
<1> HIDE DEF at
<1>9. Len(t) = n /\ DOMAIN t = 1..n
  BY <1>5, <1>7
<1>10. ASSUME NEW i \in 1..n
       PROVE  /\ t[i].path = at(i) /\ t[i].path \in S
              /\ t[i].bytes = tree[t[i].path]
  BY <1>7, <1>8
<1>11. ASSUME NEW p \in S PROVE \E i \in 1..n : t[i].path = p
  <2>1. rank[p] \in 0..(n - 1) /\ n \in Nat
    BY <1>5
  <2>2. rank[p] + 1 \in 1..n /\ rank[at(rank[p] + 1)] = rank[p] /\ at(rank[p] + 1) \in S
    BY <1>5, <1>8, <2>1
  <2>3. at(rank[p] + 1) = p
    <3> DEFINE q == at(rank[p] + 1)
    <3>1. ~(rank[p] < rank[q]) /\ ~(rank[q] < rank[p]) /\ q \in S
      BY <2>1, <2>2
    <3>2. ~ComponentsLess(p, q) /\ ~ComponentsLess(q, p)
      BY <1>4, <1>5, <3>1
    <3> HIDE DEF q
    <3>3. p = q
      BY <1>2, <3>1, <3>2, ComponentsOrder
    <3> QED
      BY <3>3 DEF q
  <2> QED
    BY <1>10, <2>2, <2>3
<1>t. t \in Seq(Assets)
  <2>1. \A i \in 1..n : at(i) \in Paths /\ tree[at(i)] \in Contents
    BY <1>1, <1>2, <1>8 DEF Tree
  <2>2. \A i \in 1..n : [path |-> at(i), bytes |-> tree[at(i)]] \in Assets
    BY <2>1 DEF Assets
  <2> QED
    BY <1>5, <1>7, <2>2
<1>12. ASSUME NEW i \in 1..n, NEW j \in 1..n, i < j
       PROVE  ComponentsLess(t[i].path, t[j].path)
  <2>1. rank[at(i)] = i - 1 /\ rank[at(j)] = j - 1 /\ at(i) \in S /\ at(j) \in S
    BY <1>8
  <2>2. rank[at(i)] < rank[at(j)]
    BY <1>12, <2>1
  <2>3. ComponentsLess(at(i), at(j))
    BY <1>4, <1>5, <2>1, <2>2
  <2> QED
    BY <1>10, <2>3
<1> QED
  BY <1>t, <1>5, <1>9, <1>10, <1>11, <1>12 DEF TableOf, Listing, S, t

-----------------------------------------------------------------------------
(* Where the two orders agree.                                             *)

LEMMA AtSlashFirst ==
  ASSUME NEW a \in Paths, NEW i \in Nat \ {0}
  PROVE  /\ i <= Len(a) => /\ i \in 1..Len(a)
                           /\ At(a, i) = a[i] + 1 /\ a[i] \in Nat /\ a[i] > 0
                           /\ At(SlashFirst(a), i)
                                = IF a[i] = Slash THEN 1 ELSE a[i] + 1
         /\ i > Len(a) => At(a, i) = 0 /\ At(SlashFirst(a), i) = 0
         /\ Len(a) \in Nat
<1>1. a \in Seq(Nat) /\ SlashFirst(a) \in Seq(Nat) /\ Len(SlashFirst(a)) = Len(a)
  BY PathIsText, SlashFirstIs
<1>2. Len(a) \in Nat
  BY <1>1
<1>3. CASE i <= Len(a)
  <2>1. i \in 1..Len(a)
    BY <1>2, <1>3
  <2>2. At(a, i) = a[i] + 1 /\ At(SlashFirst(a), i) = SlashFirst(a)[i] + 1
    BY <1>1, <2>1, AtInside
  <2>3. /\ a[i] \in Nat /\ a[i] > 0
        /\ SlashFirst(a)[i] = IF a[i] = Slash THEN 0 ELSE a[i]
    BY <2>1, PathIsText, SlashFirstIs
  <2> QED
    BY <1>2, <1>3, <2>1, <2>2, <2>3
<1>4. CASE i > Len(a)
  <2>1. At(a, i) = 0 /\ At(SlashFirst(a), i) = 0
    BY <1>1, <1>4, AtBeyond
  <2> QED
    BY <1>2, <1>4, <2>1
<1> QED
  BY <1>2, <1>3, <1>4

LEMMA AgreedOrder ==
  ASSUME NEW S \in SUBSET Paths, Agreed(S), NEW a \in S, NEW b \in S,
         ComponentsLess(a, b)
  PROVE  LexicallyLess(a, b)
<1> DEFINE sa == SlashFirst(a)
           sb == SlashFirst(b)
<1>1. PICK i \in Nat \ {0} : Precedes(sa, sb, i)
  <2>1. sa \in Seq(Nat) /\ sb \in Seq(Nat) /\ LexicallyLess(sa, sb)
    BY SlashFirstIs, ComponentsLessIs
  <2> HIDE DEF sa, sb
  <2> QED
    BY <2>1, LessIs
<1>2. At(sa, i) < At(sb, i) /\ \A j \in 1..(i - 1) : At(sa, j) = At(sb, j)
  BY <1>1 DEF Precedes
<1>3. ASSUME NEW j \in 1..(i - 1)
      PROVE  /\ At(a, j) = At(b, j)
             /\ j <= Len(a) <=> j <= Len(b)
             /\ j <= Len(a) => a[j] = b[j]
  <2>1. j \in Nat \ {0} /\ At(sa, j) = At(sb, j)
    BY <1>2
  <2> HIDE DEF sa, sb
  <2>2. /\ j <= Len(a) => /\ At(a, j) = a[j] + 1 /\ a[j] \in Nat /\ a[j] > 0
                          /\ At(sa, j) = IF a[j] = Slash THEN 1 ELSE a[j] + 1
        /\ j > Len(a) => At(a, j) = 0 /\ At(sa, j) = 0
        /\ Len(a) \in Nat
    BY <2>1, AtSlashFirst DEF sa
  <2>3. /\ j <= Len(b) => /\ At(b, j) = b[j] + 1 /\ b[j] \in Nat /\ b[j] > 0
                          /\ At(sb, j) = IF b[j] = Slash THEN 1 ELSE b[j] + 1
        /\ j > Len(b) => At(b, j) = 0 /\ At(sb, j) = 0
        /\ Len(b) \in Nat
    BY <2>1, AtSlashFirst DEF sb
  <2> QED
    BY <2>1, <2>2, <2>3
<1>4. /\ i <= Len(a) => /\ i \in 1..Len(a)
                        /\ At(a, i) = a[i] + 1 /\ a[i] \in Nat /\ a[i] > 0
                        /\ At(sa, i) = IF a[i] = Slash THEN 1 ELSE a[i] + 1
      /\ i > Len(a) => At(a, i) = 0 /\ At(sa, i) = 0
      /\ Len(a) \in Nat
  BY AtSlashFirst
<1>5. /\ i <= Len(b) => /\ i \in 1..Len(b)
                        /\ At(b, i) = b[i] + 1 /\ b[i] \in Nat /\ b[i] > 0
                        /\ At(sb, i) = IF b[i] = Slash THEN 1 ELSE b[i] + 1
      /\ i > Len(b) => At(b, i) = 0 /\ At(sb, i) = 0
      /\ Len(b) \in Nat
  BY AtSlashFirst
<1> HIDE DEF sa, sb
<1>6. i <= Len(b)
  BY <1>2, <1>4, <1>5
<1>7. At(a, i) < At(b, i)
  <2>1. CASE i > Len(a)
    BY <1>4, <1>5, <1>6, <2>1
  <2>2. CASE i <= Len(a) /\ a[i] < b[i]
    BY <1>4, <1>5, <1>6, <2>2
  <2>3. CASE i <= Len(a) /\ ~(a[i] < b[i])
    <3>1. a[i] = Slash /\ b[i] < Slash
      <4>1. At(sa, i) < At(sb, i)
        BY <1>2
      <4>2. At(sa, i) = IF a[i] = Slash THEN 1 ELSE a[i] + 1
        BY <1>4, <2>3
      <4>3. At(sb, i) = IF b[i] = Slash THEN 1 ELSE b[i] + 1
        BY <1>5, <1>6
      <4>4. a[i] \in Nat /\ b[i] \in Nat /\ a[i] > 0 /\ b[i] > 0
        BY <1>4, <1>5, <1>6, <2>3
      <4> QED
        BY ONLY <2>3, <4>1, <4>2, <4>3, <4>4 DEF Slash
    <3>2. SubSeq(a, 1, i - 1) = SubSeq(b, 1, i - 1)
      <4>1. i - 1 \in 0..Len(a) /\ i - 1 \in 0..Len(b)
        BY <1>4, <1>5, <1>6, <2>3
      <4>2. a \in Seq(Nat) /\ b \in Seq(Nat)
        BY PathIsText
      <4>3. /\ SubSeq(a, 1, i - 1) \in [1..(i - 1) -> Nat]
            /\ \A j \in 1..(i - 1) : SubSeq(a, 1, i - 1)[j] = a[j]
        BY <4>1, <4>2, FrontIs
      <4>4. /\ SubSeq(b, 1, i - 1) \in [1..(i - 1) -> Nat]
            /\ \A j \in 1..(i - 1) : SubSeq(b, 1, i - 1)[j] = b[j]
        BY <4>1, <4>2, FrontIs
      <4>5. \A j \in 1..(i - 1) : a[j] = b[j]
        BY <1>3, <1>4, <2>3
      <4> QED
        BY <4>3, <4>4, <4>5
    <3>3. i \in DOMAIN a \cap DOMAIN b
      <4>1. DOMAIN a = 1..Len(a) /\ DOMAIN b = 1..Len(b)
        BY PathIsText, LenProperties
      <4> QED
        BY <1>4, <1>5, <1>6, <2>3, <4>1
    <3> QED
      BY <3>1, <3>2, <3>3 DEF Agreed
  <2> QED
    BY <1>4, <2>1, <2>2, <2>3
<1>8. Precedes(a, b, i)
  BY <1>3, <1>7 DEF Precedes
<1> QED
  BY <1>8, PathIsText, LessIs

-----------------------------------------------------------------------------
(* The search.                                                             *)

\* The boundary, moved to the nearest of the places that are left.
Nearest(boundary, first, count) ==
  IF boundary < first THEN first
  ELSE IF boundary > first + count THEN first + count ELSE boundary

\* If what is less than the path is what comes before the boundary, the search
\* ends there.
LEMMA LowerBoundIs ==
  ASSUME NEW t, Len(t) \in Nat, NEW path, NEW boundary \in 1..(Len(t) + 1),
         \A i \in 1..Len(t) : LexicallyLess(t[i].path, path) <=> i < boundary
  PROVE  LowerBound(t, path) = boundary
<1> DEFINE n == Len(t)
           E(f, left) ==
             LET first == left[1]
                 count == left[2]
                 half == count \div 2
             IN IF count = 0 THEN first
                ELSE IF LexicallyLess(t[first + half].path, path)
                  THEN f[<<first + half + 1, count - half - 1>>]
                ELSE f[<<first, half>>]
           F(f) == [left \in Lefts(n) |-> E(f, left)]
           g == [left \in Lefts(n) |-> Nearest(boundary, left[1], left[2])]
           h == CHOOSE f : f = F(f)
<1>0. \A first, count : <<first, count>> \in Lefts(n)
        <=> first \in 1..(n + 1) /\ count \in 0..n /\ first + count <= n + 1
  BY DEF Lefts
<1>l. \A left \in Lefts(n) : /\ left = <<left[1], left[2]>>
                             /\ left[1] \in 1..(n + 1) /\ left[2] \in 0..n
  BY DEF Lefts
<1>1. ASSUME NEW first, NEW count, <<first, count>> \in Lefts(n), count # 0,
             NEW half, half = count \div 2
      PROVE  /\ <<first, half>> \in Lefts(n)
             /\ <<first + half + 1, count - half - 1>> \in Lefts(n)
             /\ half \in Nat /\ half < count /\ first + half \in 1..n
             /\ count - half - 1 \in Nat /\ count - half - 1 < count
             /\ first \in Nat /\ count \in Nat
  <2>1. /\ first \in 1..(n + 1) /\ count \in 0..n /\ first + count <= n + 1
        /\ half \in Nat /\ half < count
    BY <1>0, <1>1
  <2>2. /\ half \in 0..n /\ first + half <= n + 1 /\ first + half \in 1..n
        /\ first + half + 1 \in 1..(n + 1) /\ count - half - 1 \in 0..n
        /\ first + half + 1 + (count - half - 1) <= n + 1
        /\ count - half - 1 \in Nat /\ count - half - 1 < count
        /\ first \in Nat /\ count \in Nat
    BY ONLY <1>1, <2>1, Len(t) \in Nat
  <2>3. <<first, half>> \in Lefts(n)
    BY ONLY <1>0, <2>1, <2>2
  <2>4. <<first + half + 1, count - half - 1>> \in Lefts(n)
    BY ONLY <1>0, <2>1, <2>2
  <2> QED
    BY ONLY <2>1, <2>2, <2>3, <2>4
<1>2. ASSUME NEW first, NEW count, <<first, count>> \in Lefts(n), count # 0,
             NEW half, half = count \div 2
      PROVE  Nearest(boundary, first, count)
               = IF LexicallyLess(t[first + half].path, path)
                   THEN Nearest(boundary, first + half + 1, count - half - 1)
                 ELSE Nearest(boundary, first, half)
  <2>1. /\ half \in Nat /\ half < count /\ first + half \in 1..n
        /\ first \in Nat /\ count \in Nat
    BY <1>1, <1>2
  <2>b. boundary \in Nat
    OBVIOUS
  <2>2. LexicallyLess(t[first + half].path, path) <=> first + half < boundary
    BY <2>1
  <2> QED
    BY ONLY <2>1, <2>b, <2>2 DEF Nearest
<1>3. g = F(g)
  <2>1. ASSUME NEW first, NEW count, <<first, count>> \in Lefts(n)
        PROVE  Nearest(boundary, first, count) = E(g, <<first, count>>)
    <3>1. CASE count = 0
      <4>1. first \in 1..(n + 1)
        BY <1>0, <2>1
      <4> QED
        BY <3>1, <4>1 DEF Nearest
    <3>2. CASE count # 0
      <4> DEFINE half == count \div 2
      <4>0. /\ <<first, half>> \in Lefts(n)
            /\ <<first + half + 1, count - half - 1>> \in Lefts(n)
        BY <1>1, <2>1, <3>2
      <4>1. g[<<first + half + 1, count - half - 1>>]
              = Nearest(boundary, first + half + 1, count - half - 1)
        BY <4>0
      <4>2. g[<<first, half>>] = Nearest(boundary, first, half)
        BY <4>0
      <4>3. E(g, <<first, count>>)
              = IF LexicallyLess(t[first + half].path, path)
                  THEN g[<<first + half + 1, count - half - 1>>]
                ELSE g[<<first, half>>]
        <5> HIDE DEF g
        <5> QED
          BY <3>2
      <4>4. Nearest(boundary, first, count)
               = IF LexicallyLess(t[first + half].path, path)
                   THEN Nearest(boundary, first + half + 1, count - half - 1)
                 ELSE Nearest(boundary, first, half)
        BY <1>2, <2>1, <3>2
      <4> HIDE DEF g, E
      <4> QED
        BY <4>1, <4>2, <4>3, <4>4
    <3> QED
      BY <3>1, <3>2
  <2>2. ASSUME NEW left \in Lefts(n)
        PROVE  Nearest(boundary, left[1], left[2]) = E(g, left)
    <3>1. left = <<left[1], left[2]>>
      BY <1>l
    <3> HIDE DEF E, g
    <3> QED
      BY <2>1, <3>1
  <2> HIDE DEF E
  <2> QED
    BY <2>2
<1>4. h = F(h)
  <2> HIDE DEF g, F
  <2> QED
    BY <1>3
<1>5. LowerBound(t, path) = h[<<1, n>>]
  BY DEF LowerBound
<1> HIDE DEF h
<1>6. ASSUME NEW left \in Lefts(n) PROVE h[left] = E(h, left)
  <2> HIDE DEF E
  <2>1. h = [left_1 \in Lefts(n) |-> E(h, left_1)]
    BY <1>4
  <2> QED
    BY <2>1
<1> HIDE DEF F, g
<1>7. ASSUME NEW first, NEW count, <<first, count>> \in Lefts(n)
      PROVE  h[<<first, count>>] = Nearest(boundary, first, count)
  <2> DEFINE wrong(c) ==
               \E f : <<f, c>> \in Lefts(n) /\ h[<<f, c>>] # Nearest(boundary, f, c)
             T == {c \in Nat : wrong(c)}
  <2>0. count \in Nat
    BY <1>0, <1>7
  <2> SUFFICES ASSUME T # {} PROVE FALSE
    BY <1>7, <2>0
  <2>1. PICK c \in T : \A d \in T : c <= d
    <3>1. T \in SUBSET Nat
      OBVIOUS
    <3> HIDE DEF T
    <3> QED
      BY <3>1, LeastNatural
  <2>2. PICK f : <<f, c>> \in Lefts(n) /\ h[<<f, c>>] # Nearest(boundary, f, c)
    BY <2>1
  <2>3. ASSUME NEW d \in Nat, d < c, NEW e, <<e, d>> \in Lefts(n)
        PROVE  h[<<e, d>>] = Nearest(boundary, e, d)
    <3>1. d \notin T
      BY <2>1, <2>3
    <3> QED
      BY <2>3, <3>1
  <2>5. PICK half : half = c \div 2
    OBVIOUS
  <2>e. h[<<f, c>>] = E(h, <<f, c>>)
    <3> HIDE DEF E, T
    <3> QED
      BY <1>6, <2>2
  <2>6. h[<<f, c>>] = IF c = 0 THEN f
                      ELSE IF LexicallyLess(t[f + half].path, path)
                        THEN h[<<f + half + 1, c - half - 1>>]
                      ELSE h[<<f, half>>]
    BY ONLY <2>e, <2>5
  <2> HIDE DEF T, E
  <2>7. CASE c = 0
    <3>1. f \in 1..(n + 1)
      BY <1>0, <2>2
    <3>2. Nearest(boundary, f, c) = f
      BY <2>7, <3>1 DEF Nearest
    <3> QED
      BY <2>2, <2>6, <2>7, <3>2
  <2>8. CASE c # 0
    <3>1. /\ <<f, half>> \in Lefts(n) /\ half \in Nat /\ half < c
          /\ <<f + half + 1, c - half - 1>> \in Lefts(n)
          /\ c - half - 1 \in Nat /\ c - half - 1 < c
      BY <1>1, <2>2, <2>5, <2>8
    <3>2. h[<<f + half + 1, c - half - 1>>]
            = Nearest(boundary, f + half + 1, c - half - 1)
      BY <2>3, <3>1
    <3>3. h[<<f, half>>] = Nearest(boundary, f, half)
      BY <2>3, <3>1
    <3>4. Nearest(boundary, f, c)
            = IF LexicallyLess(t[f + half].path, path)
                THEN Nearest(boundary, f + half + 1, c - half - 1)
              ELSE Nearest(boundary, f, half)
      BY <1>2, <2>2, <2>5, <2>8
    <3> QED
      BY <2>2, <2>6, <2>8, <3>2, <3>3, <3>4
  <2> QED
    BY <2>7, <2>8
<1>8. <<1, n>> \in Lefts(n)
  BY <1>0
<1>9. h[<<1, n>>] = Nearest(boundary, 1, n)
  BY <1>7, <1>8
<1> QED
  BY <1>5, <1>9 DEF Nearest

\* In a table that is sorted by bytes, a path is found exactly if it is there.
LEMMA FoundIs ==
  ASSUME NEW t, NEW tree, NEW S, Listing(t, tree, S), Sorted(t),
         NEW path \in Seq(Nat)
  PROVE  /\ Found(t, path) <=> path \in S
         /\ Found(t, path) => Bytes(t, path) = tree[path]
<1> DEFINE less(i) == LexicallyLess(t[i].path, path)
           T == {i \in Nat : i > 0 /\ (i = Len(t) + 1 \/ (i <= Len(t) /\ ~less(i)))}
<1>1. /\ Len(t) \in Nat
      /\ \A i \in 1..Len(t) : t[i].path \in S /\ t[i].bytes = tree[t[i].path]
      /\ \A p \in S : \E i \in 1..Len(t) : t[i].path = p
  BY DEF Listing
<1>2. path \in Seq(Nat) /\ \A i \in 1..Len(t) : t[i].path \in Seq(Nat)
  <2>1. t \in Seq(Assets)
    BY DEF Listing
  <2>2. \A i \in 1..Len(t) : t[i] \in Assets
    BY <2>1
  <2>3. \A i \in 1..Len(t) : t[i].path \in Paths
    BY <2>2 DEF Assets
  <2> QED
    BY <2>3, PathIsText
<1>3. PICK m \in T : \A i \in T : m <= i
  <2>1. T \in SUBSET Nat /\ Len(t) + 1 \in T
    BY <1>1
  <2> HIDE DEF T
  <2> QED
    BY <2>1, LeastNatural
<1>4. m \in 1..(Len(t) + 1)
  BY <1>1
<1>5. ASSUME NEW i \in 1..Len(t), i < m PROVE less(i)
  <2>1. i \notin T
    BY <1>3, <1>4, <1>5
  <2> HIDE DEF less
  <2> QED
    BY <2>1
<1>6. ASSUME NEW i \in 1..Len(t), ~(i < m) PROVE ~less(i)
  <2>1. m \in 1..Len(t) /\ ~less(m)
    BY <1>1, <1>4, <1>6
  <2>2. CASE i = m
    BY <2>1, <2>2
  <2>3. CASE m < i
    <3>1. LexicallyLess(t[m].path, t[i].path)
      BY <2>1, <2>3 DEF Sorted
    <3>2. ASSUME LexicallyLess(t[i].path, path) PROVE FALSE
      <4>1. LexicallyLess(t[m].path, path)
        BY <1>2, <2>1, <3>1, <3>2, LessTransitive
      <4> QED
        BY <2>1, <4>1
    <3> QED
      BY <3>2
  <2> QED
    BY <1>4, <1>6, <2>2, <2>3
<1>7. LowerBound(t, path) = m
  <2>1. \A i \in 1..Len(t) : LexicallyLess(t[i].path, path) <=> i < m
    BY <1>5, <1>6
  <2> HIDE DEF T
  <2> QED
    BY <1>1, <1>4, <2>1, LowerBoundIs
<1>8. Found(t, path) <=> m <= Len(t) /\ t[m].path = path
  BY <1>7 DEF Found
<1>9. ASSUME path \in S PROVE Found(t, path)
  <2>1. PICK k \in 1..Len(t) : t[k].path = path
    BY <1>1, <1>9
  <2>2. ~less(k)
    BY <1>2, <2>1, LessIrreflexive
  <2>3. ~(k < m)
    BY <1>5, <2>2
  <2>4. ASSUME m < k PROVE FALSE
    <3>1. m \in 1..Len(t)
      BY <1>1, <1>4, <2>4
    <3>2. LexicallyLess(t[m].path, path)
      BY <2>1, <2>4, <3>1 DEF Sorted
    <3>3. ~(m < m)
      BY <1>4
    <3> QED
      BY <1>6, <3>1, <3>2, <3>3
  <2>5. m = k
    BY <1>4, <2>3, <2>4
  <2> QED
    BY <1>8, <2>1, <2>5
<1>10. ASSUME Found(t, path) PROVE path \in S /\ Bytes(t, path) = tree[path]
  <2>1. m \in 1..Len(t) /\ t[m].path = path
    BY <1>1, <1>4, <1>8, <1>10
  <2>2. Bytes(t, path) = t[m].bytes
    BY <1>7 DEF Bytes
  <2> QED
    BY <1>1, <2>1, <2>2
<1> QED
  BY <1>9, <1>10

-----------------------------------------------------------------------------
(* The invariant, and what is found.                                       *)

IInv ==
  /\ Tree(files)
  /\ Generated => assets = Table(files)
  /\ pin \in {Pin(r) : r \in DOMAIN Releases}

LEMMA InitKeeps == Init => IInv
<1> SUFFICES ASSUME Init PROVE IInv
  OBVIOUS
<1>1. PICK r \in DOMAIN Releases : files = Releases[r]
  BY DEF Init
<1>2. Tree(files)
  BY <1>1, BundleAssumption DEF Tree
<1> QED
  BY <1>2 DEF IInv, Init, Generated

LEMMA NextKeeps == IInv /\ [Next]_vars => IInv'
<1> SUFFICES ASSUME IInv, [Next]_vars PROVE IInv'
  OBVIOUS
<1>1. /\ IsFiniteSet(DOMAIN files) /\ DOMAIN files \subseteq Paths
      /\ \A p \in DOMAIN files : files[p] \in Contents
  BY DEF IInv, Tree
<1>2. CASE Edit
  <2>1. assets' = <<>> /\ pin' = pin
    BY <1>2 DEF Edit
  <2>2. CASE \E path \in DOMAIN Edits : \E content \in Edits[path] :
               files' = Written(files, path, content)
    <3>1. PICK path \in DOMAIN Edits : \E content \in Edits[path] :
                 files' = Written(files, path, content)
      BY <2>2
    <3>2. PICK content \in Edits[path] : files' = Written(files, path, content)
      BY <3>1
    <3>3. path \in Paths /\ content \in Contents
      BY BundleAssumption
    <3>4. /\ DOMAIN files' = DOMAIN files \cup {path}
          /\ \A p \in DOMAIN files' : files'[p] \in Contents
      BY <1>1, <3>2, <3>3 DEF Written
    <3>5. IsFiniteSet(DOMAIN files \cup {path})
      BY <1>1, FS_AddElement
    <3>6. Tree(files')
      BY <1>1, <3>3, <3>4, <3>5 DEF Tree
    <3> QED
      BY <2>1, <3>6 DEF IInv, Generated
  <2>3. CASE \E path \in DOMAIN files :
               files' = Restrict(files, DOMAIN files \ {path})
    <3>1. PICK path \in DOMAIN files :
                 files' = Restrict(files, DOMAIN files \ {path})
      BY <2>3
    <3>2. /\ DOMAIN files' = DOMAIN files \ {path}
          /\ \A p \in DOMAIN files' : files'[p] \in Contents
      BY <1>1, <3>1 DEF Restrict
    <3>3. Tree(files')
      BY <1>1, <3>2, FS_RemoveElement DEF Tree
    <3> QED
      BY <2>1, <3>3 DEF IInv, Generated
  <2> QED
    BY <1>2, <2>2, <2>3 DEF Edit
<1>3. CASE Generate
  BY <1>3 DEF Generate, IInv, Generated
<1>4. CASE UNCHANGED vars
  BY <1>4 DEF vars, IInv, Generated
<1> QED
  BY <1>2, <1>3, <1>4 DEF Next

\* The table of a tree is sorted by bytes where the two orders agree.
LEMMA AgreedTable ==
  ASSUME NEW tree, Tree(tree), Agreed(AssetPaths(DOMAIN tree))
  PROVE  /\ Listing(Table(tree), tree, AssetPaths(DOMAIN tree))
         /\ Sorted(Table(tree))
<1> DEFINE S == AssetPaths(DOMAIN tree)
           t == Table(tree)
<1>1. S \in SUBSET Paths
  BY DEF AssetPaths, Tree
<1>2. TableOf(t, tree, S)
  BY TableIs
<1>3. Agreed(S)
  OBVIOUS
<1> HIDE DEF S, t
<1>4. Listing(t, tree, S)
  BY <1>2 DEF TableOf
<1>5. ASSUME NEW i \in 1..Len(t), NEW j \in 1..Len(t), i < j
      PROVE  LexicallyLess(t[i].path, t[j].path)
  <2>1. t[i].path \in S /\ t[j].path \in S /\ ComponentsLess(t[i].path, t[j].path)
    BY <1>2, <1>4, <1>5 DEF TableOf, Listing
  <2> QED
    BY <1>1, <1>3, <2>1, AgreedOrder
<1>6. Sorted(t)
  BY <1>5 DEF Sorted
<1> QED
  BY <1>4, <1>6 DEF S, t

LEMMA TableIsFound == IInv => FindsWhatIsEmbedded
<1> SUFFICES ASSUME IInv, Generated, OrdersAgree,
                    NEW path \in DOMAIN files \cup DOMAIN Edits
             PROVE  /\ Found(assets, path) <=> path \in AssetPaths(DOMAIN files)
                    /\ Found(assets, path) => Bytes(assets, path) = files[path]
  BY DEF FindsWhatIsEmbedded
<1>1. Tree(files) /\ assets = Table(files)
  BY DEF IInv
<1>2. path \in Paths
  BY <1>1, BundleAssumption DEF Tree
<1>3. path \in Seq(Nat)
  BY <1>2, PathIsText
<1>4. Listing(assets, files, AssetPaths(DOMAIN files)) /\ Sorted(assets)
  BY <1>1, AgreedTable DEF OrdersAgree
<1> QED
  BY <1>3, <1>4, FoundIs

-----------------------------------------------------------------------------
(* Recursion along a sequence.                                             *)

\* What is computed along a sequence, a step for each of its places, exists.
Recursion(f, S, N, base, step) ==
  /\ f \in [0..N -> S] /\ f[0] = base
  /\ \A i \in 1..N : f[i] = step[<<f[i - 1], i>>]

LEMMA Recurs ==
  ASSUME NEW S, NEW N \in Nat, NEW base \in S, NEW step \in [S \X (1..N) -> S]
  PROVE  \E f : Recursion(f, S, N, base, step)
<1> DEFINE Good(n) == \E f \in [0..n -> S] : f[0] = base
                        /\ \A i \in 1..n : f[i] = step[<<f[i - 1], i>>]
           T == {n \in Nat : n <= N /\ ~Good(n)}
<1>1. SUFFICES ASSUME T # {} PROVE FALSE
  <2>1. Good(N)
    <3>1. T = {}
      <4> HIDE DEF T
      <4> QED
        BY <1>1
    <3>2. N \in Nat /\ N <= N
      OBVIOUS
    <3> HIDE DEF Good
    <3> QED
      BY <3>1, <3>2
  <2>2. PICK f \in [0..N -> S] : f[0] = base
                        /\ \A i \in 1..N : f[i] = step[<<f[i - 1], i>>]
    BY <2>1
  <2>3. Recursion(f, S, N, base, step)
    BY <2>2 DEF Recursion
  <2> QED
    BY <2>3
<1>2. PICK m \in T : \A n \in T : m <= n
  <2>1. T \in SUBSET Nat
    OBVIOUS
  <2> HIDE DEF T
  <2> QED
    BY <1>1, <2>1, LeastNatural
<1>3. m \in Nat /\ m <= N /\ ~Good(m)
  OBVIOUS
<1>4. CASE m = 0
  <2>1. [i \in 0..0 |-> base] \in [0..0 -> S]
    OBVIOUS
  <2>2. Good(0)
    <3>1. [i \in 0..0 |-> base][0] = base /\ \A i \in 1..0 : FALSE
      OBVIOUS
    <3> QED
      BY <2>1, <3>1
  <2> QED
    BY <1>3, <1>4, <2>2
<1>5. CASE m > 0
  <2>1. m - 1 \in Nat /\ m - 1 <= N /\ m - 1 \notin T
    BY <1>2, <1>3, <1>5
  <2>2. Good(m - 1)
    BY <2>1
  <2>3. PICK f \in [0..(m - 1) -> S] : f[0] = base
                 /\ \A i \in 1..(m - 1) : f[i] = step[<<f[i - 1], i>>]
    BY <2>2
  <2> DEFINE next == step[<<f[m - 1], m>>]
             g == [i \in 0..m |-> IF i = m THEN next ELSE f[i]]
  <2>4. f[m - 1] \in S /\ next \in S
    <3>1. m - 1 \in 0..(m - 1) /\ m \in 1..N
      BY <1>3, <1>5
    <3>2. f[m - 1] \in S
      BY <3>1
    <3>3. <<f[m - 1], m>> \in S \X (1..N)
      BY <3>1, <3>2
    <3> QED
      BY <3>2, <3>3
  <2>5. \A i \in 0..m : i = m \/ i \in 0..(m - 1)
    BY <1>3, <1>5
  <2>6. g \in [0..m -> S]
    <3> HIDE DEF next
    <3> QED
      BY <2>4, <2>5
  <2>7. g[0] = base
    BY <1>3, <1>5, <2>3
  <2>8. ASSUME NEW i \in 1..m PROVE g[i] = step[<<g[i - 1], i>>]
    <3>1. CASE i = m
      <4>1. m - 1 \in 0..m /\ m - 1 # m /\ m \in 0..m
        BY <1>3, <1>5
      <4>2. g[m - 1] = f[m - 1] /\ g[m] = next
        BY <4>1
      <4> QED
        BY <3>1, <4>2
    <3>2. CASE i # m
      <4>1. i \in 1..(m - 1) /\ i \in 0..m /\ i - 1 \in 0..m /\ i - 1 # m
        BY <1>3, <1>5, <3>2
      <4>2. g[i] = f[i] /\ g[i - 1] = f[i - 1]
        BY <3>2, <4>1
      <4> HIDE DEF g
      <4> QED
        BY <2>3, <4>1, <4>2
    <3> QED
      BY <3>1, <3>2
  <2>9. Good(m)
    <3> HIDE DEF g
    <3> QED
      BY <2>6, <2>7, <2>8
  <2> QED
    BY <1>3, <2>9
<1> QED
  BY <1>3, <1>4, <1>5

LEMMA Typed ==
  ASSUME NEW S, NEW N \in Nat, NEW f, f = [n \in 0..N |-> f[n]], f[0] \in S,
         \A n \in 1..N : f[n - 1] \in S => f[n] \in S
  PROVE  f \in [0..N -> S]
<1> DEFINE T == {n \in Nat : n <= N /\ f[n] \notin S}
<1>1. ASSUME T # {} PROVE FALSE
  <2>1. PICK m \in T : \A n \in T : m <= n
    <3>1. T \in SUBSET Nat
      OBVIOUS
    <3> HIDE DEF T
    <3> QED
      BY <1>1, <3>1, LeastNatural
  <2>2. m \in Nat /\ m <= N /\ f[m] \notin S /\ m # 0
    OBVIOUS
  <2>3. m - 1 \in Nat /\ m \in 1..N /\ m - 1 <= N /\ m - 1 \notin T
    BY <2>1, <2>2
  <2> QED
    BY <2>2, <2>3
<1>2. \A n \in 0..N : n \in Nat /\ n <= N
  OBVIOUS
<1>3. \A n \in 0..N : f[n] \in S
  BY <1>1, <1>2
<1> QED
  BY <1>3

-----------------------------------------------------------------------------
(* The parts of a text.                                                    *)

Segments == Seq(Seq(Nat))

\* One more character: a new part, or a longer last one.
Add(parts, c, separator) ==
  IF c = separator THEN Append(parts, <<>>)
  ELSE [parts EXCEPT ![Len(parts)] = Append(@, c)]

Splitting(parts, text, separator) ==
  /\ parts \in [0..Len(text) -> Segments \ {<<>>}]
  /\ parts[0] = <<<<>>>>
  /\ \A n \in 1..Len(text) : parts[n] = Add(parts[n - 1], text[n], separator)

\* What one character more does, place by place.
Added(parts, after, c, separator) ==
  LET n == Len(parts) IN
  /\ parts \in Segments /\ after \in Segments /\ after # <<>>
  /\ n \in Nat \ {0} /\ parts[n] \in Seq(Nat)
  /\ \A i \in 1..(n - 1) : after[i] = parts[i]
  /\ c = separator => /\ Len(after) = n + 1 /\ after[n + 1] = <<>>
                     /\ after[n] = parts[n]
  /\ c # separator => Len(after) = n /\ after[n] = Append(parts[n], c)

LEMMA AddIs ==
  ASSUME NEW parts \in Segments \ {<<>>}, NEW c \in Nat, NEW separator
  PROVE  Added(parts, Add(parts, c, separator), c, separator)
<1> DEFINE n == Len(parts)
           after == Add(parts, c, separator)
<1>1. n \in Nat \ {0} /\ parts \in Seq(Seq(Nat)) /\ <<>> \in Seq(Nat)
  BY EmptySeq DEF Segments
<1>2. \A i \in 1..n : parts[i] \in Seq(Nat)
  BY <1>1
<1>3. n \in 1..n /\ parts[n] \in Seq(Nat)
  BY <1>1, <1>2
<1>4. CASE c = separator
  <2>1. after = Append(parts, <<>>)
    BY <1>4 DEF Add
  <2>2. /\ after \in Seq(Seq(Nat)) /\ Len(after) = n + 1 /\ after[n + 1] = <<>>
        /\ \A i \in 1..n : after[i] = parts[i]
    BY <1>1, <2>1, AppendProperties
  <2> HIDE DEF after
  <2>3. after # <<>>
    BY <1>1, <2>2
  <2> HIDE DEF n
  <2>4. after \in Segments /\ \A i \in 1..(n - 1) : after[i] = parts[i]
    BY <1>1, <2>2 DEF Segments
  <2>5. after[n] = parts[n]
    BY <1>3, <2>2
  <2>6. Added(parts, after, c, separator)
    BY <1>1, <1>4, <2>2, <2>3, <2>4, <2>5 DEF Added, n
  <2> USE DEF after
  <2> QED
    BY <2>6
<1>5. CASE c # separator
  <2>1. after = [parts EXCEPT ![n] = Append(parts[n], c)]
    BY <1>5 DEF Add
  <2>2. Append(parts[n], c) \in Seq(Nat)
    BY <1>3
  <2>3. parts \in [1..n -> Seq(Nat)]
    BY <1>1, LenProperties
  <2>4. /\ after \in [1..n -> Seq(Nat)] /\ after[n] = Append(parts[n], c)
        /\ \A i \in 1..(n - 1) : after[i] = parts[i]
    <3> HIDE DEF after, n
    <3> QED
      BY <1>1, <1>3, <2>1, <2>2, <2>3
  <2> HIDE DEF after
  <2>5. after \in Seq(Seq(Nat)) /\ Len(after) = n /\ after # <<>>
    <3> HIDE DEF n
    <3>1. after \in Seq(Seq(Nat)) /\ Len(after) = n
      BY <1>1, <2>4
    <3> QED
      BY <1>1, <3>1
  <2> USE DEF after
  <2> QED
    BY <1>1, <1>3, <1>5, <2>4, <2>5 DEF Segments, Added
<1> QED
  BY <1>4, <1>5

LEMMA SplitIs ==
  ASSUME NEW text \in Seq(Nat), NEW separator
  PROVE  \E parts : /\ Splitting(parts, text, separator)
                    /\ Split(text, separator) = parts[Len(text)]
<1> DEFINE N == Len(text)
           S == Segments \ {<<>>}
           base == <<<<>>>>
           step == [x \in S \X (1..N) |-> Add(x[1], text[x[2]], separator)]
           E(f, n) == IF n = 0 THEN base
                      ELSE LET before == f[n - 1] IN
                        IF text[n] = separator THEN Append(before, <<>>)
                        ELSE [before EXCEPT ![Len(before)] = Append(@, text[n])]
           h == CHOOSE f : f = [n \in 0..N |-> E(f, n)]
<1>1. N \in Nat /\ base \in S
  BY EmptySeq DEF Segments
<1>2. step \in [S \X (1..N) -> S]
  <2>1. ASSUME NEW x \in S \X (1..N) PROVE Add(x[1], text[x[2]], separator) \in S
    <3>1. x[1] \in S /\ text[x[2]] \in Nat
      OBVIOUS
    <3> QED
      BY <3>1, AddIs DEF Added
  <2> HIDE DEF S
  <2> QED
    BY <2>1
<1>3. PICK g : Recursion(g, S, N, base, step)
  <2> HIDE DEF S, step, base, N
  <2> QED
    BY <1>1, <1>2, Recurs
<1>4. /\ g \in [0..N -> S] /\ g[0] = base
      /\ \A n \in 1..N : g[n] = Add(g[n - 1], text[n], separator)
  <2>1. /\ g \in [0..N -> S] /\ g[0] = base
        /\ \A n \in 1..N : g[n] = step[<<g[n - 1], n>>]
    <3> HIDE DEF S, step, base
    <3> QED
      BY <1>3 DEF Recursion
  <2>2. ASSUME NEW n \in 1..N PROVE step[<<g[n - 1], n>>] = Add(g[n - 1], text[n], separator)
    <3>1. n - 1 \in 0..N
      BY <1>1
    <3>2. <<g[n - 1], n>> \in S \X (1..N)
      BY <2>1, <3>1
    <3> HIDE DEF S
    <3> QED
      BY <3>2
  <2> QED
    BY <2>1, <2>2
<1>5. \E f : f = [n \in 0..N |-> E(f, n)]
  <2>1. ASSUME NEW n \in 0..N PROVE g[n] = E(g, n)
    <3>1. CASE n = 0
      BY <1>4, <3>1
    <3>2. CASE n # 0
      <4>1. n \in 1..N
        BY <1>1, <3>2
      <4> HIDE DEF S, N
      <4> QED
        BY <1>4, <3>2, <4>1 DEF Add
    <3> QED
      BY <3>1, <3>2
  <2> HIDE DEF E, S
  <2>2. g = [n \in 0..N |-> E(g, n)]
    BY <1>4, <2>1
  <2> QED
    BY <2>2
<1>6. h = [n \in 0..N |-> E(h, n)]
  <2> HIDE DEF E
  <2> QED
    BY <1>5
<1>7. Split(text, separator) = h[N]
  BY DEF Split
<1> HIDE DEF h
<1>8. \A n \in 0..N : h[n] = E(h, n)
  <2> HIDE DEF E
  <2> QED
    BY <1>6
<1>9. h[0] = base /\ \A n \in 1..N : h[n] = Add(h[n - 1], text[n], separator)
  <2>1. h[0] = base
    <3>1. 0 \in 0..N
      BY <1>1
    <3> QED
      BY <1>8, <3>1
  <2>2. ASSUME NEW n \in 1..N PROVE h[n] = Add(h[n - 1], text[n], separator)
    <3>1. n \in 0..N /\ n # 0
      BY <1>1
    <3>2. h[n] = E(h, n)
      BY <1>8, <3>1
    <3> QED
      BY <3>1, <3>2 DEF Add
  <2> QED
    BY <2>1, <2>2
<1>10. h \in [0..N -> S]
  <2>1. ASSUME NEW n \in 1..N, h[n - 1] \in S PROVE h[n] \in S
    <3>1. text[n] \in Nat
      OBVIOUS
    <3>2. Add(h[n - 1], text[n], separator) \in S
      BY <2>1, <3>1, AddIs DEF Added
    <3> QED
      BY <1>9, <3>2
  <2>2. h = [n \in 0..N |-> h[n]]
    <3> HIDE DEF E
    <3> QED
      BY <1>6
  <2>3. N \in Nat /\ h[0] \in S
    BY <1>1, <1>9
  <2> HIDE DEF S, N
  <2> QED
    BY ONLY <2>1, <2>2, <2>3, Typed
<1>11. Splitting(h, text, separator)
  BY <1>9, <1>10 DEF Splitting
<1> QED
  BY <1>7, <1>11

LEMMA SplitStep ==
  ASSUME NEW text \in Seq(Nat), NEW s, NEW parts, Splitting(parts, text, s),
         NEW n \in 1..Len(text)
  PROVE  Added(parts[n - 1], parts[n], text[n], s)
<1>1. n - 1 \in 0..Len(text) /\ text[n] \in Nat
  OBVIOUS
<1>2. parts[n - 1] \in Segments \ {<<>>} /\ parts[n] = Add(parts[n - 1], text[n], s)
  BY <1>1 DEF Splitting
<1> QED
  BY <1>1, <1>2, AddIs

\* A part that is complete stays as it is.
LEMMA SplitGrows ==
  ASSUME NEW text \in Seq(Nat), NEW s, NEW parts, Splitting(parts, text, s),
         NEW m \in 0..Len(text), NEW n \in m..Len(text)
  PROVE  /\ Len(parts[m]) \in Nat \ {0} /\ Len(parts[n]) \in Nat
         /\ Len(parts[m]) <= Len(parts[n])
         /\ \A i \in 1..(Len(parts[m]) - 1) : parts[n][i] = parts[m][i]
<1> DEFINE Kept(j) == /\ Len(parts[j]) \in Nat /\ Len(parts[m]) <= Len(parts[j])
                      /\ \A i \in 1..(Len(parts[m]) - 1) : parts[j][i] = parts[m][i]
           T == {j \in Nat : m <= j /\ j <= Len(text) /\ ~Kept(j)}
<1>1. \A j \in 0..Len(text) : parts[j] \in Segments \ {<<>>} /\ Len(parts[j]) \in Nat \ {0}
  <2>1. \A j \in 0..Len(text) : parts[j] \in Segments \ {<<>>}
    BY DEF Splitting
  <2>2. \A x \in Segments \ {<<>>} : Len(x) \in Nat \ {0}
    BY DEF Segments
  <2> QED
    BY <2>1, <2>2
<1>2. ASSUME T # {} PROVE FALSE
  <2>1. PICK j \in T : \A k \in T : j <= k
    <3>1. T \in SUBSET Nat
      OBVIOUS
    <3> HIDE DEF T
    <3> QED
      BY <1>2, <3>1, LeastNatural
  <2>2. j \in Nat /\ m <= j /\ j <= Len(text) /\ ~Kept(j)
    BY <2>1
  <2>3. j # m
    <3>1. Kept(m)
      BY <1>1
    <3> QED
      BY <2>2, <3>1
  <2>4. j - 1 \in Nat /\ m <= j - 1 /\ j - 1 <= Len(text) /\ j \in 1..Len(text)
    BY <2>2, <2>3
  <2>5. Kept(j - 1)
    <3>1. j - 1 \notin T
      BY <2>1, <2>4
    <3> QED
      BY <2>4, <3>1
  <2>6. LET k == Len(parts[j - 1])
        IN /\ k \in Nat \ {0}
           /\ \A i \in 1..(k - 1) : parts[j][i] = parts[j - 1][i]
           /\ Len(parts[j]) = k \/ Len(parts[j]) = k + 1
    <3>1. Added(parts[j - 1], parts[j], text[j], s)
      BY <2>4, SplitStep
    <3> HIDE DEF T, Kept
    <3> QED
      BY <3>1 DEF Added
  <2>7. Kept(j)
    <3>1. PICK k \in Nat \ {0} : k = Len(parts[j - 1])
      BY <2>6
    <3>2. PICK l \in Nat \ {0} : l = Len(parts[m])
      BY <1>1
    <3>3. l <= k /\ \A i \in 1..(l - 1) : parts[j - 1][i] = parts[m][i]
      BY <2>5, <3>1, <3>2
    <3>4. \A i \in 1..(k - 1) : parts[j][i] = parts[j - 1][i]
      BY <2>6, <3>1
    <3>5. Len(parts[j]) \in Nat /\ l <= Len(parts[j])
      <4>1. Len(parts[j]) = k \/ Len(parts[j]) = k + 1
        BY <2>6, <3>1
      <4> QED
        BY <3>3, <4>1
    <3>6. \A i \in 1..(l - 1) : parts[j][i] = parts[m][i]
      BY <3>3, <3>4
    <3> QED
      BY <3>2, <3>5, <3>6
  <2> QED
    BY <2>2, <2>7
<1>3. n \in Nat /\ m <= n /\ n <= Len(text) /\ n \notin T
  <2>1. n \in Nat /\ m <= n /\ n <= Len(text)
    <3>1. Len(text) \in Nat /\ m \in Nat
      BY LenProperties
    <3> QED
      BY <3>1
  <2>2. n \notin T
    <3> HIDE DEF T
    <3> QED
      BY <1>2
  <2> QED
    BY <2>1, <2>2
<1>4. Kept(n)
  BY <1>3
<1> QED
  BY <1>1, <1>4

\* Texts that begin alike have the same parts so far.
LEMMA SplitAlike ==
  ASSUME NEW a \in Seq(Nat), NEW b \in Seq(Nat), NEW s,
         NEW pa, Splitting(pa, a, s), NEW pb, Splitting(pb, b, s),
         NEW n \in Nat, n <= Len(a), n <= Len(b), \A i \in 1..n : a[i] = b[i]
  PROVE  pa[n] = pb[n]
<1> DEFINE T == {j \in Nat : j <= n /\ pa[j] # pb[j]}
<1>1. ASSUME T # {} PROVE FALSE
  <2>1. PICK j \in T : \A k \in T : j <= k
    <3>1. T \in SUBSET Nat
      OBVIOUS
    <3> HIDE DEF T
    <3> QED
      BY <1>1, <3>1, LeastNatural
  <2>2. j \in Nat /\ j <= n /\ pa[j] # pb[j]
    BY <2>1
  <2>3. j # 0
    BY <2>2 DEF Splitting
  <2>4. j - 1 \in Nat /\ j - 1 <= n /\ j - 1 \notin T
    BY <2>1, <2>2, <2>3
  <2>5. pa[j - 1] = pb[j - 1]
    BY <2>4
  <2>6. j \in 1..Len(a) /\ j \in 1..Len(b) /\ a[j] = b[j]
    BY <2>2, <2>3
  <2>7. pa[j] = Add(pa[j - 1], a[j], s) /\ pb[j] = Add(pb[j - 1], b[j], s)
    BY <2>6 DEF Splitting
  <2> QED
    BY <2>2, <2>5, <2>6, <2>7
<1> QED
  BY <1>1

LEMMA AppendNonempty ==
  ASSUME NEW u \in Seq(Nat), NEW c \in Nat
  PROVE  Append(u, c) # <<>>
<1>1. Len(Append(u, c)) = Len(u) + 1 /\ Len(u) \in Nat
  BY AppendProperties
<1> QED
  BY <1>1

\* An element of a sequence.
LEMMA ElementIs ==
  ASSUME NEW a \in Seq(Nat), NEW i \in 1..Len(a) PROVE a[i] \in Nat
OBVIOUS

\* The parts tell the text.
LEMMA SplitInjective ==
  ASSUME NEW a \in Seq(Nat), NEW b \in Seq(Nat), NEW s, Split(a, s) = Split(b, s)
  PROVE  a = b
<1>1. PICK pa : Splitting(pa, a, s) /\ Split(a, s) = pa[Len(a)]
  BY SplitIs
<1>2. PICK pb : Splitting(pb, b, s) /\ Split(b, s) = pb[Len(b)]
  BY SplitIs
<1> DEFINE Same(n, m) == n = m /\ \A i \in 1..n : a[i] = b[i]
           T == {n \in Nat : n <= Len(a) /\ \E m \in 0..Len(b) : pa[n] = pb[m] /\ ~Same(n, m)}
<1>z. /\ \A n \in 1..Len(a) : \E i \in 1..Len(pa[n]) : Len(pa[n]) > 1 \/ pa[n][i] # <<>>
      /\ \A n \in 1..Len(b) : \E i \in 1..Len(pb[n]) : Len(pb[n]) > 1 \/ pb[n][i] # <<>>
  <2>1. ASSUME NEW t \in Seq(Nat), NEW p, Splitting(p, t, s), NEW n \in 1..Len(t)
        PROVE  \E i \in 1..Len(p[n]) : Len(p[n]) > 1 \/ p[n][i] # <<>>
    <3>1. Added(p[n - 1], p[n], t[n], s)
      BY <2>1, SplitStep
    <3>2. PICK k \in Nat \ {0} : k = Len(p[n - 1])
      BY <3>1 DEF Added
    <3>3. CASE t[n] = s
      <4>1. Len(p[n]) = k + 1
        BY <3>1, <3>2, <3>3 DEF Added
      <4>2. 1 \in 1..Len(p[n]) /\ Len(p[n]) > 1
        BY <4>1
      <4> QED
        BY <4>2
    <3>4. CASE t[n] # s
      <4>1. Len(p[n]) = k /\ p[n][k] = Append(p[n - 1][k], t[n]) /\ p[n - 1][k] \in Seq(Nat)
        BY <3>1, <3>2, <3>4 DEF Added
      <4>2. t[n] \in Nat
        OBVIOUS
      <4>3. Append(p[n - 1][k], t[n]) # <<>>
        BY <4>1, <4>2, AppendNonempty
      <4>4. k \in 1..Len(p[n]) /\ p[n][k] # <<>>
        BY <4>1, <4>3
      <4> QED
        BY <4>4
    <3> QED
      BY <3>3, <3>4
  <2> QED
    BY <1>1, <1>2, <2>1
<1>0. pa[0] = <<<<>>>> /\ pb[0] = <<<<>>>>
  BY <1>1, <1>2 DEF Splitting
<1>3. ASSUME T # {} PROVE FALSE
  <2>1. PICK n \in T : \A k \in T : n <= k
    <3>1. T \in SUBSET Nat
      OBVIOUS
    <3> HIDE DEF T
    <3> QED
      BY <1>3, <3>1, LeastNatural
  <2>2. n \in Nat /\ n <= Len(a)
    BY <2>1
  <2>3. PICK m \in 0..Len(b) : pa[n] = pb[m] /\ ~Same(n, m)
    BY <2>1
  <2>4. CASE n = 0
    <3>1. m # 0
      BY <2>3, <2>4
    <3>2. m \in 1..Len(b)
      BY <3>1
    <3>3. PICK i \in 1..Len(pb[m]) : Len(pb[m]) > 1 \/ pb[m][i] # <<>>
      BY <1>z, <3>2
    <3>4. pb[m] = <<<<>>>>
      BY <1>0, <2>3, <2>4
    <3> QED
      BY <3>3, <3>4
  <2>5. CASE n # 0 /\ m = 0
    <3>1. n \in 1..Len(a)
      BY <2>2, <2>5
    <3>2. PICK i \in 1..Len(pa[n]) : Len(pa[n]) > 1 \/ pa[n][i] # <<>>
      BY <1>z, <3>1
    <3>3. pa[n] = <<<<>>>>
      BY <1>0, <2>3, <2>5
    <3> QED
      BY <3>2, <3>3
  <2>6. CASE n # 0 /\ m # 0
    <3>1. n \in 1..Len(a) /\ m \in 1..Len(b) /\ n - 1 \in Nat /\ m - 1 \in 0..Len(b)
      BY <2>2, <2>6
    <3>2. Added(pa[n - 1], pa[n], a[n], s) /\ Added(pb[m - 1], pb[m], b[m], s)
      BY <1>1, <1>2, <3>1, SplitStep
    <3>3. PICK x : x = pa[n]
      OBVIOUS
    <3>4. PICK p : p = pa[n - 1]
      OBVIOUS
    <3>5. PICK q : q = pb[m - 1]
      OBVIOUS
    <3>6. Added(p, x, a[n], s) /\ Added(q, x, b[m], s)
      BY <2>3, <3>2, <3>3, <3>4, <3>5
    <3>7. a[n] \in Nat /\ b[m] \in Nat
      BY <3>1, ElementIs
    <3>8. p = q /\ a[n] = b[m]
      <4>1. /\ p \in Seq(Seq(Nat)) /\ Len(p) \in Nat \ {0} /\ p[Len(p)] \in Seq(Nat)
            /\ q \in Seq(Seq(Nat)) /\ Len(q) \in Nat \ {0} /\ q[Len(q)] \in Seq(Nat)
            /\ \A i \in 1..(Len(p) - 1) : x[i] = p[i]
            /\ \A i \in 1..(Len(q) - 1) : x[i] = q[i]
        BY <3>6 DEF Added, Segments
      <4>2. /\ a[n] = s => /\ Len(x) = Len(p) + 1 /\ x[Len(p) + 1] = <<>>
                          /\ x[Len(p)] = p[Len(p)]
            /\ a[n] # s => Len(x) = Len(p) /\ x[Len(p)] = Append(p[Len(p)], a[n])
        BY <3>6 DEF Added
      <4>3. /\ b[m] = s => /\ Len(x) = Len(q) + 1 /\ x[Len(q) + 1] = <<>>
                          /\ x[Len(q)] = q[Len(q)]
            /\ b[m] # s => Len(x) = Len(q) /\ x[Len(q)] = Append(q[Len(q)], b[m])
        BY <3>6 DEF Added
      <4>4. \A u \in Seq(Nat), c \in Nat : Append(u, c) # <<>>
        BY AppendNonempty
      <4>5. a[n] = s <=> b[m] = s
        <5>1. ASSUME a[n] = s, b[m] # s PROVE FALSE
          <6>1. x[Len(x)] = <<>> /\ x[Len(x)] = Append(q[Len(q)], b[m])
            BY <4>1, <4>2, <4>3, <5>1
          <6> QED
            BY <3>7, <4>1, <4>4, <6>1
        <5>2. ASSUME a[n] # s, b[m] = s PROVE FALSE
          <6>1. x[Len(x)] = <<>> /\ x[Len(x)] = Append(p[Len(p)], a[n])
            BY <4>1, <4>2, <4>3, <5>2
          <6> QED
            BY <3>7, <4>1, <4>4, <6>1
        <5> QED
          BY <5>1, <5>2
      <4>6. Len(p) = Len(q)
        <5>1. PICK k \in Nat, l \in Nat : k = Len(p) /\ l = Len(q)
          BY <4>1
        <5>2. (k + 1 = l + 1) \/ k = l
          BY <4>2, <4>3, <4>5, <5>1
        <5> QED
          BY <5>1, <5>2
      <4>7. p[Len(p)] = q[Len(p)] /\ a[n] = b[m]
        <5>1. CASE a[n] = s
          BY <4>2, <4>3, <4>5, <4>6, <5>1
        <5>2. CASE a[n] # s
          <6>1. Append(p[Len(p)], a[n]) = Append(q[Len(p)], b[m])
            BY <4>2, <4>3, <4>5, <4>6, <5>2
          <6>2. PICK u \in Seq(Nat), v \in Seq(Nat) : u = p[Len(p)] /\ v = q[Len(p)]
            BY <4>1, <4>6
          <6>3. u = v /\ a[n] = b[m]
            <7>1. Append(u, a[n]) = Append(v, b[m])
              BY <6>1, <6>2
            <7>2. Len(u) = Len(v)
              <8>1. Len(Append(u, a[n])) = Len(u) + 1 /\ Len(Append(v, b[m])) = Len(v) + 1
                BY <3>7, AppendProperties
              <8> QED
                BY <7>1, <8>1
            <7>3. /\ \A i \in 1..Len(u) : Append(u, a[n])[i] = u[i]
                  /\ \A i \in 1..Len(v) : Append(v, b[m])[i] = v[i]
                  /\ Append(u, a[n])[Len(u) + 1] = a[n]
                  /\ Append(v, b[m])[Len(v) + 1] = b[m]
              <8>1. /\ \A i \in 1..Len(u) : Append(u, a[n])[i] = u[i]
                    /\ Append(u, a[n])[Len(u) + 1] = a[n]
                BY <3>7, AppendProperties
              <8>2. /\ \A i \in 1..Len(v) : Append(v, b[m])[i] = v[i]
                    /\ Append(v, b[m])[Len(v) + 1] = b[m]
                BY <3>7, AppendProperties
              <8> QED
                BY <8>1, <8>2
            <7>4. a[n] = b[m] /\ \A i \in 1..Len(u) : u[i] = v[i]
              BY <7>1, <7>2, <7>3
            <7>5. u \in [1..Len(u) -> Nat] /\ v \in [1..Len(u) -> Nat]
              BY <7>2, LenProperties
            <7> QED
              BY <7>4, <7>5
          <6> QED
            BY <6>2, <6>3
        <5> QED
          BY <5>1, <5>2
      <4>8. \A i \in 1..Len(p) : p[i] = q[i]
        <5>1. \A i \in 1..Len(p) : i = Len(p) \/ i \in 1..(Len(p) - 1)
          BY <4>1
        <5> QED
          BY <4>1, <4>6, <4>7, <5>1
      <4>9. p \in [1..Len(p) -> Seq(Nat)] /\ q \in [1..Len(p) -> Seq(Nat)]
        BY <4>1, <4>6, LenProperties
      <4> QED
        BY <4>7, <4>8, <4>9
    <3>9. Same(n - 1, m - 1)
      <4>1. n - 1 \notin T
        <5>1. ~(n <= n - 1)
          BY <2>2
        <5> HIDE DEF T
        <5> QED
          BY <2>1, <5>1
      <4>2. n - 1 <= Len(a) /\ pa[n - 1] = pb[m - 1]
        BY <2>2, <3>1, <3>4, <3>5, <3>8
      <4> QED
        BY <3>1, <4>1, <4>2
    <3>10. Same(n, m)
      <4>1. n = m
        BY <2>2, <3>1, <3>9
      <4>2. \A i \in 1..n : i = n \/ i \in 1..(n - 1)
        BY <2>2
      <4> QED
        BY <3>8, <3>9, <4>1, <4>2
    <3> QED
      BY <2>3, <3>10
  <2> QED
    BY <2>4, <2>5, <2>6
<1>4. Same(Len(a), Len(b))
  <2>1. T = {}
    <3> HIDE DEF T
    <3> QED
      BY <1>3
  <2>2. Len(a) \in Nat /\ Len(a) <= Len(a) /\ Len(b) \in 0..Len(b)
    OBVIOUS
  <2>3. pa[Len(a)] = pb[Len(b)]
    BY <1>1, <1>2
  <2> HIDE DEF Same
  <2>4. ~(\E m \in 0..Len(b) : pa[Len(a)] = pb[m] /\ ~Same(Len(a), m))
    BY <2>1, <2>2
  <2> QED
    BY <2>2, <2>3, <2>4
<1>5. a \in [1..Len(a) -> Nat] /\ b \in [1..Len(a) -> Nat]
  BY <1>4, LenProperties
<1> QED
  BY <1>4, <1>5

\* A directory that a path begins with ends in an empty part, and what comes
\* before it is what the path's parts begin with.
LEMMA Beneath ==
  ASSUME NEW d \in Seq(Nat), NEW p \in Seq(Nat), IsPrefix(d, p),
         d # <<>>, d[Len(d)] = Slash
  PROVE  LET c == Components(d)
             k == Len(c)
         IN /\ c \in Segments /\ Components(p) \in Segments /\ k \in Nat \ {0}
            /\ c[k] = <<>> /\ k <= Len(Components(p))
            /\ \A i \in 1..(k - 1) : Components(p)[i] = c[i]
<1>1. PICK pd : Splitting(pd, d, Slash) /\ Components(d) = pd[Len(d)]
  BY SplitIs DEF Components
<1>2. PICK pp : Splitting(pp, p, Slash) /\ Components(p) = pp[Len(p)]
  BY SplitIs DEF Components
<1>3. Len(d) <= Len(p) /\ \A i \in 1..Len(d) : d[i] = p[i]
  BY PrefixIs
<1>4. pd[Len(d)] = pp[Len(d)]
  BY <1>1, <1>2, <1>3, SplitAlike
<1>5. PICK c : c = Components(d)
  OBVIOUS
<1>6. PICK e : e = Components(p)
  OBVIOUS
<1>7. Len(d) \in 1..Len(d) /\ Len(d) \in 0..Len(p) /\ Len(p) \in Len(d)..Len(p)
  BY <1>3
<1>8. /\ Len(c) \in Nat \ {0} /\ Len(c) <= Len(e)
      /\ \A i \in 1..(Len(c) - 1) : e[i] = c[i]
  <2>1. /\ Len(pp[Len(d)]) \in Nat \ {0} /\ Len(pp[Len(d)]) <= Len(pp[Len(p)])
        /\ \A i \in 1..(Len(pp[Len(d)]) - 1) : pp[Len(p)][i] = pp[Len(d)][i]
    BY <1>2, <1>7, SplitGrows
  <2>2. pp[Len(d)] = c /\ pp[Len(p)] = e
    BY <1>1, <1>2, <1>4, <1>5, <1>6
  <2> QED
    BY ONLY <2>1, <2>2
<1>9. Added(pd[Len(d) - 1], c, Slash, Slash)
  BY <1>1, <1>5, <1>7, SplitStep
<1>10. c \in Segments /\ c[Len(c)] = <<>>
  BY <1>9 DEF Added
<1>11. e \in Segments
  <2>1. Len(p) \in 0..Len(p)
    OBVIOUS
  <2> QED
    BY <1>2, <1>6, <2>1 DEF Splitting
<1> QED
  BY ONLY <1>5, <1>6, <1>8, <1>10, <1>11

Plain(segment) == segment \notin Dots \cup {<<>>}

Follow(at, segment) ==
  IF segment \in {<<>>, <<46>>} THEN at
  ELSE IF segment = <<46, 46>> THEN (IF at = <<>> THEN at ELSE Front(at))
  ELSE Append(at, segment)

LEMMA FollowIs ==
  ASSUME NEW at \in Segments, NEW segment \in Seq(Nat)
  PROVE  /\ Follow(at, segment) \in Segments
         /\ Plain(segment) => Follow(at, segment) = Append(at, segment)
         /\ segment = <<>> => Follow(at, segment) = at
<1>1. at \in Seq(Seq(Nat)) /\ Len(at) \in Nat
  BY DEF Segments
<1>2. Append(at, segment) \in Segments
  BY <1>1 DEF Segments
<1>3. at # <<>> => Front(at) \in Segments
  <2>1. at # <<>> => Len(at) - 1 \in 0..Len(at)
    BY <1>1
  <2>2. at # <<>> => SubSeq(at, 1, Len(at) - 1) \in [1..(Len(at) - 1) -> Seq(Nat)]
    BY <1>1, <2>1, FrontIs
  <2>3. at # <<>> => SubSeq(at, 1, Len(at) - 1) \in Seq(Seq(Nat))
    BY <1>1, <2>1, <2>2
  <2> QED
    BY <2>3 DEF Front, Segments
<1> QED
  BY <1>2, <1>3 DEF Follow, Plain, Dots

\* While no part is followed, a walk is the parts so far.
LEMMA WalkIs ==
  ASSUME NEW text \in Seq(Nat), Components(text) \in Segments,
         NEW m \in 0..Len(Components(text)),
         \A i \in 1..m : Plain(Components(text)[i]),
         \A i \in (m + 1)..Len(Components(text)) : Components(text)[i] = <<>>
  PROVE  Walk(text) = SubSeq(Components(text), 1, m)
<1>c. PICK c \in Segments : c = Components(text)
  OBVIOUS
<1> DEFINE N == Len(c)
           step == [x \in Segments \X (1..N) |-> Follow(x[1], c[x[2]])]
           E(f, n) == IF n = 0 THEN <<>>
                      ELSE LET before == f[n - 1] IN
                        IF c[n] \in {<<>>, <<46>>} THEN before
                        ELSE IF c[n] = <<46, 46>>
                          THEN (IF before = <<>> THEN before ELSE Front(before))
                        ELSE Append(before, c[n])
           h == CHOOSE f : f = [n \in 0..N |-> E(f, n)]
<1>1. N \in Nat /\ <<>> \in Segments /\ \A n \in 1..N : c[n] \in Seq(Nat)
  BY EmptySeq DEF Segments
<1>2. step \in [Segments \X (1..N) -> Segments]
  <2>1. ASSUME NEW x \in Segments \X (1..N) PROVE Follow(x[1], c[x[2]]) \in Segments
    <3>1. x[1] \in Segments /\ c[x[2]] \in Seq(Nat)
      BY <1>1
    <3> QED
      BY <3>1, FollowIs
  <2> QED
    BY <2>1
<1>3. PICK g : Recursion(g, Segments, N, <<>>, step)
  <2> HIDE DEF step, N
  <2> QED
    BY <1>1, <1>2, Recurs
<1>4. /\ g \in [0..N -> Segments] /\ g[0] = <<>>
      /\ \A n \in 1..N : g[n] = Follow(g[n - 1], c[n])
  <2>1. /\ g \in [0..N -> Segments] /\ g[0] = <<>>
        /\ \A n \in 1..N : g[n] = step[<<g[n - 1], n>>]
    <3> HIDE DEF step
    <3> QED
      BY <1>3 DEF Recursion
  <2>2. ASSUME NEW n \in 1..N PROVE step[<<g[n - 1], n>>] = Follow(g[n - 1], c[n])
    <3>1. n - 1 \in 0..N
      BY <1>1
    <3>2. <<g[n - 1], n>> \in Segments \X (1..N)
      BY <2>1, <3>1
    <3> QED
      BY <3>2
  <2> QED
    BY <2>1, <2>2
<1>5. \E f : f = [n \in 0..N |-> E(f, n)]
  <2>1. ASSUME NEW n \in 0..N PROVE g[n] = E(g, n)
    <3>1. CASE n = 0
      BY <1>4, <3>1
    <3>2. CASE n # 0
      <4>1. n \in 1..N
        BY <1>1, <3>2
      <4> HIDE DEF N
      <4> QED
        BY <1>4, <3>2, <4>1 DEF Follow
    <3> QED
      BY <3>1, <3>2
  <2> HIDE DEF E
  <2>2. g = [n \in 0..N |-> E(g, n)]
    BY <1>4, <2>1
  <2> QED
    BY <2>2
<1>6. h = [n \in 0..N |-> E(h, n)]
  <2> HIDE DEF E
  <2> QED
    BY <1>5
<1>7. Walk(text) = h[N]
  BY <1>c DEF Walk
<1> HIDE DEF h
<1>8. h[0] = <<>> /\ \A n \in 1..N : h[n] = Follow(h[n - 1], c[n])
  <2>1. \A n \in 0..N : h[n] = E(h, n)
    <3> HIDE DEF E
    <3> QED
      BY <1>6
  <2>2. h[0] = <<>>
    <3>1. 0 \in 0..N
      BY <1>1
    <3> QED
      BY <2>1, <3>1
  <2>3. ASSUME NEW n \in 1..N PROVE h[n] = Follow(h[n - 1], c[n])
    <3>1. n \in 0..N /\ n # 0
      BY <1>1
    <3>2. h[n] = E(h, n)
      BY <2>1, <3>1
    <3> QED
      BY <3>1, <3>2 DEF Follow
  <2> QED
    BY <2>2, <2>3
<1>9. \A n \in 0..m : SubSeq(c, 1, n) \in Segments /\ Len(SubSeq(c, 1, n)) = n
                      /\ \A i \in 1..n : SubSeq(c, 1, n)[i] = c[i]
  <2>1. ASSUME NEW n \in 0..m
        PROVE  SubSeq(c, 1, n) \in Segments /\ Len(SubSeq(c, 1, n)) = n
               /\ \A i \in 1..n : SubSeq(c, 1, n)[i] = c[i]
    <3>1. n \in 0..Len(c) /\ c \in Seq(Seq(Nat))
      BY <1>c DEF Segments
    <3>2. SubSeq(c, 1, n) \in [1..n -> Seq(Nat)] /\ \A i \in 1..n : SubSeq(c, 1, n)[i] = c[i]
      BY <3>1, FrontIs
    <3>3. SubSeq(c, 1, n) \in Seq(Seq(Nat)) /\ Len(SubSeq(c, 1, n)) = n
      BY <3>1, <3>2
    <3> QED
      BY <3>2, <3>3 DEF Segments
  <2> QED
    BY <2>1
<1> DEFINE So(n) == h[n] = IF n <= m THEN SubSeq(c, 1, n) ELSE SubSeq(c, 1, m)
           T == {n \in Nat : n <= N /\ ~So(n)}
<1>10. ASSUME T # {} PROVE FALSE
  <2>1. PICK n \in T : \A k \in T : n <= k
    <3>1. T \in SUBSET Nat
      OBVIOUS
    <3> HIDE DEF T
    <3> QED
      BY <1>10, <3>1, LeastNatural
  <2>2. n \in Nat /\ n <= N /\ ~So(n)
    BY <2>1
  <2>3. ASSUME n = 0 PROVE FALSE
    <3>1. SubSeq(c, 1, 0) = <<>>
      <4>1. 0 \in 0..m
        OBVIOUS
      <4>2. SubSeq(c, 1, 0) \in Seq(Seq(Nat)) /\ Len(SubSeq(c, 1, 0)) = 0
        BY <1>9, <4>1 DEF Segments
      <4> QED
        BY <4>2
    <3>2. 0 <= m
      OBVIOUS
    <3>3. So(0)
      BY <1>8, <3>1, <3>2
    <3> HIDE DEF So
    <3> QED
      BY <2>2, <2>3, <3>3
  <2>4. n - 1 \in Nat /\ n - 1 <= N /\ n \in 1..N
    BY <2>2, <2>3
  <2>5. So(n - 1)
    <3>1. n - 1 \notin T
      <4>1. ~(n <= n - 1)
        BY <2>2
      <4> HIDE DEF T
      <4> QED
        BY <2>1, <4>1
    <3> HIDE DEF So
    <3> QED
      BY <2>4, <3>1
  <2>6. h[n] = Follow(h[n - 1], c[n]) /\ c[n] \in Seq(Nat)
    BY <1>1, <1>8, <2>4
  <2>7. CASE n <= m
    <3>1. n - 1 \in 0..m /\ n \in 0..m /\ n \in 1..m
      BY <2>4, <2>7
    <3>2. h[n - 1] = SubSeq(c, 1, n - 1) /\ Plain(c[n])
      BY <1>c, <2>5, <3>1
    <3>3. PICK u \in Segments : u = SubSeq(c, 1, n - 1)
      BY <1>9, <3>1
    <3>4. PICK v \in Segments : v = SubSeq(c, 1, n)
      BY <1>9, <3>1
    <3>5. h[n] = Append(u, c[n])
      <4>1. PICK x \in Seq(Nat) : x = c[n]
        BY <2>6
      <4>2. Plain(x)
        BY <3>2, <4>1
      <4>3. Follow(u, x) = Append(u, x)
        BY <4>2, FollowIs
      <4> QED
        BY <2>6, <3>2, <3>3, <4>1, <4>3
    <3>6. /\ Len(u) = n - 1 /\ \A i \in 1..(n - 1) : u[i] = c[i]
          /\ Len(v) = n /\ \A i \in 1..n : v[i] = c[i]
      BY <1>9, <3>1, <3>3, <3>4
    <3>7. Append(u, c[n]) = v
      <4>1. u \in Seq(Seq(Nat)) /\ v \in Seq(Seq(Nat))
        BY DEF Segments
      <4>2. PICK w : w = Append(u, c[n])
        OBVIOUS
      <4>3. /\ w \in Seq(Seq(Nat)) /\ Len(w) = n /\ w[n] = c[n]
            /\ \A i \in 1..(n - 1) : w[i] = u[i]
        BY <2>6, <2>4, <3>6, <4>1, <4>2, AppendProperties
      <4>4. \A i \in 1..n : i = n \/ i \in 1..(n - 1)
        BY <2>2
      <4>5. \A i \in 1..n : w[i] = v[i]
        BY <3>1, <3>6, <4>3, <4>4
      <4>6. w \in [1..n -> Seq(Nat)] /\ v \in [1..n -> Seq(Nat)]
        BY <3>6, <4>1, <4>3, LenProperties
      <4>7. w = v
        BY <4>5, <4>6
      <4> QED
        BY <4>2, <4>7
    <3> QED
      BY <2>2, <2>7, <3>4, <3>5, <3>7
  <2>8. CASE ~(n <= m)
    <3>1. n \in (m + 1)..N
      BY <2>4, <2>8
    <3>2. c[n] = <<>>
      BY <1>c, <3>1
    <3>3. h[n - 1] = SubSeq(c, 1, m)
      <4>1. CASE n - 1 <= m
        <5>1. n - 1 = m
          BY <2>2, <2>8, <4>1
        <5> QED
          BY <2>5, <5>1
      <4>2. CASE ~(n - 1 <= m)
        BY <2>5, <4>2
      <4> QED
        BY <4>1, <4>2
    <3>4. SubSeq(c, 1, m) \in Segments
      BY <1>9
    <3>5. h[n] = SubSeq(c, 1, m)
      BY <2>6, <3>2, <3>3, <3>4, FollowIs
    <3> QED
      BY <2>2, <2>8, <3>5
  <2> QED
    BY <2>7, <2>8
<1>11. So(N)
  <2>1. T = {}
    <3> HIDE DEF T
    <3> QED
      BY <1>10
  <2> HIDE DEF So
  <2> QED
    BY <1>1, <2>1
<1>12. h[N] = SubSeq(c, 1, m)
  <2>1. N <= m => N = m
    BY <1>c, <1>1
  <2> QED
    BY <1>11, <2>1
<1> QED
  BY <1>c, <1>7, <1>12

\* A path without dots, in a directory it begins with, stays there.
LEMMA PlainInside ==
  ASSUME NEW d \in Seq(Nat), NEW p \in Seq(Nat), IsPrefix(d, p),
         d # <<>>, d[Len(d)] = Slash,
         \A i \in DOMAIN Components(p) : Plain(Components(p)[i])
  PROVE  Walk(p) = Components(p) /\ IsStrictPrefix(Walk(d), Walk(p))
<1>1. PICK c \in Segments, e \in Segments, k \in Nat \ {0} :
        /\ c = Components(d) /\ e = Components(p) /\ k = Len(c)
        /\ c[k] = <<>> /\ k <= Len(e) /\ \A i \in 1..(k - 1) : e[i] = c[i]
  BY Beneath
<1>2. c \in Seq(Seq(Nat)) /\ e \in Seq(Seq(Nat)) /\ DOMAIN e = 1..Len(e) /\ Len(e) \in Nat
  BY LenProperties DEF Segments
<1>3. SubSeq(e, 1, Len(e)) = e
  <2>1. /\ SubSeq(e, 1, Len(e)) \in [1..Len(e) -> Seq(Nat)]
        /\ \A i \in 1..Len(e) : SubSeq(e, 1, Len(e))[i] = e[i]
    <3>1. Len(e) \in 0..Len(e)
      BY <1>2
    <3> QED
      BY <1>2, <3>1, FrontIs
  <2>2. e \in [1..Len(e) -> Seq(Nat)]
    BY <1>2, LenProperties
  <2> QED
    BY <2>1, <2>2
<1>4. Walk(p) = e
  <2>1. Len(e) \in 0..Len(e) /\ \A i \in (Len(e) + 1)..Len(e) : FALSE
    BY <1>2
  <2>2. Walk(p) = SubSeq(e, 1, Len(e))
    <3>1. \A i \in 1..Len(e) : Plain(e[i])
      BY <1>1, <1>2
    <3> QED
      BY <1>1, <2>1, <3>1, WalkIs
  <2> QED
    BY <1>3, <2>2
<1>5. k - 1 \in 0..Len(c) /\ k - 1 \in 0..Len(e) /\ k - 1 < Len(e)
  <2>1. k \in Nat \ {0} /\ k = Len(c) /\ k <= Len(e) /\ Len(e) \in Nat
    BY <1>1, <1>2
  <2> QED
    BY ONLY <2>1
<1>6. Walk(d) = SubSeq(c, 1, k - 1)
  <2>1. \A i \in 1..(k - 1) : Plain(c[i])
    <3>1. \A i \in 1..(k - 1) : i \in 1..Len(e)
      BY <1>2, <1>5
    <3> QED
      BY <1>1, <1>2, <3>1
  <2>2. \A i \in (k - 1 + 1)..Len(c) : c[i] = <<>>
    <3>1. \A i \in (k - 1 + 1)..Len(c) : i = k
      BY <1>1
    <3> QED
      BY <1>1, <3>1
  <2> QED
    BY <1>1, <1>5, <2>1, <2>2, WalkIs
<1>7. PICK w : w = SubSeq(c, 1, k - 1)
  OBVIOUS
<1>8. w \in Seq(Seq(Nat)) /\ Len(w) = k - 1 /\ \A i \in 1..(k - 1) : w[i] = e[i]
  <2>1. w \in [1..(k - 1) -> Seq(Nat)] /\ \A i \in 1..(k - 1) : w[i] = c[i]
    BY <1>2, <1>5, <1>7, FrontIs
  <2>2. w \in Seq(Seq(Nat)) /\ Len(w) = k - 1
    BY <1>5, <2>1
  <2> QED
    BY <1>1, <2>1, <2>2
<1>9. IsPrefix(w, e)
  <2>1. Len(w) <= Len(e) /\ \A i \in 1..Len(w) : w[i] = e[i]
    BY <1>5, <1>8
  <2> QED
    BY <1>2, <1>8, <2>1, PrefixIs
<1>10. w # e
  BY <1>5, <1>8
<1> QED
  BY <1>1, <1>4, <1>6, <1>7, <1>9, <1>10 DEF IsStrictPrefix

\* What is below a directory has its parts among those of the path.
LEMMA SplitBelow ==
  ASSUME NEW d \in Seq(Nat), NEW p \in Seq(Nat), IsPrefix(d, p),
         d # <<>>, d[Len(d)] = Slash
  PROVE  \A segment \in Range(Components(Drop(p, Len(d)))) :
           \E i \in DOMAIN Components(p) : Components(p)[i] = segment
<1> DEFINE D == Len(d)
           r == Drop(p, D)
           N == Len(r)
<1>1. D \in Nat \ {0} /\ Len(p) \in Nat /\ D <= Len(p)
      /\ \A i \in 1..D : d[i] = p[i]
  <2>1. Len(d) <= Len(p) /\ \A i \in 1..Len(d) : d[i] = p[i]
    BY PrefixIs
  <2> QED
    BY <2>1
<1>2. /\ r \in Seq(Nat) /\ N \in Nat /\ D + N = Len(p)
      /\ \A i \in 1..N : r[i] = p[D + i]
  <2>1. \A i \in (D + 1)..Len(p) : p[i] \in Nat
    BY <1>1
  <2> HIDE DEF D
  <2>2. /\ SubSeq(p, D + 1, Len(p)) \in Seq(Nat)
        /\ Len(SubSeq(p, D + 1, Len(p))) =
             IF D + 1 <= Len(p) THEN Len(p) - (D + 1) + 1 ELSE 0
        /\ \A i \in 1..(Len(p) - (D + 1) + 1) :
             SubSeq(p, D + 1, Len(p))[i] = p[D + 1 + i - 1]
    BY <1>1, <2>1, SubSeqProperties
  <2>3. N = Len(p) - D
    BY <1>1, <2>2 DEF Drop
  <2>4. \A i \in 1..N : r[i] = p[D + i]
    BY <1>1, <2>2, <2>3 DEF Drop
  <2> QED
    BY <1>1, <2>2, <2>3, <2>4 DEF Drop
<1> HIDE DEF D, r, N
<1>3. PICK pd : Splitting(pd, d, Slash)
  BY SplitIs
<1>4. PICK pp : Splitting(pp, p, Slash) /\ Components(p) = pp[Len(p)]
  BY SplitIs DEF Components
<1>5. PICK pr : Splitting(pr, r, Slash) /\ Components(r) = pr[N]
  BY <1>2, SplitIs DEF Components, N
<1>6. PICK k \in Nat \ {0} : Len(pp[D]) = k /\ pp[D][k] = <<>>
  <2>1. D \in 1..Len(d) /\ D <= Len(d) /\ D <= Len(p)
    BY <1>1 DEF D
  <2>2. Added(pd[D - 1], pd[D], d[D], Slash)
    BY <1>3, <2>1, SplitStep
  <2>3. Len(pd[D - 1]) \in Nat \ {0} /\ Len(pd[D]) = Len(pd[D - 1]) + 1
        /\ pd[D][Len(pd[D - 1]) + 1] = <<>>
    BY <2>2 DEF Added, D
  <2>4. pd[D] = pp[D]
    BY <1>1, <1>3, <1>4, <2>1, SplitAlike
  <2> QED
    BY <2>3, <2>4
<1> DEFINE Below(n) == /\ Len(pr[n]) \in Nat \ {0}
                       /\ Len(pp[D + n]) = k - 1 + Len(pr[n])
                       /\ \A i \in 1..Len(pr[n]) : pp[D + n][k - 1 + i] = pr[n][i]
           T == {n \in Nat : n <= N /\ ~Below(n)}
<1>7. Below(0)
  <2>1. pr[0] = <<<<>>>> /\ D + 0 = D
    BY <1>1, <1>5 DEF Splitting
  <2>2. Len(pr[0]) = 1 /\ pr[0][1] = <<>>
    BY <2>1
  <2>3. k - 1 + 1 = k
    BY <1>6
  <2> QED
    BY <1>6, <2>1, <2>2, <2>3
<1>8. ASSUME NEW n \in 1..N, Below(n - 1) PROVE Below(n)
  <2>1. D + n \in 1..Len(p) /\ p[D + n] = r[n] /\ D + n - 1 = D + (n - 1)
    <3>1. n \in 1..N
      OBVIOUS
    <3>2. p[D + n] = r[n]
      BY <1>2, <3>1
    <3>3. D + n \in 1..Len(p) /\ D + n - 1 = D + (n - 1)
      BY ONLY <1>1, <1>2, <3>1
    <3> QED
      BY <3>2, <3>3
  <2>2. Added(pr[n - 1], pr[n], r[n], Slash)
    BY <1>2, <1>5, <1>8, SplitStep DEF N
  <2>3. Added(pp[D + (n - 1)], pp[D + n], r[n], Slash)
    <3>1. PICK x \in 1..Len(p) : x = D + n
      BY <2>1
    <3>2. Added(pp[x - 1], pp[x], p[x], Slash)
      BY <1>4, SplitStep
    <3>3. p[x] = r[n]
      BY <2>1, <3>1
    <3>4. x - 1 = D + (n - 1)
      <4>1. D \in Int /\ n \in Int /\ x \in Int /\ x = D + n
        BY <1>1, <1>2, <3>1
      <4> QED
        BY <4>1
    <3> QED
      BY <3>1, <3>2, <3>3, <3>4
  <2>4. PICK m \in Nat \ {0} : m = Len(pr[n - 1])
    BY <2>2 DEF Added
  <2>5. /\ Len(pp[D + (n - 1)]) = k - 1 + m
        /\ \A i \in 1..m : pp[D + (n - 1)][k - 1 + i] = pr[n - 1][i]
    BY <1>8, <2>4
  <2>6. \A i \in 1..(m - 1) : pp[D + n][k - 1 + i] = pr[n][i]
    <3>1. \A i \in 1..(m - 1) : pr[n][i] = pr[n - 1][i]
      BY <2>2, <2>4 DEF Added
    <3>2. \A i \in 1..(k - 1 + m - 1) : pp[D + n][i] = pp[D + (n - 1)][i]
      BY <2>3, <2>5 DEF Added
    <3>3. \A i \in 1..(m - 1) : k - 1 + i \in 1..(k - 1 + m - 1) /\ i \in 1..m
      BY <1>6, <2>4
    <3> QED
      BY <2>5, <3>1, <3>2, <3>3
  <2>7. CASE r[n] = Slash
    <3>1. Len(pr[n]) = m + 1 /\ pr[n][m + 1] = <<>> /\ pr[n][m] = pr[n - 1][m]
      BY <2>2, <2>4, <2>7 DEF Added
    <3>2. /\ Len(pp[D + n]) = k - 1 + m + 1 /\ pp[D + n][k - 1 + m + 1] = <<>>
          /\ pp[D + n][k - 1 + m] = pp[D + (n - 1)][k - 1 + m]
      BY <2>3, <2>5, <2>7 DEF Added
    <3>3. pp[D + (n - 1)][k - 1 + m] = pr[n - 1][m]
      <4>1. m \in 1..m
        BY <2>4
      <4> QED
        BY <2>5, <4>1
    <3>4. pp[D + n][k - 1 + m] = pr[n][m] /\ pp[D + n][k - 1 + (m + 1)] = pr[n][m + 1]
      <4>1. k - 1 + m + 1 = k - 1 + (m + 1)
        BY <1>6, <2>4
      <4> QED
        BY <3>1, <3>2, <3>3, <4>1
    <3>5. \A i \in 1..(m + 1) : i \in 1..(m - 1) \/ i = m \/ i = m + 1
      BY <2>4
    <3>6. \A i \in 1..(m + 1) : pp[D + n][k - 1 + i] = pr[n][i]
      BY <2>6, <3>4, <3>5
    <3>7. Len(pp[D + n]) = k - 1 + (m + 1) /\ m + 1 \in Nat \ {0}
      <4>1. m + 1 \in Nat \ {0}
        BY <2>4
      <4>2. k - 1 + m + 1 = k - 1 + (m + 1)
        BY <1>6, <2>4
      <4> QED
        BY <3>2, <4>1, <4>2
    <3> QED
      BY <3>1, <3>6, <3>7
  <2>8. CASE r[n] # Slash
    <3>1. Len(pr[n]) = m /\ pr[n][m] = Append(pr[n - 1][m], r[n])
      BY <2>2, <2>4, <2>8 DEF Added
    <3>2. /\ Len(pp[D + n]) = k - 1 + m
          /\ pp[D + n][k - 1 + m] = Append(pp[D + (n - 1)][k - 1 + m], r[n])
      BY <2>3, <2>5, <2>8 DEF Added
    <3>3. pp[D + (n - 1)][k - 1 + m] = pr[n - 1][m]
      <4>1. m \in 1..m
        BY <2>4
      <4> QED
        BY <2>5, <4>1
    <3>4. pp[D + n][k - 1 + m] = pr[n][m]
      BY <3>1, <3>2, <3>3
    <3>5. \A i \in 1..m : i \in 1..(m - 1) \/ i = m
      BY <2>4
    <3>6. \A i \in 1..m : pp[D + n][k - 1 + i] = pr[n][i]
      BY <2>6, <3>4, <3>5
    <3> QED
      BY <2>4, <3>1, <3>2, <3>6
  <2> QED
    BY <2>7, <2>8
<1>9. ASSUME T # {} PROVE FALSE
  <2>1. PICK n \in T : \A m \in T : n <= m
    <3>1. T \in SUBSET Nat
      OBVIOUS
    <3> HIDE DEF T
    <3> QED
      BY <1>9, <3>1, LeastNatural
  <2>2. n \in Nat /\ n <= N /\ ~Below(n)
    BY <2>1
  <2> HIDE DEF Below
  <2>3. n # 0
    BY <1>7, <2>2
  <2>4. n \in 1..N /\ n - 1 \in Nat /\ n - 1 <= N
    BY <1>2, <2>2, <2>3
  <2>5. n - 1 \notin T
    BY <2>1, <2>4
  <2>6. Below(n - 1)
    BY <2>4, <2>5
  <2> QED
    BY <1>8, <2>2, <2>4, <2>6
<1>10. Below(N)
  <2> HIDE DEF Below
  <2>1. N \in Nat /\ N <= N
    BY <1>2
  <2>2. ~Below(N) => N \in T
    BY <2>1
  <2> HIDE DEF T
  <2> QED
    BY <1>9, <2>2
<1>11. pr[N] \in Seq(Seq(Nat)) /\ pp[Len(p)] \in Seq(Seq(Nat)) /\ D + N = Len(p)
  <2>1. N \in 0..Len(r) /\ Len(p) \in 0..Len(p)
    BY <1>1, <1>2 DEF N
  <2> QED
    BY <1>2, <1>4, <1>5, <2>1 DEF Splitting, Segments
<1>12. ASSUME NEW i \in DOMAIN pr[N]
       PROVE  \E j \in DOMAIN pp[Len(p)] : pp[Len(p)][j] = pr[N][i]
  <2>1. DOMAIN pr[N] = 1..Len(pr[N]) /\ DOMAIN pp[Len(p)] = 1..Len(pp[Len(p)])
    BY <1>11, LenProperties
  <2>2. /\ Len(pr[N]) \in Nat \ {0} /\ Len(pp[Len(p)]) = k - 1 + Len(pr[N])
        /\ pp[Len(p)][k - 1 + i] = pr[N][i]
    BY <1>10, <1>11, <1>12, <2>1
  <2>3. PICK l \in Nat \ {0} : l = Len(pr[N])
    BY <2>2
  <2>4. i \in 1..l
    BY <1>12, <2>1, <2>3
  <2>5. k - 1 + i \in 1..(k - 1 + l)
    BY <1>6, <2>4
  <2>6. k - 1 + i \in DOMAIN pp[Len(p)]
    BY <2>1, <2>2, <2>3, <2>5
  <2> QED
    BY <2>2, <2>6
<1> QED
  BY <1>4, <1>5, <1>12 DEF Range, r, D

-----------------------------------------------------------------------------
(* Profiles.                                                               *)

\* What is found is a file of the tree, in whatever order the table is.
LEMMA FoundHeld ==
  ASSUME NEW t, NEW tree, NEW S, Listing(t, tree, S), NEW path, Found(t, path)
  PROVE  path \in S /\ Bytes(t, path) = tree[path]
<1>1. PICK place \in DOMAIN t : place = LowerBound(t, path) /\ t[place].path = path
  BY DEF Found
<1>2. place \in 1..Len(t)
  BY LenProperties DEF Listing
<1>3. t[place].path \in S /\ t[place].bytes = tree[t[place].path]
  BY <1>2 DEF Listing
<1> QED
  BY <1>1, <1>3 DEF Bytes

LEMMA ValidIsPlain ==
  ASSUME NEW segment, ValidSegment(segment)
  PROVE  Plain(segment)
<1>1. segment # <<>>
  BY DEF ValidSegment
<1>2. ASSUME segment \in Dots PROVE FALSE
  <2>1. 1 \in DOMAIN segment /\ segment[1] = 46
    BY <1>2 DEF Dots
  <2>2. LetterOrDigit(segment[1]) \/ (1 > 1 /\ segment[1] \in {45, 46, 95})
    BY <2>1 DEF ValidSegment
  <2> QED
    BY <2>1, <2>2 DEF LetterOrDigit
<1> QED
  BY <1>1, <1>2 DEF Plain

\* A directory of the protocol.
Directory(d) == d \in Seq(Nat) /\ d # <<>> /\ d[Len(d)] = Slash

LEMMA Directories ==
  \A d \in {Schemas, Conformance} \cup Profiles : Directory(d)
BY DirectoryAssumption DEF Directory

LEMMA ComponentsType ==
  ASSUME NEW p \in Seq(Nat)
  PROVE  Components(p) \in Seq(Seq(Nat)) /\ Components(p) # <<>>
<1>1. PICK parts : Splitting(parts, p, Slash) /\ Components(p) = parts[Len(p)]
  BY SplitIs DEF Components
<1>2. Len(p) \in 0..Len(p)
  OBVIOUS
<1> QED
  BY <1>1, <1>2 DEF Splitting, Segments

LEMMA ValidPathIs ==
  ASSUME NEW p \in Seq(Nat), NEW d, d \in Profiles, ValidPath(p, d)
  PROVE  Walk(p) = Components(p) /\ Inside(p, {d, Schemas})
<1>1. \A i \in DOMAIN Components(p) : Plain(Components(p)[i])
  <2>1. \A segment \in Range(Components(p)) : ValidSegment(segment)
    BY DEF ValidPath
  <2>2. \A segment \in Range(Components(p)) : Plain(segment)
    BY <2>1, ValidIsPlain
  <2> QED
    BY <2>2 DEF Range
<1>2. PICK e \in {d, Schemas} : IsPrefix(e, p)
  BY DEF ValidPath
<1>3. Directory(e)
  BY Directories
<1>4. Walk(p) = Components(p) /\ IsStrictPrefix(Walk(e), Walk(p))
  BY <1>1, <1>2, <1>3, PlainInside DEF Directory
<1> QED
  BY <1>4 DEF Inside

LEMMA VerifiedProfile ==
  ASSUME IInv, Generated, NEW p \in Profiles, VerifyProfile(assets, pin, p)
  PROVE  LET listed == DigestOf(ManifestOf(assets, p)).artifacts
             released == Manifests[Releases[pin.commit][p \o ManifestName]]
         IN /\ DigestOf(ManifestOf(assets, p)) = DigestOf(released)
            /\ \A i, j \in DOMAIN listed :
                 i # j => Walk(listed[i].path) # Walk(listed[j].path)
            /\ \A i \in DOMAIN listed :
                 /\ Inside(listed[i].path, {p, Schemas})
                 /\ files[listed[i].path] = listed[i].sha256
<1>1. PICK r \in DOMAIN Releases : pin = Pin(r)
  BY DEF IInv
<1> DEFINE m == ManifestOf(assets, p)
           listed == DigestOf(m).artifacts
           released == Manifests[Releases[r][p \o ManifestName]]
<1>2. pin.commit = r /\ pin.profiles[p].artifactDigest = released.artifactDigest
  <2>1. pin.commit = r
    BY <1>1 DEF Pin
  <2>2. pin.profiles[p].artifactDigest = released.artifactDigest
    BY <1>1 DEF Pin
  <2> QED
    BY <2>1, <2>2
<1>3. released.artifactDigest = DigestOf(released)
  BY ReleaseAssumption
<1>4. /\ m.artifactDigest = pin.profiles[p].artifactDigest
      /\ DigestOf(m) = pin.profiles[p].artifactDigest
      /\ Listed(assets, p, m.artifacts)
      /\ Bytes(assets, p \o ManifestName) \in DOMAIN Manifests
  BY DEF VerifyProfile, Parses
<1>5. listed = m.artifacts
  BY DEF DigestOf
<1>6. /\ DOMAIN listed = 1..Len(listed)
      /\ \A i \in DOMAIN listed : listed[i].path \in Seq(Nat)
  <2>1. listed \in Seq(Items)
    BY <1>4, <1>5, ListAssumption DEF ManifestOf
  <2> HIDE DEF listed
  <2>2. DOMAIN listed = 1..Len(listed) /\ \A i \in DOMAIN listed : listed[i] \in Items
    BY <2>1, LenProperties
  <2> QED
    BY <2>2 DEF Items
<1>7. Listing(assets, files, AssetPaths(DOMAIN files))
  BY TableIs DEF IInv, TableOf
<1> HIDE DEF m, listed
<1>8. ASSUME NEW i \in DOMAIN listed
      PROVE  /\ Walk(listed[i].path) = Components(listed[i].path)
             /\ Inside(listed[i].path, {p, Schemas})
             /\ files[listed[i].path] = listed[i].sha256
  <2>1. /\ ValidPath(listed[i].path, p) /\ Found(assets, listed[i].path)
        /\ Bytes(assets, listed[i].path) = listed[i].sha256
    BY <1>4, <1>5 DEF Listed
  <2>2. Bytes(assets, listed[i].path) = files[listed[i].path]
    BY <1>7, <2>1, FoundHeld
  <2>3. Walk(listed[i].path) = Components(listed[i].path)
        /\ Inside(listed[i].path, {p, Schemas})
    BY <1>6, <2>1, ValidPathIs
  <2> QED
    BY <2>1, <2>2, <2>3
<1>9. ASSUME NEW i \in DOMAIN listed, NEW j \in DOMAIN listed, i # j
      PROVE  listed[i].path # listed[j].path
  <2>1. ASSUME NEW k \in DOMAIN listed, NEW l \in DOMAIN listed, k < l
        PROVE  listed[k].path # listed[l].path
    <3>1. k \in 1..(l - 1)
      BY <1>6, <2>1
    <3> QED
      BY <1>4, <1>5, <3>1 DEF Listed
  <2>2. i < j \/ j < i
    BY <1>6, <1>9
  <2> QED
    BY <2>1, <2>2
<1>10. ASSUME NEW i \in DOMAIN listed, NEW j \in DOMAIN listed, i # j
       PROVE  Walk(listed[i].path) # Walk(listed[j].path)
  <2>1. Split(listed[i].path, Slash) # Split(listed[j].path, Slash)
    BY <1>6, <1>9, <1>10, SplitInjective
  <2> QED
    BY <1>8, <2>1 DEF Components
<1>11. DigestOf(m) = DigestOf(released)
  BY <1>2, <1>3, <1>4
<1> QED
  BY <1>2, <1>8, <1>10, <1>11 DEF m, listed

LEMMA VerifiedProfiles == IInv => ProfilesHold
<1> SUFFICES ASSUME IInv, Generated PROVE ProfilesHold
  BY DEF ProfilesHold
<1> DEFINE verified == {p \in Profiles : VerifyProfile(assets, pin, p)}
           digest(p) == DigestOf(ManifestOf(assets, p))
<1>1. ASSUME NEW p \in verified
      PROVE  LET listed == digest(p).artifacts
                 released == Manifests[Releases[pin.commit][p \o ManifestName]]
             IN /\ digest(p) = DigestOf(released)
                /\ \A i, j \in DOMAIN listed :
                     i # j => Walk(listed[i].path) # Walk(listed[j].path)
                /\ \A i \in DOMAIN listed :
                     /\ Inside(listed[i].path, {p, Schemas})
                     /\ files[listed[i].path] = listed[i].sha256
  BY VerifiedProfile
<1>2. ASSUME verified = Profiles
      PROVE  digest(Admission).cryptography = digest(Cryptography)
  <2>1. VerifyProfile(assets, pin, Admission) /\ VerifyProfile(assets, pin, Cryptography)
    BY <1>2 DEF Profiles
  <2>2. ManifestOf(assets, Admission).cryptography = pin.profiles[Cryptography].artifactDigest
    BY <2>1 DEF VerifyProfile
  <2>3. DigestOf(ManifestOf(assets, Cryptography)) = pin.profiles[Cryptography].artifactDigest
    BY <2>1 DEF VerifyProfile
  <2>4. digest(Admission).cryptography = ManifestOf(assets, Admission).cryptography
    BY DEF DigestOf
  <2> QED
    BY <2>2, <2>3, <2>4
<1> HIDE DEF verified, digest
<1> QED
  BY <1>1, <1>2 DEF ProfilesHold, verified, digest

-----------------------------------------------------------------------------
(* The JSON files of a directory.                                          *)

IsJson(prefix, path) == IsPrefix(prefix, path) /\ IsSuffix(Json, path)

\* What is kept of the first n assets: which, in their order.
Kept(u, t, n, prefix) ==
  /\ u \in Seq(Assets)
  /\ \E at \in [1..Len(u) -> 1..n] :
       /\ \A i, j \in 1..Len(u) : i < j => at[i] < at[j]
       /\ \A i \in 1..Len(u) : u[i] = t[at[i]] /\ IsJson(prefix, t[at[i]].path)
       /\ \A k \in 1..n : IsJson(prefix, t[k].path) => \E i \in 1..Len(u) : at[i] = k

Keep(u, a, prefix) ==
  IF IsPrefix(prefix, a.path) /\ IsSuffix(Json, a.path) THEN Append(u, a) ELSE u

LEMMA KeepIs ==
  ASSUME NEW t \in Seq(Assets), NEW prefix, NEW n \in 1..Len(t),
         NEW u, Kept(u, t, n - 1, prefix)
  PROVE  Kept(Keep(u, t[n], prefix), t, n, prefix)
<1>1. u \in Seq(Assets) /\ t[n] \in Assets /\ Len(u) \in Nat /\ n \in Nat
  BY DEF Kept
<1>2. PICK at \in [1..Len(u) -> 1..(n - 1)] :
        /\ \A i, j \in 1..Len(u) : i < j => at[i] < at[j]
        /\ \A i \in 1..Len(u) : u[i] = t[at[i]] /\ IsJson(prefix, t[at[i]].path)
        /\ \A k \in 1..(n - 1) : IsJson(prefix, t[k].path) => \E i \in 1..Len(u) : at[i] = k
  BY DEF Kept
<1>3. CASE ~IsJson(prefix, t[n].path)
  <2>1. Keep(u, t[n], prefix) = u
    BY <1>3 DEF Keep, IsJson
  <2>2. at \in [1..Len(u) -> 1..n]
    BY <1>1
  <2>3. \A k \in 1..n : k = n \/ k \in 1..(n - 1)
    BY <1>1
  <2>4. \A k \in 1..n : IsJson(prefix, t[k].path) => \E i \in 1..Len(u) : at[i] = k
    BY <1>2, <1>3, <2>3
  <2>5. Kept(u, t, n, prefix)
    BY <1>1, <1>2, <2>2, <2>4 DEF Kept
  <2> QED
    BY <2>1, <2>5
<1>4. CASE IsJson(prefix, t[n].path)
  <2>1. PICK v : v = Append(u, t[n])
    OBVIOUS
  <2>2. Keep(u, t[n], prefix) = v
    BY <1>4, <2>1 DEF Keep, IsJson
  <2>3. /\ v \in Seq(Assets) /\ Len(v) = Len(u) + 1 /\ v[Len(v)] = t[n]
        /\ \A i \in 1..Len(u) : v[i] = u[i]
    BY <1>1, <2>1, AppendProperties
  <2> DEFINE to == [i \in 1..Len(v) |-> IF i = Len(v) THEN n ELSE at[i]]
  <2>4. \A i \in 1..Len(v) : i = Len(v) \/ (i \in 1..Len(u) /\ i # Len(v))
    BY <1>1, <2>3
  <2>5. \A i \in 1..Len(u) : at[i] \in 1..(n - 1) /\ i \in 1..Len(v) /\ i # Len(v)
    <3>1. PICK l \in Nat : l = Len(u)
      BY <1>1
    <3>2. Len(v) = l + 1
      BY <2>3, <3>1
    <3>3. \A i \in 1..l : i \in 1..Len(v) /\ i # Len(v)
      BY <3>2
    <3>4. \A i \in 1..Len(u) : at[i] \in 1..(n - 1)
      BY ONLY <1>2
    <3> QED
      BY <3>1, <3>3, <3>4
  <2>6. Len(v) \in 1..Len(v)
    BY <1>1, <2>3
  <2>7. \A i \in 1..Len(u) : to[i] = at[i]
    BY <2>5
  <2>8. to[Len(v)] = n
    BY <2>6
  <2>9. to \in [1..Len(v) -> 1..n]
    BY <1>1, <2>4, <2>5
  <2> HIDE DEF to
  <2>10. ASSUME NEW i \in 1..Len(v), NEW j \in 1..Len(v), i < j PROVE to[i] < to[j]
    <3>1. i \in 1..Len(u)
      BY <2>3, <2>4, <2>10
    <3>2. CASE j = Len(v)
      <4>1. to[i] \in 1..(n - 1)
        BY <2>5, <2>7, <3>1
      <4> QED
        BY <1>1, <2>8, <3>2, <4>1
    <3>3. CASE j \in 1..Len(u)
      BY <1>2, <2>7, <2>10, <3>1, <3>3
    <3> QED
      BY <2>4, <3>2, <3>3
  <2>11. ASSUME NEW i \in 1..Len(v)
         PROVE  v[i] = t[to[i]] /\ IsJson(prefix, t[to[i]].path)
    <3>1. CASE i = Len(v)
      BY <1>4, <2>3, <2>8, <3>1
    <3>2. CASE i \in 1..Len(u)
      BY <1>2, <2>3, <2>7, <3>2
    <3> QED
      BY <2>4, <3>1, <3>2
  <2>12. ASSUME NEW k \in 1..n, IsJson(prefix, t[k].path)
         PROVE  \E i \in 1..Len(v) : to[i] = k
    <3>1. CASE k = n
      BY <2>6, <2>8, <3>1
    <3>2. CASE k # n
      <4>1. k \in 1..(n - 1)
        BY <1>1, <3>2
      <4>2. PICK i \in 1..Len(u) : at[i] = k
        BY <1>2, <2>12, <4>1
      <4> QED
        BY <2>5, <2>7, <4>2
    <3> QED
      BY <3>1, <3>2
  <2>13. Kept(v, t, n, prefix)
    BY <2>3, <2>9, <2>10, <2>11, <2>12 DEF Kept
  <2> QED
    BY <2>2, <2>13
<1> QED
  BY <1>3, <1>4

LEMMA JsonAssetsAre ==
  ASSUME NEW t \in Seq(Assets), NEW prefix
  PROVE  Kept(JsonAssets(t, prefix), t, Len(t), prefix)
<1> DEFINE N == Len(t)
           S == Seq(Assets)
           step == [x \in S \X (1..N) |-> Keep(x[1], t[x[2]], prefix)]
           E(f, n) == IF n = 0 THEN <<>>
                      ELSE IF IsPrefix(prefix, t[n].path) /\ IsSuffix(Json, t[n].path)
                        THEN Append(f[n - 1], t[n])
                      ELSE f[n - 1]
           h == CHOOSE f : f = [n \in 0..N |-> E(f, n)]
<1>1. N \in Nat /\ <<>> \in S /\ \A n \in 1..N : t[n] \in Assets
  BY EmptySeq
<1>2. step \in [S \X (1..N) -> S]
  <2>1. ASSUME NEW x \in S \X (1..N) PROVE Keep(x[1], t[x[2]], prefix) \in S
    <3>1. x[1] \in S /\ t[x[2]] \in Assets
      BY <1>1
    <3>2. Append(x[1], t[x[2]]) \in S
      BY <3>1, AppendProperties
    <3> QED
      BY <3>1, <3>2 DEF Keep
  <2> HIDE DEF S
  <2> QED
    BY <2>1
<1>3. PICK g : Recursion(g, S, N, <<>>, step)
  <2> HIDE DEF S, step, N
  <2> QED
    BY <1>1, <1>2, Recurs
<1>4. /\ g \in [0..N -> S] /\ g[0] = <<>>
      /\ \A n \in 1..N : g[n] = Keep(g[n - 1], t[n], prefix)
  <2>1. /\ g \in [0..N -> S] /\ g[0] = <<>>
        /\ \A n \in 1..N : g[n] = step[<<g[n - 1], n>>]
    <3> HIDE DEF S, step
    <3> QED
      BY <1>3 DEF Recursion
  <2>2. ASSUME NEW n \in 1..N PROVE step[<<g[n - 1], n>>] = Keep(g[n - 1], t[n], prefix)
    <3>1. n - 1 \in 0..N
      BY <1>1
    <3>2. <<g[n - 1], n>> \in S \X (1..N)
      BY <2>1, <3>1
    <3> HIDE DEF S
    <3> QED
      BY <3>2
  <2> QED
    BY <2>1, <2>2
<1>5. \E f : f = [n \in 0..N |-> E(f, n)]
  <2>1. ASSUME NEW n \in 0..N PROVE g[n] = E(g, n)
    <3>1. CASE n = 0
      BY <1>4, <3>1
    <3>2. CASE n # 0
      <4>1. n \in 1..N
        BY <1>1, <3>2
      <4> HIDE DEF N, S
      <4> QED
        BY <1>4, <3>2, <4>1 DEF Keep
    <3> QED
      BY <3>1, <3>2
  <2> HIDE DEF E, S
  <2>2. g = [n \in 0..N |-> E(g, n)]
    BY <1>4, <2>1
  <2> QED
    BY <2>2
<1>6. h = [n \in 0..N |-> E(h, n)]
  <2> HIDE DEF E
  <2> QED
    BY <1>5
<1>7. JsonAssets(t, prefix) = h[N]
  BY DEF JsonAssets
<1> HIDE DEF h
<1>8. h[0] = <<>> /\ \A n \in 1..N : h[n] = Keep(h[n - 1], t[n], prefix)
  <2>1. \A n \in 0..N : h[n] = E(h, n)
    <3> HIDE DEF E
    <3> QED
      BY <1>6
  <2>2. h[0] = <<>>
    <3>1. 0 \in 0..N
      BY <1>1
    <3> QED
      BY <2>1, <3>1
  <2>3. ASSUME NEW n \in 1..N PROVE h[n] = Keep(h[n - 1], t[n], prefix)
    <3>1. n \in 0..N /\ n # 0
      BY <1>1
    <3>2. h[n] = E(h, n)
      BY <2>1, <3>1
    <3> QED
      BY <3>1, <3>2 DEF Keep
  <2> QED
    BY <2>2, <2>3
<1>9. Kept(h[0], t, 0, prefix)
  <2>1. h[0] = <<>> /\ <<>> \in Seq(Assets) /\ Len(<<>>) = 0
    BY <1>1, <1>8
  <2>2. <<>> \in [1..0 -> 1..0] /\ \A i \in 1..0 : FALSE
    OBVIOUS
  <2>3. Kept(<<>>, t, 0, prefix)
    BY <2>1, <2>2 DEF Kept
  <2> QED
    BY <2>1, <2>3
<1> DEFINE T == {n \in Nat : n <= N /\ ~Kept(h[n], t, n, prefix)}
<1>10. ASSUME T # {} PROVE FALSE
  <2>1. PICK n \in T : \A k \in T : n <= k
    <3>1. T \in SUBSET Nat
      OBVIOUS
    <3> HIDE DEF T
    <3> QED
      BY <1>10, <3>1, LeastNatural
  <2>2. n \in Nat /\ n <= N /\ ~Kept(h[n], t, n, prefix)
    BY <2>1
  <2>3. n # 0
    BY <1>9, <2>2
  <2>4. n - 1 \in Nat /\ n - 1 <= N /\ n \in 1..N /\ ~(n <= n - 1)
    BY <2>2, <2>3
  <2>5. n - 1 \notin T
    <3> HIDE DEF T
    <3> QED
      BY <2>1, <2>4
  <2>6. Kept(h[n - 1], t, n - 1, prefix)
    BY <2>4, <2>5
  <2>7. Kept(Keep(h[n - 1], t[n], prefix), t, n, prefix)
    BY <2>4, <2>6, KeepIs
  <2> QED
    BY <1>8, <2>2, <2>4, <2>7
<1>11. Kept(h[N], t, N, prefix)
  <2>1. T = {}
    <3> HIDE DEF T
    <3> QED
      BY <1>10
  <2> QED
    BY <1>1, <2>1
<1> QED
  BY <1>7, <1>11

\* They are the files of the tree that the directory has, sorted if all are.
LEMMA JsonListing ==
  ASSUME NEW t, NEW tree, NEW S, Listing(t, tree, S), NEW prefix
  PROVE  /\ Listing(JsonAssets(t, prefix), tree, {p \in S : IsJson(prefix, p)})
         /\ Sorted(t) => Sorted(JsonAssets(t, prefix))
<1>1. PICK u : u = JsonAssets(t, prefix)
  OBVIOUS
<1>2. t \in Seq(Assets) /\ Len(t) \in Nat
  BY DEF Listing
<1>3. Kept(u, t, Len(t), prefix)
  BY <1>1, <1>2, JsonAssetsAre
<1>4. u \in Seq(Assets) /\ Len(u) \in Nat
  BY <1>3 DEF Kept
<1>5. PICK at \in [1..Len(u) -> 1..Len(t)] :
       /\ \A i, j \in 1..Len(u) : i < j => at[i] < at[j]
       /\ \A i \in 1..Len(u) : u[i] = t[at[i]] /\ IsJson(prefix, t[at[i]].path)
       /\ \A k \in 1..Len(t) : IsJson(prefix, t[k].path) => \E i \in 1..Len(u) : at[i] = k
  BY <1>3 DEF Kept
<1>6. \A i \in 1..Len(u) : at[i] \in 1..Len(t)
  OBVIOUS
<1>7. Listing(u, tree, {p \in S : IsJson(prefix, p)})
  <2>1. ASSUME NEW i \in 1..Len(u)
        PROVE  u[i].path \in {p \in S : IsJson(prefix, p)} /\ u[i].bytes = tree[u[i].path]
    BY <1>5, <1>6 DEF Listing
  <2>2. ASSUME NEW p \in S, IsJson(prefix, p) PROVE \E i \in 1..Len(u) : u[i].path = p
    <3>1. PICK k \in 1..Len(t) : t[k].path = p
      BY DEF Listing
    <3>2. PICK i \in 1..Len(u) : at[i] = k
      BY <1>5, <2>2, <3>1
    <3> QED
      BY <1>5, <3>1, <3>2
  <2> QED
    BY <1>4, <2>1, <2>2 DEF Listing
<1>8. Sorted(t) => Sorted(u)
  BY <1>5, <1>6 DEF Sorted
<1> QED
  BY <1>1, <1>7, <1>8

-----------------------------------------------------------------------------
(* The digest of a tree.                                                   *)

\* One sequence after another.
Joined(z, x, y) ==
  /\ Len(x) \in Nat /\ Len(y) \in Nat /\ Len(z) = Len(x) + Len(y)
  /\ \A i \in 1..Len(x) : z[i] = x[i]
  /\ \A i \in 1..Len(y) : z[Len(x) + i] = y[i]

LEMMA JoinedIs ==
  ASSUME NEW C, NEW x \in Seq(C), NEW y \in Seq(C)
  PROVE  x \o y \in Seq(C) /\ Joined(x \o y, x, y)
<1>1. PICK z : z = x \o y
  OBVIOUS
<1>2. /\ z \in Seq(C) /\ Len(z) = Len(x) + Len(y)
      /\ \A i \in 1..(Len(x) + Len(y)) : z[i] = IF i <= Len(x) THEN x[i] ELSE y[i - Len(x)]
  BY <1>1, ConcatProperties
<1>3. Len(x) \in Nat /\ Len(y) \in Nat
  OBVIOUS
<1>4. \A i \in 1..Len(x) : z[i] = x[i]
  BY <1>2, <1>3
<1>5. ASSUME NEW i \in 1..Len(y) PROVE z[Len(x) + i] = y[i]
  <2>1. Len(x) + i \in 1..(Len(x) + Len(y)) /\ ~(Len(x) + i <= Len(x)) /\ Len(x) + i - Len(x) = i
    BY <1>3
  <2> QED
    BY <1>2, <2>1
<1> QED
  BY <1>1, <1>2, <1>3, <1>4, <1>5 DEF Joined

Entry(a) == <<a.path, Nul>> \o a.bytes \o <<Nul>>

\* A file is its path and its content, each with a separator after it.
EntryHolds(e, a) ==
  /\ e \in Contents /\ a.bytes \in Contents /\ Len(e) = Len(a.bytes) + 3
  /\ e[1] = a.path /\ e[2] = Nul /\ e[Len(a.bytes) + 3] = Nul
  /\ \A j \in 1..Len(a.bytes) : e[j + 2] = a.bytes[j]

LEMMA EntryIs ==
  ASSUME NEW a \in Assets
  PROVE  EntryHolds(Entry(a), a)
<1> DEFINE C == {Nul} \cup Seq(Nat \ {0})
<1>1. a.path \in C /\ Nul \in C /\ a.bytes \in Seq(C)
  BY DEF Assets, Paths, Contents
<1> HIDE DEF C
<1>2. PICK b \in Seq(C) : b = a.bytes
  BY <1>1
<1>3. PICK x : x = <<a.path, Nul>>
  OBVIOUS
<1>4. x \in Seq(C) /\ Len(x) = 2 /\ x[1] = a.path /\ x[2] = Nul
  BY <1>1, <1>3
<1>5. PICK y : y = x \o b
  OBVIOUS
<1>6. y \in Seq(C) /\ Joined(y, x, b)
  BY <1>2, <1>4, <1>5, JoinedIs
<1>7. PICK z : z = <<Nul>>
  OBVIOUS
<1>8. z \in Seq(C) /\ Len(z) = 1 /\ z[1] = Nul
  BY <1>1, <1>7
<1>9. PICK e : e = y \o z
  OBVIOUS
<1>10. e \in Seq(C) /\ Joined(e, y, z)
  BY <1>6, <1>8, <1>9, JoinedIs
<1>11. PICK n \in Nat : n = Len(b)
  BY <1>6 DEF Joined
<1>12. /\ Len(y) = 2 + n /\ y[1] = a.path /\ y[2] = Nul
       /\ \A j \in 1..n : y[2 + j] = b[j]
  <2>1. 1 \in 1..2 /\ 2 \in 1..2
    OBVIOUS
  <2> QED
    BY <1>4, <1>6, <1>11, <2>1 DEF Joined
<1>13. Len(e) = n + 3 /\ e[n + 3] = Nul /\ \A j \in 1..(2 + n) : e[j] = y[j]
  <2>1. 1 \in 1..1 /\ 2 + n + 1 = n + 3
    OBVIOUS
  <2> QED
    BY <1>8, <1>10, <1>12, <2>1 DEF Joined
<1>14. e[1] = a.path /\ e[2] = Nul /\ \A j \in 1..n : e[j + 2] = b[j]
  <2>1. 1 \in 1..(2 + n) /\ 2 \in 1..(2 + n)
        /\ \A j \in 1..n : j + 2 \in 1..(2 + n) /\ j + 2 = 2 + j
    OBVIOUS
  <2> QED
    BY <1>12, <1>13, <2>1
<1>15. e = Entry(a)
  BY <1>2, <1>3, <1>5, <1>7, <1>9 DEF Entry
<1>16. EntryHolds(e, a)
  BY <1>2, <1>10, <1>11, <1>13, <1>14 DEF EntryHolds, Contents, C
<1> QED
  BY <1>15, <1>16

\* What was digested before, and one file more.
Extended(y, x, a) ==
  /\ Len(x) \in Nat /\ Len(y) \in Nat /\ Len(a.bytes) \in Nat
  /\ Len(y) = Len(x) + Len(a.bytes) + 3
  /\ \A i \in 1..Len(x) : y[i] = x[i]
  /\ \A i \in 1..(Len(a.bytes) + 3) : y[Len(x) + i] = Entry(a)[i]

LEMMA ExtendedIs ==
  ASSUME NEW x \in Contents, NEW a \in Assets
  PROVE  x \o Entry(a) \in Contents /\ Extended(x \o Entry(a), x, a)
<1>1. PICK e \in Contents : e = Entry(a) /\ Len(e) = Len(a.bytes) + 3 /\ Len(a.bytes) \in Nat
  BY EntryIs DEF EntryHolds, Contents
<1>2. PICK y : y = x \o e
  OBVIOUS
<1>3. y \in Contents /\ Joined(y, x, e)
  BY <1>2, JoinedIs DEF Contents
<1>4. Len(y) \in Nat
  BY <1>3 DEF Contents
<1>5. Extended(y, x, a)
  BY <1>1, <1>3, <1>4 DEF Joined, Extended
<1> QED
  BY <1>1, <1>2, <1>3, <1>5

\* x is how y begins.
Begins(x, y) ==
  /\ Len(x) \in Nat /\ Len(y) \in Nat /\ Len(x) <= Len(y)
  /\ \A i \in 1..Len(x) : y[i] = x[i]

LEMMA ExtendedBegins ==
  ASSUME NEW x, NEW y, NEW z, NEW a, Begins(x, y), Extended(z, y, a)
  PROVE  Begins(x, z)
<1>1. PICK l \in Nat, m \in Nat, n \in Nat, k \in Nat :
        l = Len(x) /\ m = Len(y) /\ n = Len(z) /\ k = Len(a.bytes)
  BY DEF Begins, Extended
<1>2. /\ n = m + k + 3 /\ l <= m
      /\ \A i \in 1..m : z[i] = y[i]
      /\ \A i \in 1..l : y[i] = x[i]
  BY <1>1 DEF Begins, Extended
<1>3. l <= n /\ \A i \in 1..l : z[i] = x[i]
  BY <1>2
<1> QED
  BY <1>1, <1>3 DEF Begins

LEMMA BeginsEntry ==
  ASSUME NEW x, NEW y, NEW z, NEW a, Extended(y, x, a), Begins(y, z)
  PROVE  \A i \in 1..(Len(a.bytes) + 3) : z[Len(x) + i] = Entry(a)[i]
<1>1. PICK l \in Nat, m \in Nat, k \in Nat :
        l = Len(x) /\ m = Len(y) /\ k = Len(a.bytes)
  BY DEF Begins, Extended
<1>2. /\ m = l + k + 3
      /\ \A i \in 1..(k + 3) : y[l + i] = Entry(a)[i]
      /\ \A i \in 1..m : z[i] = y[i]
  BY <1>1 DEF Begins, Extended
<1>3. ASSUME NEW i \in 1..(k + 3) PROVE z[l + i] = Entry(a)[i]
  <2>1. l + i \in 1..m
    BY <1>2
  <2> QED
    BY <1>2, <2>1
<1> QED
  BY <1>1, <1>3

\* What is digested, and where the entry of each file ends.
Digested(d, t, ends) ==
  /\ d \in Contents /\ ends \in [0..Len(t) -> Nat]
  /\ ends[0] = 0 /\ ends[Len(t)] = Len(d)
  /\ \A k \in 1..Len(t) :
       /\ ends[k] = ends[k - 1] + Len(t[k].bytes) + 3
       /\ \A i \in 1..(Len(t[k].bytes) + 3) : d[ends[k - 1] + i] = Entry(t[k])[i]

LEMMA DigestIs ==
  ASSUME NEW t \in Seq(Assets)
  PROVE  \E ends : Digested(TreeDigest(t), t, ends)
<1> DEFINE N == Len(t)
           S == Contents
           step == [x \in S \X (1..N) |-> x[1] \o Entry(t[x[2]])]
           E(f, n) == IF n = 0 THEN <<>>
                      ELSE f[n - 1] \o (<<t[n].path, Nul>> \o t[n].bytes \o <<Nul>>)
           h == CHOOSE f : f = [n \in 0..N |-> E(f, n)]
<1>1. N \in Nat /\ <<>> \in S /\ \A n \in 1..N : t[n] \in Assets
  BY EmptySeq DEF Contents
<1>c. /\ \A x \in S : Len(x) \in Nat
      /\ \A x \in S, a \in Assets : x \o Entry(a) \in S /\ Extended(x \o Entry(a), x, a)
  <2>1. \A x \in S : Len(x) \in Nat
    BY DEF Contents
  <2> QED
    BY <2>1, ExtendedIs
<1>2. step \in [S \X (1..N) -> S]
  <2>1. ASSUME NEW x \in S \X (1..N) PROVE x[1] \o Entry(t[x[2]]) \in S
    <3>1. x[1] \in S /\ t[x[2]] \in Assets
      BY <1>1
    <3> HIDE DEF S
    <3> QED
      BY <1>c, <3>1
  <2> HIDE DEF S
  <2> QED
    BY <2>1
<1>3. PICK g : Recursion(g, S, N, <<>>, step)
  <2> HIDE DEF S, step, N
  <2> QED
    BY <1>1, <1>2, Recurs
<1>4. /\ g \in [0..N -> S] /\ g[0] = <<>>
      /\ \A n \in 1..N : g[n] = g[n - 1] \o Entry(t[n])
  <2>1. /\ g \in [0..N -> S] /\ g[0] = <<>>
        /\ \A n \in 1..N : g[n] = step[<<g[n - 1], n>>]
    <3> HIDE DEF S, step
    <3> QED
      BY <1>3 DEF Recursion
  <2>2. ASSUME NEW n \in 1..N PROVE step[<<g[n - 1], n>>] = g[n - 1] \o Entry(t[n])
    <3>1. n - 1 \in 0..N
      BY <1>1
    <3> HIDE DEF S
    <3>2. <<g[n - 1], n>> \in S \X (1..N)
      BY <2>1, <3>1
    <3> QED
      BY <3>2
  <2> QED
    BY <2>1, <2>2
<1>5. \E f : f = [n \in 0..N |-> E(f, n)]
  <2>1. ASSUME NEW n \in 0..N PROVE g[n] = E(g, n)
    <3>1. CASE n = 0
      BY <1>4, <3>1
    <3>2. CASE n # 0
      <4>1. n \in 1..N
        BY <1>1, <3>2
      <4> HIDE DEF N, S
      <4> QED
        BY <1>4, <3>2, <4>1 DEF Entry
    <3> QED
      BY <3>1, <3>2
  <2> HIDE DEF E, S
  <2>2. g = [n \in 0..N |-> E(g, n)]
    BY <1>4, <2>1
  <2> QED
    BY <2>2
<1>6. h = [n \in 0..N |-> E(h, n)]
  <2> HIDE DEF E
  <2> QED
    BY <1>5
<1>7. TreeDigest(t) = h[N]
  BY DEF TreeDigest
<1> HIDE DEF h
<1>8. h[0] = <<>> /\ \A n \in 1..N : h[n] = h[n - 1] \o Entry(t[n])
  <2>1. \A n \in 0..N : h[n] = E(h, n)
    <3> HIDE DEF E
    <3> QED
      BY <1>6
  <2>2. h[0] = <<>>
    <3>1. 0 \in 0..N
      BY <1>1
    <3> QED
      BY <2>1, <3>1
  <2>3. ASSUME NEW n \in 1..N PROVE h[n] = h[n - 1] \o Entry(t[n])
    <3>1. n \in 0..N /\ n # 0
      BY <1>1
    <3>2. h[n] = E(h, n)
      BY <2>1, <3>1
    <3> QED
      BY <3>1, <3>2 DEF Entry
  <2> QED
    BY <2>2, <2>3
<1>9. h \in [0..N -> S]
  <2> HIDE DEF S
  <2>1. ASSUME NEW n \in 1..N, h[n - 1] \in S PROVE h[n] \in S
    BY <1>1, <1>8, <1>c, <2>1
  <2>2. h = [n \in 0..N |-> h[n]]
    <3> HIDE DEF E
    <3> QED
      BY <1>6
  <2>3. N \in Nat /\ h[0] \in S
    BY <1>1, <1>8
  <2> HIDE DEF N
  <2> QED
    BY ONLY <2>1, <2>2, <2>3, Typed
<1>10. ASSUME NEW n \in 1..N PROVE Extended(h[n], h[n - 1], t[n])
  <2>1. n - 1 \in 0..N
    BY <1>1
  <2> HIDE DEF S
  <2>2. h[n - 1] \in S /\ t[n] \in Assets
    BY <1>1, <1>9, <2>1
  <2> QED
    BY <1>8, <1>c, <2>2
<1>l. \A n \in 0..N : Len(h[n]) \in Nat
  <2> HIDE DEF S
  <2> QED
    BY <1>9, <1>c
<1>11. ASSUME NEW k \in 0..N PROVE Begins(h[k], h[N])
  <2> DEFINE T == {n \in Nat : k <= n /\ n <= N /\ ~Begins(h[k], h[n])}
  <2>1. ASSUME T # {} PROVE FALSE
    <3>1. PICK n \in T : \A m \in T : n <= m
      <4>1. T \in SUBSET Nat
        OBVIOUS
      <4> HIDE DEF T
      <4> QED
        BY <2>1, <4>1, LeastNatural
    <3>2. n \in Nat /\ k <= n /\ n <= N /\ ~Begins(h[k], h[n])
      BY <3>1
    <3>3. n # k
      BY <1>l, <3>2 DEF Begins
    <3>4. n - 1 \in Nat /\ k <= n - 1 /\ n - 1 <= N /\ n \in 1..N /\ ~(n <= n - 1)
      BY <3>2, <3>3
    <3>5. n - 1 \notin T
      <4> HIDE DEF T
      <4> QED
        BY <3>1, <3>4
    <3>6. Begins(h[k], h[n - 1])
      BY <3>4, <3>5
    <3> QED
      BY <1>10, <3>2, <3>4, <3>6, ExtendedBegins
  <2>2. T = {}
    <3> HIDE DEF T
    <3> QED
      BY <2>1
  <2>3. k <= N /\ N <= N
    BY <1>1
  <2> QED
    BY <1>1, <2>2, <2>3
<1> DEFINE ends == [k \in 0..N |-> Len(h[k])]
<1>12. ends \in [0..N -> Nat] /\ ends[0] = 0 /\ ends[N] = Len(h[N]) /\ h[N] \in S
  <2>1. \A k \in 0..N : Len(h[k]) \in Nat
    BY <1>l
  <2>2. 0 \in 0..N /\ N \in 0..N /\ Len(<<>>) = 0
    BY <1>1
  <2>3. h[N] \in S
    <3> HIDE DEF S
    <3> QED
      BY <1>9, <2>2
  <2> QED
    BY <1>8, <2>1, <2>2, <2>3
<1>13. ASSUME NEW k \in 1..N
       PROVE  /\ ends[k] = ends[k - 1] + Len(t[k].bytes) + 3
              /\ \A i \in 1..(Len(t[k].bytes) + 3) : h[N][ends[k - 1] + i] = Entry(t[k])[i]
  <2>1. k \in 0..N /\ k - 1 \in 0..N
    BY <1>1
  <2>2. ends[k] = Len(h[k]) /\ ends[k - 1] = Len(h[k - 1])
    BY <2>1
  <2> HIDE DEF ends
  <2>3. Extended(h[k], h[k - 1], t[k]) /\ Begins(h[k], h[N])
    BY <1>10, <1>11, <2>1
  <2>4. \A i \in 1..(Len(t[k].bytes) + 3) : h[N][Len(h[k - 1]) + i] = Entry(t[k])[i]
    <3>1. PICK x : x = h[k - 1]
      OBVIOUS
    <3>2. PICK y : y = h[k]
      OBVIOUS
    <3>3. PICK z : z = h[N]
      OBVIOUS
    <3>4. Extended(y, x, t[k]) /\ Begins(y, z)
      BY <2>3, <3>1, <3>2, <3>3
    <3>5. \A i \in 1..(Len(t[k].bytes) + 3) : z[Len(x) + i] = Entry(t[k])[i]
      BY ONLY <3>4, BeginsEntry
    <3> QED
      BY ONLY <3>1, <3>3, <3>5
  <2> QED
    BY <2>2, <2>3, <2>4 DEF Extended
<1> HIDE DEF ends
<1>14. Digested(h[N], t, ends)
  BY <1>12, <1>13 DEF Digested
<1> QED
  BY <1>7, <1>14

\* Where a file without separators stands, there are two, at known places.
LEMMA EntrySeparators ==
  ASSUME NEW a \in Assets, ~Contains(a.bytes, Nul),
         NEW i \in 1..(Len(a.bytes) + 3), Entry(a)[i] = Nul
  PROVE  i = 2 \/ i = Len(a.bytes) + 3
<1>1. EntryHolds(Entry(a), a)
  BY EntryIs
<1>2. PICK l \in Nat : l = Len(a.bytes)
  BY <1>1 DEF EntryHolds, Contents
<1>3. /\ Entry(a)[1] = a.path
      /\ \A j \in 1..l : Entry(a)[j + 2] = a.bytes[j]
      /\ i \in 1..(l + 3)
  BY <1>1, <1>2 DEF EntryHolds
<1>4. i # 1
  <2>1. a.path \in Paths
    BY DEF Assets
  <2>2. a.path # Nul
    <3>1. \A j \in 1..Len(a.path) : a.path[j] > 0
      BY <2>1, PathIsText
    <3>2. ASSUME a.path = Nul PROVE FALSE
      <4>1. Len(a.path) = 1 /\ a.path[1] = 0
        BY <3>2 DEF Nul
      <4>2. 1 \in 1..Len(a.path)
        BY <4>1
      <4> QED
        BY <3>1, <4>1, <4>2
    <3> QED
      BY <3>2
  <2> QED
    BY <1>3, <2>2
<1>5. ASSUME i # 2, i # l + 3 PROVE FALSE
  <2>1. i - 2 \in 1..l /\ i - 2 + 2 = i
    BY <1>3, <1>4, <1>5
  <2>2. a.bytes[i - 2] = Nul
    BY <1>3, <2>1
  <2> QED
    BY <1>2, <2>1, <2>2 DEF Contains
<1> QED
  BY <1>2, <1>5

\* The file a stands between the places p and q.
Placed(d, p, q, a) ==
  /\ p \in Nat /\ q \in Nat /\ Len(a.bytes) \in Nat
  /\ q = p + Len(a.bytes) + 3
  /\ d[p + 1] = a.path /\ d[p + 2] = Nul /\ d[q] = Nul
  /\ \A j \in 1..Len(a.bytes) : d[p + 2 + j] = a.bytes[j]
  /\ \A i \in 1..(Len(a.bytes) + 3) : d[p + i] = Entry(a)[i]

\* In what was digested, an entry is one file of the tree.
LEMMA DigestedEntry ==
  ASSUME NEW d, NEW t \in Seq(Assets), NEW ends, Digested(d, t, ends),
         NEW k \in 1..Len(t)
  PROVE  Placed(d, ends[k - 1], ends[k], t[k])
<1>1. k - 1 \in 0..Len(t) /\ k \in 0..Len(t) /\ t[k] \in Assets
  OBVIOUS
<1>2. PICK p \in Nat, q \in Nat : p = ends[k - 1] /\ q = ends[k]
  BY <1>1 DEF Digested
<1>3. EntryHolds(Entry(t[k]), t[k])
  BY <1>1, EntryIs
<1>4. PICK l \in Nat : l = Len(t[k].bytes)
  BY <1>3 DEF EntryHolds, Contents
<1>5. PICK e : e = Entry(t[k])
  OBVIOUS
<1>6. q = p + l + 3 /\ \A i \in 1..(l + 3) : d[p + i] = e[i]
  BY <1>2, <1>4, <1>5 DEF Digested
<1>7. /\ e[1] = t[k].path /\ e[2] = Nul /\ e[l + 3] = Nul
      /\ \A j \in 1..l : e[j + 2] = t[k].bytes[j]
  BY <1>3, <1>4, <1>5 DEF EntryHolds
<1>8. 1 \in 1..(l + 3) /\ 2 \in 1..(l + 3) /\ l + 3 \in 1..(l + 3)
      /\ p + (l + 3) = q /\ \A j \in 1..l : j + 2 \in 1..(l + 3) /\ p + (j + 2) = p + 2 + j
  BY <1>6
<1>9. d[p + 1] = t[k].path /\ d[p + 2] = Nul /\ d[q] = Nul
  BY <1>6, <1>7, <1>8
<1>10. \A j \in 1..l : d[p + 2 + j] = t[k].bytes[j]
  BY <1>6, <1>7, <1>8
<1>11. Placed(d, p, q, t[k])
  BY <1>2, <1>4, <1>5, <1>6, <1>9, <1>10 DEF Placed
<1> QED
  BY <1>2, <1>11

\* As many files, digested to the same, are the same, where one side has no
\* separators in its content: an entry of the other cannot end early, for it
\* has two separators of its own.
LEMMA DigestTells ==
  ASSUME NEW t \in Seq(Assets), NEW u \in Seq(Assets), Len(t) = Len(u),
         TreeDigest(t) = TreeDigest(u),
         \A k \in 1..Len(u) : ~Contains(u[k].bytes, Nul)
  PROVE  t = u
<1>1. PICK d : d = TreeDigest(t)
  OBVIOUS
<1>2. PICK et : Digested(d, t, et)
  BY <1>1, DigestIs
<1>3. PICK eu : Digested(d, u, eu)
  BY <1>1, DigestIs
<1>4. PICK n \in Nat : n = Len(t) /\ n = Len(u)
  OBVIOUS
<1>5. /\ et \in [0..n -> Nat] /\ eu \in [0..n -> Nat]
      /\ et[0] = 0 /\ eu[0] = 0 /\ et[n] = eu[n]
  BY <1>2, <1>3, <1>4 DEF Digested
<1>6. \A k \in 1..n : /\ et[k - 1] + 3 <= et[k]
                      /\ d[et[k - 1] + 2] = Nul /\ d[et[k]] = Nul
  <2>1. ASSUME NEW k \in 1..n
        PROVE  /\ et[k - 1] + 3 <= et[k]
               /\ d[et[k - 1] + 2] = Nul /\ d[et[k]] = Nul
    <3>1. Placed(d, et[k - 1], et[k], t[k])
      BY <1>2, <1>4, DigestedEntry
    <3>2. PICK p \in Nat, q \in Nat, l \in Nat :
            p = et[k - 1] /\ q = et[k] /\ l = Len(t[k].bytes)
      BY <3>1 DEF Placed
    <3>3. p + 3 <= q
      <4>1. q = p + l + 3
        BY <3>1, <3>2 DEF Placed
      <4> QED
        BY <4>1
    <3> QED
      BY <3>1, <3>2, <3>3 DEF Placed
  <2> QED
    BY <2>1
<1>7. ASSUME NEW k \in 1..n, NEW x \in Nat, eu[k - 1] < x, x <= eu[k], d[x] = Nul
      PROVE  x = eu[k - 1] + 2 \/ x = eu[k]
  <2>1. Placed(d, eu[k - 1], eu[k], u[k])
    BY <1>3, <1>4, DigestedEntry
  <2>2. PICK p \in Nat, q \in Nat, l \in Nat :
          p = eu[k - 1] /\ q = eu[k] /\ l = Len(u[k].bytes)
    BY <2>1 DEF Placed
  <2>3. q = p + l + 3 /\ p < x /\ x <= q
    BY <1>7, <2>1, <2>2 DEF Placed
  <2>4. x - p \in 1..(l + 3) /\ p + (x - p) = x
    BY <2>3
  <2>5. Entry(u[k])[x - p] = Nul
    <3>1. \A i \in 1..(l + 3) : d[p + i] = Entry(u[k])[i]
      BY <2>1, <2>2 DEF Placed
    <3> QED
      BY <1>7, <2>4, <3>1
  <2>6. u[k] \in Assets /\ ~Contains(u[k].bytes, Nul)
    BY <1>4
  <2>7. x - p = 2 \/ x - p = l + 3
    BY <2>2, <2>4, <2>5, <2>6, EntrySeparators
  <2>8. p \in Nat /\ q \in Nat /\ l \in Nat /\ x \in Nat
    OBVIOUS
  <2>9. x = p + 2 \/ x = q
    BY ONLY <2>3, <2>7, <2>8
  <2> QED
    BY <2>2, <2>9
<1>u. \A k \in 1..n, x \in Nat : eu[k - 1] < x /\ x <= eu[k] /\ d[x] = Nul
                               => x = eu[k - 1] + 2 \/ x = eu[k]
  BY <1>7
<1>8. \A k \in 0..n : et[k] \in Nat /\ eu[k] \in Nat
  BY <1>5
<1>9. \A k \in 0..n : eu[k] <= et[k]
  <2> DEFINE T == {k \in Nat : k <= n /\ ~(eu[k] <= et[k])}
  <2>1. ASSUME T # {} PROVE FALSE
    <3>1. PICK k \in T : \A m \in T : k <= m
      <4>1. T \in SUBSET Nat
        OBVIOUS
      <4> HIDE DEF T
      <4> QED
        BY <2>1, <4>1, LeastNatural
    <3>2. k \in Nat /\ k <= n /\ ~(eu[k] <= et[k])
      BY <3>1
    <3>3. k # 0
      BY <1>5, <3>2
    <3>4. k - 1 \in Nat /\ k - 1 <= n /\ k \in 1..n /\ ~(k <= k - 1)
          /\ k - 1 \in 0..n /\ k \in 0..n
      BY <3>2, <3>3
    <3>5. k - 1 \notin T
      <4> HIDE DEF T
      <4> QED
        BY <3>1, <3>4
    <3>6. eu[k - 1] <= et[k - 1]
      BY <3>4, <3>5
    <3>7. PICK p \in Nat, q \in Nat, r \in Nat, s \in Nat :
            p = et[k - 1] /\ q = et[k] /\ r = eu[k - 1] /\ s = eu[k]
      BY <1>8, <3>4
    <3>8. r <= p /\ p + 3 <= q /\ q < s /\ d[p + 2] = Nul /\ d[q] = Nul
      BY <1>6, <3>2, <3>4, <3>6, <3>7
    <3>9. p + 2 = r + 2 \/ p + 2 = s
      <4>1. p + 2 \in Nat /\ r < p + 2 /\ p + 2 <= s
        BY <3>8
      <4> QED
        BY <1>u, <3>4, <3>7, <3>8, <4>1
    <3>10. q = r + 2 \/ q = s
      <4>1. r < q /\ q <= s
        BY <3>8
      <4> QED
        BY <1>u, <3>4, <3>7, <3>8, <4>1
    <3> QED
      BY <3>8, <3>9, <3>10
  <2>2. T = {}
    <3> HIDE DEF T
    <3> QED
      BY <2>1
  <2>3. \A k \in 0..n : k \in Nat /\ k <= n
    OBVIOUS
  <2> QED
    BY <2>2, <2>3
<1>10. \A k \in 0..n : et[k] = eu[k]
  <2> DEFINE T == {j \in Nat : j <= n /\ et[n - j] # eu[n - j]}
  <2>1. ASSUME T # {} PROVE FALSE
    <3>1. PICK j \in T : \A m \in T : j <= m
      <4>1. T \in SUBSET Nat
        OBVIOUS
      <4> HIDE DEF T
      <4> QED
        BY <2>1, <4>1, LeastNatural
    <3>2. j \in Nat /\ j <= n /\ et[n - j] # eu[n - j]
      BY <3>1
    <3>3. j # 0
      <4>1. n - 0 = n
        OBVIOUS
      <4> QED
        BY <1>5, <3>2, <4>1
    <3>4. PICK k \in 1..n : k - 1 = n - j /\ k = n - (j - 1)
      <4>1. n - j + 1 \in 1..n /\ n - j + 1 - 1 = n - j /\ n - j + 1 = n - (j - 1)
        BY <3>2, <3>3
      <4> QED
        BY <4>1
    <3>5. j - 1 \in Nat /\ j - 1 <= n /\ ~(j <= j - 1)
      BY <3>2, <3>3
    <3>6. j - 1 \notin T
      <4> HIDE DEF T
      <4> QED
        BY <3>1, <3>5
    <3>7. et[k] = eu[k]
      BY <3>4, <3>5, <3>6
    <3>8. k \in 0..n /\ k - 1 \in 0..n
      OBVIOUS
    <3>9. PICK p \in Nat, q \in Nat, r \in Nat :
            p = et[k - 1] /\ q = et[k] /\ q = eu[k] /\ r = eu[k - 1]
      BY <1>8, <3>7, <3>8
    <3>10. r <= p /\ p + 3 <= q /\ d[p + 2] = Nul /\ p # r
      BY <1>6, <1>9, <3>2, <3>4, <3>8, <3>9
    <3>11. p + 2 = r + 2 \/ p + 2 = q
      <4>1. p + 2 \in Nat /\ r < p + 2 /\ p + 2 <= q
        BY <3>10
      <4> QED
        BY <1>u, <3>9, <3>10, <4>1
    <3> QED
      BY <3>10, <3>11
  <2>2. T = {}
    <3> HIDE DEF T
    <3> QED
      BY <2>1
  <2>3. ASSUME NEW k \in 0..n PROVE et[k] = eu[k]
    <3>1. n - k \in Nat /\ n - k <= n /\ n - (n - k) = k
      OBVIOUS
    <3> QED
      BY <2>2, <3>1
  <2> QED
    BY <2>3
<1>11. ASSUME NEW k \in 1..n PROVE t[k] = u[k]
  <2>1. PICK a \in Assets : a = t[k]
    BY <1>4
  <2>2. PICK b \in Assets : b = u[k]
    BY <1>4
  <2>3. PICK p \in Nat, q \in Nat : p = et[k - 1] /\ p = eu[k - 1] /\ q = et[k] /\ q = eu[k]
    <3>1. k \in 0..n /\ k - 1 \in 0..n
      OBVIOUS
    <3> QED
      BY <1>8, <1>10, <3>1
  <2>4. Placed(d, p, q, a)
    BY <1>2, <1>4, <2>1, <2>3, DigestedEntry
  <2>5. Placed(d, p, q, b)
    BY <1>3, <1>4, <2>2, <2>3, DigestedEntry
  <2>6. Len(a.bytes) = Len(b.bytes)
    <3>1. PICK l \in Nat, m \in Nat : l = Len(a.bytes) /\ m = Len(b.bytes)
      BY <2>4, <2>5 DEF Placed
    <3>2. q = p + l + 3 /\ q = p + m + 3
      BY <2>4, <2>5, <3>1 DEF Placed
    <3> QED
      BY <3>1, <3>2
  <2>7. a.bytes = b.bytes
    <3> DEFINE C == {Nul} \cup Seq(Nat \ {0})
    <3>1. PICK x \in Seq(C), y \in Seq(C) : x = a.bytes /\ y = b.bytes
      BY DEF Assets, Contents
    <3> HIDE DEF C
    <3>2. x \in [1..Len(x) -> C] /\ y \in [1..Len(x) -> C]
      BY <2>6, <3>1, LenProperties
    <3>3. \A j \in 1..Len(x) : x[j] = y[j]
      BY <2>4, <2>5, <2>6, <3>1 DEF Placed
    <3>4. x = y
      BY ONLY <3>2, <3>3
    <3> QED
      BY <3>1, <3>4
  <2>8. a = b
    <3>1. a.path = b.path
      BY <2>4, <2>5 DEF Placed
    <3> QED
      BY <2>7, <3>1 DEF Assets
  <2> QED
    BY <2>1, <2>2, <2>8
<1>12. t \in [1..n -> Assets] /\ u \in [1..n -> Assets]
  BY <1>4, LenProperties
<1> QED
  BY <1>11, <1>12

-----------------------------------------------------------------------------
(* Sorted tables.                                                          *)

LEMMA ListedAsset ==
  ASSUME NEW t, NEW tree, NEW S, Listing(t, tree, S), NEW i \in 1..Len(t)
  PROVE  /\ t[i] \in Assets /\ t[i].path \in S /\ t[i].path \in Seq(Nat)
         /\ t[i] = [path |-> t[i].path, bytes |-> tree[t[i].path]]
<1>1. t \in Seq(Assets)
  BY DEF Listing
<1>2. t[i] \in Assets
  BY <1>1
<1>3. t[i].path \in Paths
  BY <1>2 DEF Assets
<1>4. t[i].path \in S /\ t[i].bytes = tree[t[i].path]
  BY DEF Listing
<1>5. t[i] = [path |-> t[i].path, bytes |-> tree[t[i].path]]
  BY <1>2, <1>4 DEF Assets
<1> QED
  BY <1>2, <1>3, <1>4, <1>5, PathIsText

LEMMA SortedAlike ==
  ASSUME NEW t, NEW u, NEW tree, NEW other, NEW S,
         Listing(t, tree, S), Sorted(t), Listing(u, other, S), Sorted(u),
         NEW n \in Nat, n <= Len(t), n <= Len(u)
  PROVE  \A i \in 1..n : t[i].path = u[i].path
<1> DEFINE T == {i \in Nat : i > 0 /\ i <= n /\ t[i].path # u[i].path}
<1>0. Len(t) \in Nat /\ Len(u) \in Nat
  BY DEF Listing
<1>1. ASSUME T # {} PROVE FALSE
  <2>1. PICK i \in T : \A m \in T : i <= m
    <3>1. T \in SUBSET Nat
      OBVIOUS
    <3> HIDE DEF T
    <3> QED
      BY <1>1, <3>1, LeastNatural
  <2>2. i \in 1..n /\ i \in 1..Len(t) /\ i \in 1..Len(u) /\ t[i].path # u[i].path
    BY <1>0, <2>1
  <2>3. ASSUME NEW j \in 1..(i - 1)
        PROVE  t[j].path = u[j].path /\ j \in 1..Len(t) /\ j \in 1..Len(u) /\ j < i
    <3>1. j \in Nat /\ j > 0 /\ j <= n /\ ~(i <= j) /\ j < i
      BY <2>2
    <3>2. j \notin T
      <4> HIDE DEF T
      <4> QED
        BY <2>1, <3>1
    <3> QED
      BY <1>0, <3>1, <3>2
  <2>4. t[i].path \in Seq(Nat) /\ u[i].path \in Seq(Nat) /\ t[i].path \in S /\ u[i].path \in S
    BY <2>2, ListedAsset
  <2>5. LexicallyLess(u[i].path, t[i].path)
    <3>1. PICK j \in 1..Len(u) : u[j].path = t[i].path
      BY <2>4 DEF Listing
    <3>2. ASSUME j < i PROVE FALSE
      <4>1. j \in 1..(i - 1)
        BY <2>2, <3>2
      <4>2. LexicallyLess(t[j].path, t[i].path) /\ t[j].path = t[i].path
        BY <2>2, <2>3, <3>1, <4>1 DEF Sorted
      <4> QED
        BY <2>4, <4>2, LessIrreflexive
    <3>3. i < j
      BY <2>2, <3>1, <3>2
    <3> QED
      BY <2>2, <3>1, <3>3 DEF Sorted
  <2>6. LexicallyLess(t[i].path, u[i].path)
    <3>1. PICK j \in 1..Len(t) : t[j].path = u[i].path
      BY <2>4 DEF Listing
    <3>2. ASSUME j < i PROVE FALSE
      <4>1. j \in 1..(i - 1)
        BY <2>2, <3>2
      <4>2. LexicallyLess(u[j].path, u[i].path) /\ u[j].path = u[i].path
        BY <2>2, <2>3, <3>1, <4>1 DEF Sorted
      <4> QED
        BY <2>4, <4>2, LessIrreflexive
    <3>3. i < j
      BY <2>2, <3>1, <3>2
    <3> QED
      BY <2>2, <3>1, <3>3 DEF Sorted
  <2>7. LexicallyLess(t[i].path, t[i].path)
    BY <2>4, <2>5, <2>6, LessTransitive
  <2> QED
    BY <2>4, <2>7, LessIrreflexive
<1>2. \A i \in 1..n : i \in Nat /\ i > 0 /\ i <= n
  OBVIOUS
<1> QED
  BY <1>1, <1>2

LEMMA SortedNotLonger ==
  ASSUME NEW t, NEW u, NEW tree, NEW other, NEW S,
         Listing(t, tree, S), Sorted(t), Listing(u, other, S), Sorted(u)
  PROVE  Len(u) <= Len(t)
<1>0. Len(t) \in Nat /\ Len(u) \in Nat
  BY DEF Listing
<1>1. ASSUME Len(t) < Len(u) PROVE FALSE
  <2>1. PICK i \in 1..Len(u) : i = Len(t) + 1
    BY <1>0, <1>1
  <2>2. u[i].path \in S /\ u[i].path \in Seq(Nat)
    BY ListedAsset
  <2>3. PICK j \in 1..Len(t) : t[j].path = u[i].path
    BY <2>2 DEF Listing
  <2>4. t[j].path = u[j].path
    <3>1. Len(t) <= Len(t) /\ Len(t) <= Len(u)
      BY <1>0, <1>1
    <3> QED
      BY <1>0, <3>1, SortedAlike
  <2>5. j \in 1..Len(u) /\ j < i
    BY <1>0, <2>1
  <2>6. LexicallyLess(u[j].path, u[i].path)
    BY <2>5 DEF Sorted
  <2> QED
    BY <2>2, <2>3, <2>4, <2>6, LessIrreflexive
<1> QED
  BY <1>0, <1>1

\* A set of files has one sorted table.
LEMMA SortedUnique ==
  ASSUME NEW t, NEW u, NEW tree, NEW other, NEW S,
         Listing(t, tree, S), Sorted(t), Listing(u, other, S), Sorted(u),
         \A p \in S : tree[p] = other[p]
  PROVE  t = u
<1>1. t \in Seq(Assets) /\ u \in Seq(Assets) /\ Len(t) \in Nat /\ Len(u) \in Nat
  BY DEF Listing
<1>2. Len(t) = Len(u)
  <2>1. Len(u) <= Len(t) /\ Len(t) <= Len(u)
    BY SortedNotLonger
  <2> QED
    BY <1>1, <2>1
<1>3. \A i \in 1..Len(t) : t[i].path = u[i].path
  <2>1. Len(t) <= Len(t) /\ Len(t) <= Len(u)
    BY <1>1, <1>2
  <2> QED
    BY <1>1, <2>1, SortedAlike
<1>4. ASSUME NEW i \in 1..Len(t) PROVE t[i] = u[i]
  <2>1. /\ t[i].path \in S
        /\ t[i] = [path |-> t[i].path, bytes |-> tree[t[i].path]]
    BY ListedAsset
  <2>2. i \in 1..Len(u)
    BY <1>2
  <2>3. u[i] = [path |-> u[i].path, bytes |-> other[u[i].path]]
    BY <2>2, ListedAsset
  <2> QED
    BY <1>3, <2>1, <2>3
<1>5. t \in [1..Len(t) -> Assets] /\ u \in [1..Len(t) -> Assets]
  BY <1>1, <1>2, LenProperties
<1> QED
  BY <1>4, <1>5

Distinct(t) == \A i, j \in 1..Len(t) : i # j => t[i].path # t[j].path

LEMMA ByPathIs ==
  ASSUME NEW t, NEW tree, NEW S, Listing(t, tree, S), Distinct(t)
  PROVE  Listing(ByPath(t), tree, S) /\ Sorted(ByPath(t))
<1> DEFINE n == Len(t)
           held == Range(t)
           R == {e \in held \X held : LexicallyLess(e[1].path, e[2].path)}
           rank == [p \in held |-> Cardinality({q \in held : <<q, p>> \in R})]
           at(i) == CHOOSE a \in held :
                      Cardinality({b \in held : LexicallyLess(b.path, a.path)}) = i - 1
           u == ByPath(t)
<1>1. t \in Seq(Assets) /\ n \in Nat /\ DOMAIN t = 1..n /\ t \in [1..n -> Assets]
  BY LenProperties DEF Listing
<1>2. held = {t[i] : i \in 1..n}
  BY <1>1 DEF Range
<1>u. u = [i \in 1..n |-> at(i)]
  BY <1>1 DEF ByPath
<1> HIDE DEF held, n
<1>3. ASSUME NEW a \in held
      PROVE  /\ a \in Assets /\ a.path \in Seq(Nat) /\ a.path \in S
             /\ a = [path |-> a.path, bytes |-> tree[a.path]]
  <2>1. PICK i \in 1..n : a = t[i]
    BY <1>2
  <2>2. i \in 1..Len(t)
    BY DEF n
  <2>3. /\ t[i] \in Assets /\ t[i].path \in S /\ t[i].path \in Seq(Nat)
        /\ t[i] = [path |-> t[i].path, bytes |-> tree[t[i].path]]
    BY <2>2, ListedAsset
  <2> QED
    BY <2>1, <2>3
<1>4. IsFiniteSet(held) /\ Cardinality(held) = n
  <2>1. t \in Bijection(1..n, held)
    <3>1. t \in [1..n -> held]
      BY <1>1, <1>2
    <3>2. \A i, j \in 1..n : t[i] = t[j] => i = j
      BY DEF Distinct, n
    <3>3. \A a \in held : \E i \in 1..n : t[i] = a
      BY <1>2
    <3> QED
      BY <3>1, <3>2, <3>3 DEF Bijection, Injection, IsInjective, Surjection
  <2>2. IsFiniteSet(1..n) /\ Cardinality(1..n) = n
    BY <1>1, FS_Interval
  <2>3. ExistsBijection(1..n, held)
    BY <2>1 DEF ExistsBijection
  <2> QED
    BY <2>2, <2>3, FS_Bijection
<1>5. \A p, q \in held : <<p, q>> \in R <=> LexicallyLess(p.path, q.path)
  OBVIOUS
<1>6. /\ \A p \in held : rank[p] \in 0..(n - 1)
      /\ \A p, q \in held : <<p, q>> \in R <=> rank[p] < rank[q]
      /\ \A i \in 1..n : \E p \in held : rank[p] = i - 1
  <2>1. \A p \in held : <<p, p>> \notin R
    BY <1>3, <1>5, LessIrreflexive
  <2>2. \A p, q, r \in held : <<p, q>> \in R /\ <<q, r>> \in R => <<p, r>> \in R
    <3>1. ASSUME NEW p \in held, NEW q \in held, NEW r \in held, <<p, q>> \in R, <<q, r>> \in R
          PROVE  <<p, r>> \in R
      <4>1. LexicallyLess(p.path, q.path) /\ LexicallyLess(q.path, r.path)
        BY <1>5, <3>1
      <4>2. LexicallyLess(p.path, r.path)
        BY <1>3, <4>1, LessTransitive
      <4> QED
        BY <1>5, <4>2
    <3> HIDE DEF R
    <3> QED
      BY <3>1
  <2>3. ASSUME NEW p \in held, NEW q \in held
        PROVE  p = q \/ <<p, q>> \in R \/ <<q, p>> \in R
    <3>1. CASE p.path = q.path
      BY <1>3, <3>1
    <3>2. CASE p.path # q.path
      <4>1. LexicallyLess(p.path, q.path) \/ LexicallyLess(q.path, p.path)
        BY <1>3, <3>2, LessTotal
      <4> QED
        BY <1>5, <4>1
    <3> QED
      BY <3>1, <3>2
  <2>4. rank = [p \in held |-> Cardinality({q \in held : <<q, p>> \in R})]
    OBVIOUS
  <2> HIDE DEF R, rank
  <2>5. Ranked(held, R, rank)
    BY ONLY <1>4, <2>1, <2>2, <2>3, <2>4 DEF Ranked
  <2>6. /\ \A p \in held : rank[p] \in 0..(Cardinality(held) - 1)
        /\ \A p, q \in held : <<p, q>> \in R <=> rank[p] < rank[q]
        /\ \A i \in 1..Cardinality(held) : \E p \in held : rank[p] = i - 1
    BY ONLY <2>5, Ranks
  <2> QED
    BY ONLY <1>4, <2>6
<1>7. ASSUME NEW p \in held
      PROVE  rank[p] = Cardinality({q \in held : LexicallyLess(q.path, p.path)})
  <2>1. {q \in held : <<q, p>> \in R} = {q \in held : LexicallyLess(q.path, p.path)}
    BY <1>5
  <2> QED
    BY <2>1
<1> HIDE DEF R, rank, u
<1>8. ASSUME NEW i \in 1..n PROVE at(i) \in held /\ rank[at(i)] = i - 1
  <2>1. PICK p \in held : rank[p] = i - 1
    BY <1>6
  <2>2. \E q \in held : Cardinality({r \in held : LexicallyLess(r.path, q.path)}) = i - 1
    BY <1>7, <2>1
  <2>3. at(i) \in held /\ Cardinality({q \in held : LexicallyLess(q.path, at(i).path)}) = i - 1
    BY <2>2
  <2> HIDE DEF at
  <2> QED
    BY <1>7, <2>3
<1> HIDE DEF at
<1>9. u \in [1..n -> held] /\ \A i \in 1..n : rank[u[i]] = i - 1
  BY <1>8, <1>u
<1>10. u \in Seq(Assets) /\ Len(u) = n
  <2>1. u \in [1..n -> Assets]
    BY <1>3, <1>9
  <2> QED
    BY <1>1, <2>1
<1>11. \A i \in 1..n : u[i] \in held /\ u[i].path \in S /\ u[i].bytes = tree[u[i].path]
  <2>1. \A a \in held : a.bytes = tree[a.path]
    BY <1>3
  <2> QED
    BY <1>3, <1>9, <2>1
<1>12. ASSUME NEW p \in S PROVE \E i \in 1..n : u[i].path = p
  <2>1. PICK k \in 1..n : t[k].path = p
    BY DEF Listing, n
  <2>2. PICK a \in held : a = t[k]
    BY <1>2
  <2>3. rank[a] \in 0..(n - 1)
    BY <1>6
  <2>4. PICK i \in 1..n : i - 1 = rank[a]
    <3>1. PICK r \in Int : r = rank[a]
      BY <2>3
    <3>2. r + 1 \in 1..n /\ (r + 1) - 1 = rank[a]
      BY <1>1, <2>3, <3>1
    <3> QED
      BY <3>2
  <2>5. PICK b \in held : b = u[i]
    BY <1>11
  <2>6. rank[b] = rank[a]
    BY <1>9, <2>4, <2>5
  <2>7. ~(rank[a] < rank[b]) /\ ~(rank[b] < rank[a])
    BY <2>3, <2>6
  <2>8. ~LexicallyLess(a.path, b.path) /\ ~LexicallyLess(b.path, a.path)
    BY <1>5, <1>6, <2>7
  <2>9. a.path = b.path
    BY <1>3, <2>8, LessTotal
  <2> QED
    BY <2>1, <2>2, <2>5, <2>9
<1>13. ASSUME NEW i \in 1..n, NEW j \in 1..n, i < j
       PROVE  LexicallyLess(u[i].path, u[j].path)
  <2>1. rank[u[i]] = i - 1 /\ rank[u[j]] = j - 1 /\ u[i] \in held /\ u[j] \in held
    BY <1>9, <1>11
  <2>2. rank[u[i]] < rank[u[j]]
    BY <1>13, <2>1
  <2> QED
    BY <1>5, <1>6, <2>1, <2>2
<1> QED
  BY <1>10, <1>11, <1>12, <1>13 DEF Listing, Sorted, u

-----------------------------------------------------------------------------
(* A tree that was verified, and one that is the same.                     *)

LEMMA SortedDistinct ==
  ASSUME NEW t, NEW tree, NEW S, Listing(t, tree, S), Sorted(t)
  PROVE  Distinct(t)
<1>1. Len(t) \in Nat
  BY DEF Listing
<1>2. ASSUME NEW i \in 1..Len(t), NEW j \in 1..Len(t), i < j
      PROVE  t[i].path # t[j].path
  <2>1. LexicallyLess(t[i].path, t[j].path) /\ t[i].path \in Seq(Nat)
    BY <1>2, ListedAsset DEF Sorted
  <2> QED
    BY <2>1, LessIrreflexive
<1>3. \A i, j \in 1..Len(t) : i # j => i < j \/ j < i
  BY <1>1
<1> QED
  BY <1>2, <1>3 DEF Distinct

\* The table of a tree by path.
LEMMA PinTable ==
  ASSUME NEW tree, Tree(tree)
  PROVE  /\ Listing(ByPath(Table(tree)), tree, AssetPaths(DOMAIN tree))
         /\ Sorted(ByPath(Table(tree)))
<1> DEFINE t == Table(tree)
           S == AssetPaths(DOMAIN tree)
<1>1. TableOf(t, tree, S)
  BY TableIs
<1> HIDE DEF t, S
<1>2. Listing(t, tree, S)
  BY <1>1 DEF TableOf
<1>3. Len(t) \in Nat
  BY <1>2 DEF Listing
<1>4. ASSUME NEW i \in 1..Len(t), NEW j \in 1..Len(t), i < j
      PROVE  t[i].path # t[j].path
  <2>1. ComponentsLess(t[i].path, t[j].path)
    BY <1>1, <1>4 DEF TableOf
  <2>2. t[i].path \in Paths
    BY <1>2, ListedAsset DEF Assets
  <2> QED
    BY <2>1, <2>2, ComponentsOrder
<1>5. \A i, j \in 1..Len(t) : i # j => i < j \/ j < i
  BY <1>3
<1>6. Distinct(t)
  BY <1>4, <1>5 DEF Distinct
<1> QED
  BY <1>2, <1>6, ByPathIs DEF t, S

JsonPaths(tree, d) == {p \in DOMAIN tree : IsJson(d, p)}

LEMMA JsonPathsAre ==
  ASSUME NEW tree, NEW d, d \in {Schemas, Conformance}
  PROVE  {p \in AssetPaths(DOMAIN tree) : IsJson(d, p)} = JsonPaths(tree, d)
BY DEF AssetPaths, IsJson, JsonPaths

LEMMA JsonOfSame ==
  ASSUME NEW tree, NEW other
  PROVE  JsonOf(tree) = JsonOf(other)
           <=> \A d \in {Schemas, Conformance} :
                 /\ JsonPaths(tree, d) = JsonPaths(other, d)
                 /\ \A p \in JsonPaths(tree, d) : tree[p] = other[p]
<1> DEFINE all(f) == {p \in DOMAIN f : \E d \in {Schemas, Conformance} : IsJson(d, p)}
<1>1. \A f : JsonOf(f) = [p \in all(f) |-> f[p]]
  BY DEF JsonOf, Restrict, IsJson
<1>2. \A f : \A p : p \in all(f) <=> \E d \in {Schemas, Conformance} : p \in JsonPaths(f, d)
  BY DEF JsonPaths
<1>3. ASSUME JsonOf(tree) = JsonOf(other), NEW d \in {Schemas, Conformance}
      PROVE  /\ JsonPaths(tree, d) = JsonPaths(other, d)
             /\ \A p \in JsonPaths(tree, d) : tree[p] = other[p]
  <2>1. all(tree) = all(other)
    BY <1>1, <1>3
  <2>2. \A p \in all(tree) : tree[p] = other[p]
    BY <1>1, <1>3, <2>1
  <2>3. JsonPaths(tree, d) = JsonPaths(other, d)
    BY <2>1 DEF JsonPaths
  <2> QED
    BY <1>2, <2>2, <2>3
<1>4. ASSUME \A d \in {Schemas, Conformance} :
               /\ JsonPaths(tree, d) = JsonPaths(other, d)
               /\ \A p \in JsonPaths(tree, d) : tree[p] = other[p]
      PROVE  JsonOf(tree) = JsonOf(other)
  <2>1. all(tree) = all(other)
    BY <1>2, <1>4
  <2>2. \A p \in all(tree) : tree[p] = other[p]
    BY <1>2, <1>4
  <2> HIDE DEF all
  <2> QED
    BY <1>1, <2>1, <2>2
<1> QED
  BY <1>3, <1>4

\* A table says what it lists.
LEMMA ListingTells ==
  ASSUME NEW t, NEW tree, NEW other, NEW S, NEW T,
         Listing(t, tree, S), Listing(t, other, T)
  PROVE  S = T /\ \A p \in S : tree[p] = other[p]
<1>1. ASSUME NEW p \in S PROVE p \in T /\ tree[p] = other[p]
  BY DEF Listing
<1>2. ASSUME NEW p \in T PROVE p \in S
  BY DEF Listing
<1> QED
  BY <1>1, <1>2

\* The files of a directory, before those of another.
LEMMA ApartLess ==
  ASSUME NEW d \in Seq(Nat), NEW e \in Seq(Nat), LexicallyLess(d, e), ~IsPrefix(d, e),
         NEW p \in Seq(Nat), IsPrefix(d, p), NEW q \in Seq(Nat), IsPrefix(e, q)
  PROVE  LexicallyLess(p, q)
<1>1. PICK i \in DOMAIN d \cap DOMAIN e : d[i] < e[i] /\ \A j \in 1..(i - 1) : d[j] = e[j]
  BY DEF LexicallyLess, IsStrictPrefix
<1>2. /\ Len(d) \in Nat /\ Len(e) \in Nat /\ Len(p) \in Nat /\ Len(q) \in Nat
      /\ DOMAIN d = 1..Len(d) /\ DOMAIN e = 1..Len(e)
      /\ DOMAIN p = 1..Len(p) /\ DOMAIN q = 1..Len(q)
  BY LenProperties
<1>3. Len(d) <= Len(p) /\ \A k \in 1..Len(d) : d[k] = p[k]
  BY PrefixIs
<1>4. Len(e) <= Len(q) /\ \A k \in 1..Len(e) : e[k] = q[k]
  BY PrefixIs
<1>5. i \in 1..Len(d) /\ i \in 1..Len(e)
  BY <1>2
<1>6. i \in DOMAIN p \cap DOMAIN q /\ p[i] < q[i]
  BY <1>1, <1>2, <1>3, <1>4, <1>5
<1>7. \A j \in 1..(i - 1) : p[j] = q[j]
  BY <1>1, <1>2, <1>3, <1>4, <1>5
<1> QED
  BY <1>6, <1>7 DEF LexicallyLess

LEMMA ListingsJoined ==
  ASSUME NEW c, NEW s, NEW tree, NEW C, NEW S,
         Listing(c, tree, C), Sorted(c), Listing(s, tree, S), Sorted(s),
         \A p \in C : \A q \in S : LexicallyLess(p, q)
  PROVE  Listing(c \o s, tree, C \cup S) /\ Sorted(c \o s)
<1> DEFINE u == c \o s
           m == Len(c)
           n == Len(s)
<1>1. c \in Seq(Assets) /\ s \in Seq(Assets)
  BY DEF Listing
<1>2. u \in Seq(Assets) /\ Joined(u, c, s)
  BY <1>1, JoinedIs
<1> HIDE DEF u
<1>3. /\ m \in Nat /\ n \in Nat /\ Len(u) = m + n
      /\ \A i \in 1..m : u[i] = c[i]
      /\ \A i \in 1..n : u[m + i] = s[i]
  BY <1>2 DEF Joined
<1> HIDE DEF m, n
<1>4. ASSUME NEW i \in 1..Len(u), i > m
      PROVE  \E k \in 1..n : i = m + k /\ u[i] = s[k]
  <2>1. PICK k \in Int : k = i - m
    BY <1>3
  <2>2. k \in 1..n /\ i = m + k
    BY <1>3, <1>4, <2>1
  <2> QED
    BY <1>3, <2>2
<1>5. ASSUME NEW i \in 1..Len(u)
      PROVE  /\ u[i].bytes = tree[u[i].path]
             /\ i <= m => u[i].path \in C
             /\ i > m => u[i].path \in S
  <2>1. CASE i <= m
    <3>1. i \in 1..m /\ ~(i > m)
      BY <1>3, <2>1
    <3>2. u[i] = c[i] /\ c[i].path \in C /\ c[i].bytes = tree[c[i].path]
      BY <1>3, <3>1 DEF Listing, m
    <3> QED
      BY <3>1, <3>2
  <2>2. CASE i > m
    <3>1. ~(i <= m)
      BY <1>3, <2>2
    <3>2. PICK k \in 1..n : u[i] = s[k]
      BY <1>4, <2>2
    <3>3. s[k].path \in S /\ s[k].bytes = tree[s[k].path]
      BY DEF Listing, n
    <3> QED
      BY <3>1, <3>2, <3>3
  <2> QED
    BY <1>3, <2>1, <2>2
<1>6. ASSUME NEW p \in C \cup S PROVE \E i \in 1..Len(u) : u[i].path = p
  <2>1. CASE p \in C
    <3>1. PICK i \in 1..m : c[i].path = p
      BY <2>1 DEF Listing, m
    <3>2. i \in 1..Len(u) /\ u[i] = c[i]
      BY <1>3
    <3> QED
      BY <3>1, <3>2
  <2>2. CASE p \in S
    <3>1. PICK k \in 1..n : s[k].path = p
      BY <2>2 DEF Listing, n
    <3>2. PICK i \in Int : i = m + k
      BY <1>3
    <3>3. i \in 1..Len(u) /\ u[i] = s[k]
      BY <1>3, <3>2
    <3> QED
      BY <3>1, <3>3
  <2> QED
    BY <2>1, <2>2
<1>7. ASSUME NEW i \in 1..Len(u), NEW j \in 1..Len(u), i < j
      PROVE  LexicallyLess(u[i].path, u[j].path)
  <2>1. CASE j <= m
    <3>1. i \in 1..m /\ j \in 1..m
      BY <1>3, <1>7, <2>1
    <3> QED
      BY <1>3, <1>7, <3>1 DEF Sorted, m
  <2>2. CASE i <= m /\ j > m
    BY <1>5, <2>2
  <2>3. CASE i > m /\ j > m
    <3>1. PICK k \in 1..n : i = m + k /\ u[i] = s[k]
      BY <1>4, <2>3
    <3>2. PICK l \in 1..n : j = m + l /\ u[j] = s[l]
      BY <1>4, <2>3
    <3>3. k < l
      BY <1>3, <1>7, <3>1, <3>2
    <3> QED
      BY <3>1, <3>2, <3>3 DEF Sorted, n
  <2> QED
    BY <1>3, <1>7, <2>1, <2>2, <2>3
<1>8. \A i \in 1..Len(u) : u[i].path \in C \cup S
  BY <1>3, <1>5
<1> QED
  BY <1>2, <1>5, <1>6, <1>7, <1>8 DEF Listing, Sorted, u

TreeOf(r, d) == JsonAssets(ByPath(Table(Releases[r])), d)

\* The constants of bundle.cpp are those of release r.
Compiled(r) ==
  /\ r \in DOMAIN Releases /\ pin.commit = r
  /\ pin.schemas = [files |-> Len(TreeOf(r, Schemas)),
                    sha256 |-> TreeDigest(TreeOf(r, Schemas))]
  /\ pin.conformance = [files |-> Len(TreeOf(r, Conformance)),
                        sha256 |-> TreeDigest(TreeOf(r, Conformance))]
  /\ pin.bundle = TreeDigest(TreeOf(r, Conformance) \o TreeOf(r, Schemas))

LEMMA CompiledIs == IInv => \E r \in DOMAIN Releases : Compiled(r)
<1> SUFFICES ASSUME IInv PROVE \E r \in DOMAIN Releases : Compiled(r)
  OBVIOUS
<1>1. PICK r \in DOMAIN Releases : pin = Pin(r)
  BY DEF IInv
<1>2. pin.commit = r
  BY <1>1 DEF Pin
<1>3. pin.schemas = [files |-> Len(TreeOf(r, Schemas)),
                     sha256 |-> TreeDigest(TreeOf(r, Schemas))]
  BY <1>1 DEF Pin, TreeOf
<1>4. pin.conformance = [files |-> Len(TreeOf(r, Conformance)),
                         sha256 |-> TreeDigest(TreeOf(r, Conformance))]
  BY <1>1 DEF Pin, TreeOf
<1>5. pin.bundle = TreeDigest(TreeOf(r, Conformance) \o TreeOf(r, Schemas))
  BY <1>1 DEF Pin, TreeOf
<1> QED
  BY <1>2, <1>3, <1>4, <1>5 DEF Compiled

LEMMA ReleasedTree ==
  ASSUME NEW r \in DOMAIN Releases, NEW d, d \in {Schemas, Conformance}
  PROVE  /\ Tree(Releases[r])
         /\ Listing(TreeOf(r, d), Releases[r], JsonPaths(Releases[r], d))
         /\ Sorted(TreeOf(r, d))
         /\ \A k \in 1..Len(TreeOf(r, d)) : ~Contains(TreeOf(r, d)[k].bytes, Nul)
<1> DEFINE tree == Releases[r]
           t == ByPath(Table(tree))
           u == JsonAssets(t, d)
<1>1. Tree(tree)
  BY BundleAssumption DEF Tree
<1> HIDE DEF tree
<1>2. Listing(t, tree, AssetPaths(DOMAIN tree)) /\ Sorted(t)
  BY <1>1, PinTable
<1>3. {p \in AssetPaths(DOMAIN tree) : IsJson(d, p)} = JsonPaths(tree, d)
  BY JsonPathsAre
<1> HIDE DEF t
<1>4. Listing(u, tree, JsonPaths(tree, d)) /\ Sorted(u)
  BY <1>2, <1>3, JsonListing
<1> HIDE DEF u
<1>5. ASSUME NEW k \in 1..Len(u) PROVE ~Contains(u[k].bytes, Nul)
  <2>1. u[k].path \in JsonPaths(tree, d) /\ u[k].bytes = tree[u[k].path]
    BY <1>4 DEF Listing
  <2>2. u[k].path \in DOMAIN JsonOf(tree)
    BY <2>1 DEF JsonOf, Restrict, JsonPaths, IsJson
  <2>3. ~Contains(tree[u[k].path], Nul)
    BY <2>2, ReleaseAssumption DEF tree
  <2> QED
    BY <2>1, <2>3
<1> QED
  BY <1>1, <1>4, <1>5 DEF u, t, tree, TreeOf

\* What is generated lists the files of the tree.
LEMMA GeneratedLists ==
  ASSUME IInv, Generated, NEW d, d \in {Schemas, Conformance}
  PROVE  /\ Listing(assets, files, AssetPaths(DOMAIN files))
         /\ Listing(JsonAssets(assets, d), files, JsonPaths(files, d))
         /\ OrdersAgree => Sorted(assets) /\ Sorted(JsonAssets(assets, d))
<1>1. Listing(assets, files, AssetPaths(DOMAIN files))
  BY TableIs DEF IInv, TableOf
<1>2. OrdersAgree => Sorted(assets)
  BY AgreedTable DEF IInv, OrdersAgree
<1>3. {p \in AssetPaths(DOMAIN files) : IsJson(d, p)} = JsonPaths(files, d)
  BY JsonPathsAre
<1>4. /\ Listing(JsonAssets(assets, d), files, JsonPaths(files, d))
      /\ Sorted(assets) => Sorted(JsonAssets(assets, d))
  BY <1>1, <1>3, JsonListing
<1> QED
  BY <1>1, <1>2, <1>4

LEMMA VerifiedTree ==
  ASSUME IInv, Generated, NEW r, Compiled(r), NEW d, d \in {Schemas, Conformance},
         Len(JsonAssets(assets, d)) = Len(TreeOf(r, d)),
         TreeDigest(JsonAssets(assets, d)) = TreeDigest(TreeOf(r, d))
  PROVE  /\ JsonPaths(files, d) = JsonPaths(Releases[r], d)
         /\ \A p \in JsonPaths(files, d) : files[p] = Releases[r][p]
<1> DEFINE t == JsonAssets(assets, d)
           u == TreeOf(r, d)
           tree == Releases[r]
<1>1. Listing(t, files, JsonPaths(files, d))
  BY GeneratedLists
<1>2. /\ Listing(u, tree, JsonPaths(tree, d))
      /\ \A k \in 1..Len(u) : ~Contains(u[k].bytes, Nul)
  BY ReleasedTree DEF Compiled
<1>3. Len(t) = Len(u) /\ TreeDigest(t) = TreeDigest(u)
  OBVIOUS
<1> HIDE DEF t, u, tree
<1>4. t \in Seq(Assets) /\ u \in Seq(Assets)
  BY <1>1, <1>2 DEF Listing
<1>5. t = u
  BY <1>2, <1>3, <1>4, DigestTells
<1> QED
  BY <1>1, <1>2, <1>5, ListingTells DEF tree

LEMMA VerifiedSame ==
  ASSUME IInv, Generated, NEW r, Compiled(r), Verify(assets, pin)
  PROVE  JsonOf(files) = JsonOf(Releases[r])
<1>1. /\ VerifyTree(JsonAssets(assets, Schemas), pin.schemas)
      /\ VerifyTree(JsonAssets(assets, Conformance), pin.conformance)
  BY DEF Verify
<1>2. \A d \in {Schemas, Conformance} :
        /\ Len(JsonAssets(assets, d)) = Len(TreeOf(r, d))
        /\ TreeDigest(JsonAssets(assets, d)) = TreeDigest(TreeOf(r, d))
  BY <1>1 DEF VerifyTree, Compiled
<1>3. \A d \in {Schemas, Conformance} :
        /\ JsonPaths(files, d) = JsonPaths(Releases[r], d)
        /\ \A p \in JsonPaths(files, d) : files[p] = Releases[r][p]
  BY <1>2, VerifiedTree
<1> QED
  BY <1>3, JsonOfSame

LEMMA SameVerified ==
  ASSUME IInv, Generated, NEW r, Compiled(r), OrdersAgree,
         JsonOf(files) = JsonOf(Releases[r]), PinAgrees(assets, pin)
  PROVE  Verify(assets, pin)
<1> DEFINE s == JsonAssets(assets, Schemas)
           c == JsonAssets(assets, Conformance)
           S == JsonPaths(files, Schemas)
           C == JsonPaths(files, Conformance)
           u == c \o s
<1>1. ASSUME NEW d, d \in {Schemas, Conformance}
      PROVE  JsonAssets(assets, d) = TreeOf(r, d)
  <2>1. /\ Listing(JsonAssets(assets, d), files, JsonPaths(files, d))
        /\ Sorted(JsonAssets(assets, d))
    BY <1>1, GeneratedLists
  <2>2. /\ Listing(TreeOf(r, d), Releases[r], JsonPaths(Releases[r], d))
        /\ Sorted(TreeOf(r, d))
    BY <1>1, ReleasedTree DEF Compiled
  <2>3. /\ JsonPaths(files, d) = JsonPaths(Releases[r], d)
        /\ \A p \in JsonPaths(files, d) : files[p] = Releases[r][p]
    BY <1>1, JsonOfSame
  <2> HIDE DEF s, c
  <2> QED
    BY <2>1, <2>2, <2>3, SortedUnique
<1>2. /\ Listing(s, files, S) /\ Sorted(s)
      /\ Listing(c, files, C) /\ Sorted(c)
  BY GeneratedLists
<1>3. s = TreeOf(r, Schemas) /\ c = TreeOf(r, Conformance)
  BY <1>1
<1>4. ASSUME NEW p \in C, NEW q \in S PROVE LexicallyLess(p, q)
  <2>1. /\ Conformance \in Seq(Nat) /\ Schemas \in Seq(Nat)
        /\ LexicallyLess(Conformance, Schemas) /\ ~IsPrefix(Conformance, Schemas)
    BY DirectoryAssumption
  <2>2. IsPrefix(Conformance, p) /\ IsPrefix(Schemas, q)
    BY DEF JsonPaths, IsJson
  <2>3. p \in Seq(Nat) /\ q \in Seq(Nat)
    BY PathIsText DEF IInv, Tree, JsonPaths
  <2> QED
    BY <2>1, <2>2, <2>3, ApartLess
<1> HIDE DEF s, c, S, C
<1>5. Listing(u, files, C \cup S) /\ Sorted(u)
  BY <1>2, <1>4, ListingsJoined
<1> HIDE DEF u
<1>6. Listing(ByPath(u), files, C \cup S) /\ Sorted(ByPath(u))
  BY <1>5, SortedDistinct, ByPathIs
<1>7. ByPath(u) = u
  BY <1>5, <1>6, SortedUnique
<1>8. /\ VerifyTree(s, pin.schemas) /\ VerifyTree(c, pin.conformance)
      /\ TreeDigest(ByPath(c \o s)) = pin.bundle
  BY <1>3, <1>7 DEF u, VerifyTree, Compiled
<1> QED
  BY <1>8 DEF Verify, s, c

LEMMA VerifiedReleased == IInv => VerifiedIsReleased
<1> SUFFICES ASSUME IInv, Generated
             PROVE  LET same == JsonOf(files) = JsonOf(Releases[pin.commit])
                    IN /\ Verify(assets, pin) => same
                       /\ OrdersAgree /\ same /\ PinAgrees(assets, pin)
                            => Verify(assets, pin)
  BY DEF VerifiedIsReleased
<1>1. PICK r \in DOMAIN Releases : Compiled(r)
  BY CompiledIs
<1>2. pin.commit = r
  BY <1>1 DEF Compiled
<1>3. Verify(assets, pin) => JsonOf(files) = JsonOf(Releases[r])
  BY <1>1, VerifiedSame
<1>4. OrdersAgree /\ JsonOf(files) = JsonOf(Releases[r]) /\ PinAgrees(assets, pin)
        => Verify(assets, pin)
  BY <1>1, SameVerified
<1> QED
  BY <1>2, <1>3, <1>4

-----------------------------------------------------------------------------
(* The vectors, and the exit code.                                         *)

LEMMA PrefixesMeet ==
  ASSUME NEW d \in Seq(Nat), NEW e \in Seq(Nat), NEW p \in Seq(Nat),
         IsPrefix(d, p), IsPrefix(e, p)
  PROVE  IsPrefix(d, e) \/ IsPrefix(e, d)
<1>1. Len(d) \in Nat /\ Len(e) \in Nat
  BY LenProperties
<1>2. \A i \in 1..Len(d) : d[i] = p[i]
  BY PrefixIs
<1>3. \A i \in 1..Len(e) : e[i] = p[i]
  BY PrefixIs
<1>4. CASE Len(d) <= Len(e)
  <2>1. \A i \in 1..Len(d) : i \in 1..Len(e)
    BY <1>1, <1>4
  <2>2. \A i \in 1..Len(d) : d[i] = e[i]
    BY <1>2, <1>3, <2>1
  <2> QED
    BY <1>4, <2>2, PrefixIs
<1>5. CASE Len(e) <= Len(d)
  <2>1. \A i \in 1..Len(e) : i \in 1..Len(d)
    BY <1>1, <1>5
  <2>2. \A i \in 1..Len(e) : e[i] = d[i]
    BY <1>2, <1>3, <2>1
  <2> QED
    BY <1>5, <2>2, PrefixIs
<1> QED
  BY <1>1, <1>4, <1>5

\* Of the vectors' directory, the JSON is embedded and nothing else.
LEMMA VectorPaths ==
  ASSUME NEW tree, NEW path \in Seq(Nat), IsPrefix(Conformance, path)
  PROVE  path \in AssetPaths(DOMAIN tree) <=> path \in JsonPaths(tree, Conformance)
<1>1. Conformance \in Seq(Nat)
  BY DirectoryAssumption
<1>2. ASSUME NEW d \in {Schemas} \cup Profiles PROVE ~IsPrefix(d, path)
  <2>1. d \in Seq(Nat) /\ ~IsPrefix(d, Conformance) /\ ~IsPrefix(Conformance, d)
    <3>1. d # Conformance
      BY DirectoryAssumption
    <3> QED
      BY <3>1, DirectoryAssumption
  <2> QED
    BY <1>1, <2>1, PrefixesMeet
<1>3. path # PinPath
  BY DirectoryAssumption
<1> QED
  BY <1>2, <1>3 DEF AssetPaths, JsonPaths, IsJson

\* A table of a tree that can be searched.
Searched(t, tree) ==
  /\ Tree(tree) /\ Listing(t, tree, AssetPaths(DOMAIN tree)) /\ Sorted(t)

LEMMA SearchedVector ==
  ASSUME NEW t, NEW tree, Searched(t, tree), NEW path \in Seq(Nat),
         IsPrefix(Conformance, path)
  PROVE  /\ Found(t, path) <=> path \in JsonPaths(tree, Conformance)
         /\ Found(t, path) => Bytes(t, path) = tree[path]
<1>1. Listing(t, tree, AssetPaths(DOMAIN tree)) /\ Sorted(t)
  BY DEF Searched
<1> QED
  BY <1>1, FoundIs, VectorPaths

ManifestPath == Conformance \o ManifestName

LEMMA ManifestPathIs == ManifestPath \in Seq(Nat) /\ IsPrefix(Conformance, ManifestPath)
<1>1. Conformance \in Seq(Nat) /\ ManifestName \in Seq(Nat)
  BY DirectoryAssumption
<1>2. ManifestPath \in Seq(Nat) /\ Joined(ManifestPath, Conformance, ManifestName)
  BY <1>1, JoinedIs DEF ManifestPath
<1>3. /\ Len(Conformance) <= Len(ManifestPath)
      /\ \A i \in 1..Len(Conformance) : Conformance[i] = ManifestPath[i]
  BY <1>2 DEF Joined
<1> QED
  BY <1>1, <1>2, <1>3, PrefixIs

\* The vectors a table lists.
VectorsOf(t) == Vectors[Bytes(t, ManifestPath)]

LEMMA VectorsAre ==
  ASSUME NEW t, Parses(t, ManifestPath, Vectors)
  PROVE  /\ VectorsOf(t) \in Seq(Entries)
         /\ \A i \in DOMAIN VectorsOf(t) : VectorsOf(t)[i].instance \in Seq(Nat)
<1> DEFINE v == VectorsOf(t)
<1>1. v \in Seq(Entries)
  BY ListAssumption DEF Parses, VectorsOf
<1> HIDE DEF v
<1>2. \A i \in DOMAIN v : v[i] \in Entries
  BY <1>1, LenProperties
<1>3. \A i \in DOMAIN v : v[i].instance \in Seq(Nat)
  BY <1>2 DEF Entries
<1> QED
  BY <1>1, <1>3 DEF v

\* What a path below a directory leads to is a file: its name is safe.
LEMMA SafeIs ==
  ASSUME NEW path \in Paths, NEW d, Directory(d), IsPrefix(d, path),
         ~Contains(Drop(path, Len(d)), Backslash)
  PROVE  SafePath(path, d)
<1>1. path \in Seq(Nat)
  BY PathIsText
<1>2. \A i \in DOMAIN Components(path) : Components(path)[i] \notin Dots \cup {<<>>}
  BY DEF Paths
<1>3. \A segment \in Range(Components(Drop(path, Len(d)))) :
        segment \notin Dots \cup {<<>>}
  BY <1>1, <1>2, SplitBelow DEF Directory
<1>4. \A segment \in Range(Components(Drop(path, Len(d)))) :
        segment \notin {<<>>, <<46, 46>>}
  BY <1>3 DEF Dots
<1> QED
  BY <1>4 DEF SafePath

LEMMA JsonInIs ==
  ASSUME NEW tree, NEW d
  PROVE  /\ DOMAIN JsonIn(tree, d) = JsonPaths(tree, d)
         /\ \A p \in JsonPaths(tree, d) : JsonIn(tree, d)[p] = tree[p]
BY DEF JsonIn, JsonPaths, IsJson, Restrict

Verdict(t) ==
  /\ Constructs(t) /\ Parses(t, ManifestPath, Vectors)
  /\ \A i \in DOMAIN VectorsOf(t) : Runs(t, VectorsOf(t), i)

LEMMA ExitCodeIs ==
  ASSUME NEW t
  PROVE  ExitCode(t) =
           IF ~Verdict(t) THEN 2
           ELSE IF \A i \in DOMAIN VectorsOf(t) : Passes(t, VectorsOf(t)[i]) THEN 0 ELSE 1
BY DEF ExitCode, Verdict, ManifestPath, VectorsOf

\* A table, sorted or not, of a tree.
TableFor(t, tree) == Tree(tree) /\ Listing(t, tree, AssetPaths(DOMAIN tree))

LEMMA SchemaNamesAre ==
  ASSUME NEW t, NEW tree, TableFor(t, tree)
  PROVE  SchemaNames(t) = JsonPaths(tree, Schemas)
<1> DEFINE u == JsonAssets(t, Schemas)
           S == JsonPaths(tree, Schemas)
<1>1. {p \in AssetPaths(DOMAIN tree) : IsJson(Schemas, p)} = S
  BY JsonPathsAre
<1> HIDE DEF S
<1>2. Listing(u, tree, S)
  BY <1>1, JsonListing DEF TableFor
<1>3. SchemaNames(t) = {a.path : a \in Range(u)}
  BY DEF SchemaNames
<1> HIDE DEF u
<1>4. DOMAIN u = 1..Len(u)
  BY <1>2, LenProperties DEF Listing
<1>5. \A p : p \in SchemaNames(t) <=> \E i \in 1..Len(u) : p = u[i].path
  BY <1>3, <1>4 DEF Range
<1>6. \A p : p \in SchemaNames(t) <=> p \in S
  BY <1>2, <1>5 DEF Listing
<1> QED
  BY <1>6 DEF S

LEMMA CatalogIs ==
  ASSUME NEW t, NEW tree, TableFor(t, tree), \A p \in SchemaNames(t) : Found(t, p)
  PROVE  Catalog(t) = JsonIn(tree, Schemas)
<1>1. SchemaNames(t) = JsonPaths(tree, Schemas)
  BY SchemaNamesAre
<1>2. \A p \in JsonPaths(tree, Schemas) : Bytes(t, p) = tree[p]
  BY <1>1, FoundHeld DEF TableFor
<1> QED
  BY <1>1, <1>2 DEF Catalog, JsonIn, JsonPaths, IsJson, Restrict

LEMMA FoundVector ==
  ASSUME NEW t, NEW tree, TableFor(t, tree), NEW path \in Seq(Nat),
         IsPrefix(Conformance, path), Found(t, path)
  PROVE  /\ path \in DOMAIN JsonIn(tree, Conformance)
         /\ Bytes(t, path) = JsonIn(tree, Conformance)[path]
<1>1. path \in AssetPaths(DOMAIN tree) /\ Bytes(t, path) = tree[path]
  BY FoundHeld DEF TableFor
<1>2. path \in JsonPaths(tree, Conformance)
  BY <1>1, VectorPaths
<1> QED
  BY <1>1, <1>2, JsonInIs

\* A run with a verdict has that of the tree.
LEMMA VerdictIs ==
  ASSUME NEW t, NEW tree, TableFor(t, tree), Verdict(t)
  PROVE  Judged(tree) /\ ExitCode(t) = TreeCode(tree)
<1>1. Catalog(t) = JsonIn(tree, Schemas) /\ Loads(JsonIn(tree, Schemas))
      /\ SchemaNames(t) = DOMAIN JsonIn(tree, Schemas)
  <2>1. \A p \in SchemaNames(t) : Found(t, p)
    BY DEF Verdict, Constructs
  <2>2. Catalog(t) = JsonIn(tree, Schemas)
    BY <2>1, CatalogIs
  <2>3. SchemaNames(t) = DOMAIN JsonIn(tree, Schemas)
    BY SchemaNamesAre, JsonInIs
  <2> QED
    BY <2>2, <2>3 DEF Verdict, Constructs
<1>2. /\ ManifestPath \in DOMAIN JsonIn(tree, Conformance)
      /\ Bytes(t, ManifestPath) = JsonIn(tree, Conformance)[ManifestPath]
      /\ Bytes(t, ManifestPath) \in DOMAIN Vectors
  <2>1. Found(t, ManifestPath) /\ Bytes(t, ManifestPath) \in DOMAIN Vectors
    BY DEF Verdict, Parses
  <2> QED
    BY <2>1, ManifestPathIs, FoundVector
<1>3. PICK v : v = VectorsOf(t) /\ v = VectorsIn(tree)
  BY <1>2 DEF VectorsOf, VectorsIn, ManifestPath
<1>4. v \in Seq(Entries) /\ \A i \in DOMAIN v : v[i].instance \in Seq(Nat)
  BY <1>3, VectorsAre DEF Verdict
<1>5. ASSUME NEW i \in DOMAIN v
      PROVE  /\ Readable(tree, v[i])
             /\ Passes(t, v[i]) <=> AsExpected(tree, v[i])
             /\ \A j \in 1..(i - 1) : v[j].name # v[i].name
  <2>1. Runs(t, v, i)
    BY <1>3, <1>5 DEF Verdict
  <2>2. /\ \A j \in 1..(i - 1) : v[j].name # v[i].name
        /\ SafePath(v[i].schema, Schemas) /\ SafePath(v[i].instance, Conformance)
        /\ Found(t, v[i].instance) /\ Bytes(t, v[i].instance) \in Instances
        /\ v[i].schema \in SchemaNames(t)
    BY <2>1 DEF Runs
  <2>3. /\ v[i].instance \in DOMAIN JsonIn(tree, Conformance)
        /\ Bytes(t, v[i].instance) = JsonIn(tree, Conformance)[v[i].instance]
    <3>1. IsPrefix(Conformance, v[i].instance) /\ v[i].instance \in Seq(Nat)
      BY <1>4, <1>5, <2>2 DEF SafePath
    <3> QED
      BY <2>2, <3>1, FoundVector
  <2>4. Readable(tree, v[i])
    BY <1>1, <2>2, <2>3 DEF Readable, SafePath
  <2>5. Passes(t, v[i]) <=> AsExpected(tree, v[i])
    BY <1>1, <2>3 DEF Passes, AsExpected
  <2> QED
    BY <2>2, <2>4, <2>5
<1>6. \A i, j \in DOMAIN v : i # j => v[i].name # v[j].name
  <2>1. DOMAIN v = 1..Len(v) /\ Len(v) \in Nat
    BY <1>4, LenProperties
  <2>2. ASSUME NEW i \in DOMAIN v, NEW j \in DOMAIN v, i < j
        PROVE  v[i].name # v[j].name
    <3>1. i \in 1..(j - 1)
      BY <2>1, <2>2
    <3> QED
      BY <1>5, <3>1
  <2>3. \A i, j \in DOMAIN v : i # j => i < j \/ j < i
    BY <2>1
  <2> QED
    BY <2>2, <2>3
<1>7. Judged(tree)
  <2>1. /\ Loads(JsonIn(tree, Schemas))
        /\ Conformance \o ManifestName \in DOMAIN JsonIn(tree, Conformance)
        /\ JsonIn(tree, Conformance)[Conformance \o ManifestName] \in DOMAIN Vectors
    BY <1>1, <1>2 DEF ManifestPath
  <2>2. \A i \in DOMAIN v : Readable(tree, v[i])
    BY <1>5
  <2> QED
    BY <1>3, <1>6, <2>1, <2>2 DEF Judged
<1>8. ExitCode(t) = IF \A i \in DOMAIN v : Passes(t, v[i]) THEN 0 ELSE 1
  BY <1>3, ExitCodeIs
<1>9. TreeCode(tree) = IF \A i \in DOMAIN v : AsExpected(tree, v[i]) THEN 0 ELSE 1
  BY <1>3, <1>7 DEF TreeCode
<1>10. (\A i \in DOMAIN v : Passes(t, v[i])) <=> (\A i \in DOMAIN v : AsExpected(tree, v[i]))
  <2>1. \A i \in DOMAIN v : Passes(t, v[i]) <=> AsExpected(tree, v[i])
    BY <1>5
  <2> QED
    BY <2>1
<1> QED
  BY <1>7, <1>8, <1>9, <1>10

\* Over a table that can be searched, what the tree judges has a verdict.
LEMMA JudgedIs ==
  ASSUME NEW t, NEW tree, Searched(t, tree), Judged(tree)
  PROVE  Verdict(t)
<1>1. TableFor(t, tree)
  BY DEF Searched, TableFor
<1>2. SchemaNames(t) = JsonPaths(tree, Schemas)
  BY <1>1, SchemaNamesAre
<1>3. \A p \in SchemaNames(t) : Found(t, p)
  <2>1. ASSUME NEW p \in JsonPaths(tree, Schemas) PROVE Found(t, p)
    <3>1. p \in AssetPaths(DOMAIN tree)
      BY <2>1, JsonPathsAre
    <3>2. p \in Seq(Nat)
      BY <2>1, PathIsText DEF JsonPaths, Searched, Tree
    <3> QED
      BY <3>1, <3>2, FoundIs DEF Searched
  <2> QED
    BY <1>2, <2>1
<1>4. Constructs(t)
  <2>1. Catalog(t) = JsonIn(tree, Schemas)
    BY <1>1, <1>3, CatalogIs
  <2> QED
    BY <1>3, <2>1 DEF Constructs, Judged
<1>5. ASSUME NEW p, p \in DOMAIN JsonIn(tree, Conformance)
      PROVE  /\ Found(t, p) /\ Bytes(t, p) = JsonIn(tree, Conformance)[p]
             /\ p \in Paths /\ IsPrefix(Conformance, p)
  <2>1. p \in JsonPaths(tree, Conformance) /\ JsonIn(tree, Conformance)[p] = tree[p]
    BY <1>5, JsonInIs
  <2>2. p \in Paths /\ IsPrefix(Conformance, p) /\ p \in Seq(Nat)
    BY <2>1, PathIsText DEF JsonPaths, IsJson, Searched, Tree
  <2>3. Found(t, p) /\ Bytes(t, p) = tree[p]
    BY <2>1, <2>2, SearchedVector
  <2> QED
    BY <2>1, <2>2, <2>3
<1>6. Parses(t, ManifestPath, Vectors) /\ VectorsOf(t) = VectorsIn(tree)
  <2>1. Found(t, ManifestPath)
        /\ Bytes(t, ManifestPath) = JsonIn(tree, Conformance)[ManifestPath]
    BY <1>5 DEF Judged, ManifestPath
  <2> QED
    BY <2>1 DEF Judged, Parses, VectorsOf, VectorsIn, ManifestPath
<1>7. PICK v : v = VectorsOf(t) /\ v = VectorsIn(tree)
  BY <1>6
<1>8. DOMAIN v = 1..Len(v) /\ Len(v) \in Nat
  BY <1>6, <1>7, VectorsAre, LenProperties
<1>9. ASSUME NEW i \in DOMAIN v PROVE Runs(t, v, i)
  <2>1. Readable(tree, v[i])
    BY <1>7, <1>9 DEF Judged
  <2>2. \A j \in 1..(i - 1) : v[j].name # v[i].name
    <3>1. \A j \in 1..(i - 1) : j \in DOMAIN v /\ j # i
      BY <1>8, <1>9
    <3> QED
      BY <1>7, <1>9, <3>1 DEF Judged
  <2>3. Found(t, v[i].instance) /\ Bytes(t, v[i].instance) \in Instances
    BY <1>5, <2>1 DEF Readable
  <2>4. SafePath(v[i].instance, Conformance)
    BY <1>5, <2>1, Directories, SafeIs DEF Readable
  <2>5. v[i].schema \in SchemaNames(t)
    BY <1>2, <2>1, JsonInIs DEF Readable
  <2>6. SafePath(v[i].schema, Schemas)
    <3>1. v[i].schema \in Paths /\ IsPrefix(Schemas, v[i].schema)
      BY <1>2, <2>5 DEF JsonPaths, IsJson, Searched, Tree
    <3> QED
      BY <2>1, <3>1, Directories, SafeIs DEF Readable
  <2> QED
    BY <2>2, <2>3, <2>4, <2>5, <2>6 DEF Runs
<1> QED
  BY <1>4, <1>6, <1>7, <1>9 DEF Verdict

LEMMA RunIs == IInv => RunsTheTree
<1> SUFFICES ASSUME IInv, Generated
             PROVE  /\ ExitCode(assets) # 2 => ExitCode(assets) = TreeCode(files)
                    /\ OrdersAgree => ExitCode(assets) = TreeCode(files)
  BY DEF RunsTheTree
<1>1. TableFor(assets, files)
  BY GeneratedLists DEF IInv, TableFor
<1>2. ASSUME Verdict(assets) PROVE ExitCode(assets) = TreeCode(files)
  BY <1>1, <1>2, VerdictIs
<1>3. ~Verdict(assets) => ExitCode(assets) = 2
  BY ExitCodeIs
<1>4. ASSUME OrdersAgree, ~Verdict(assets) PROVE TreeCode(files) = 2
  <2>1. Searched(assets, files)
    BY <1>4, AgreedTable DEF IInv, OrdersAgree, Searched
  <2>2. ~Judged(files)
    BY <1>4, <2>1, JudgedIs
  <2> QED
    BY <2>2 DEF TreeCode
<1> QED
  BY <1>2, <1>3, <1>4

-----------------------------------------------------------------------------
(* The theorems.                                                           *)

\* The table that is generated is that of the tree it was generated from.
THEOREM TableIsOfTree == Spec => []IInv
<1>1. Init => IInv
  BY InitKeeps
<1>2. IInv /\ [Next]_vars => IInv'
  BY NextKeeps
<1> QED
  BY <1>1, <1>2, PTL DEF Spec

\* Whatever files a tree has, find_asset finds exactly the files that were
\* embedded, each with its content, as long as no two directories are ordered
\* differently by the script and by the search.
THEOREM EmbeddedIsFound == Spec => []FindsWhatIsEmbedded
<1>1. IInv => FindsWhatIsEmbedded
  BY TableIsFound
<1> QED
  BY <1>1, TableIsOfTree, PTL

\* Whatever the files of a tree and of the releases are, verify lets a table
\* pass only if its schemas and vectors are those of the release that was
\* pinned, and lets those pass where no two directories are ordered differently.
THEOREM VerifiedIsThatRelease == Spec => []VerifiedIsReleased
<1>1. IInv => VerifiedIsReleased
  BY VerifiedReleased
<1> QED
  BY <1>1, TableIsOfTree, PTL

\* Whatever a manifest lists, the paths of a profile that was verified stay in
\* its directories, are different places there, and hold what was listed; and
\* what was listed is what the pinned release lists.
THEOREM VerifiedProfilesHold == Spec => []ProfilesHold
<1>1. IInv => ProfilesHold
  BY VerifiedProfiles
<1> QED
  BY <1>1, TableIsOfTree, PTL

\* Whatever the files, the schemas and the vectors are, and whatever jsoncons
\* makes of them: a run over the table that comes to a verdict comes to that of
\* the tree, also where the search misses files; and where no two directories
\* are ordered differently every run ends as the tree says, errors included.
THEOREM RunIsOfTheTree == Spec => []RunsTheTree
<1>1. IInv => RunsTheTree
  BY RunIs
<1> QED
  BY <1>1, TableIsOfTree, PTL
=============================================================================
