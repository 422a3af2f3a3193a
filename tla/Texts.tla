------------------------------- MODULE Texts -------------------------------
(***************************************************************************)
(* The searches and comparisons of std::string_view and std::vector.       *)
(***************************************************************************)
EXTENDS Integers, SequencesExt

Drop(text, count) == SubSeq(text, count + 1, Len(text))

\* Where c is first found, one beyond the end if nowhere.
Find(text, c) ==
  LET found == SelectInSeq(text, LAMBDA x : x = c)
  IN IF found = 0 THEN Len(text) + 1 ELSE found

\* The parts of text between the separators, and of what comes before.
Split(text, separator) ==
  LET parts[n \in 0..Len(text)] ==
        IF n = 0 THEN <<<<>>>>
        ELSE LET before == parts[n - 1] IN
          IF text[n] = separator THEN Append(before, <<>>)
          ELSE [before EXCEPT ![Len(before)] = Append(@, text[n])]
  IN parts[Len(text)]

\* operator< of vectors and of strings.
LexicallyLess(a, b) ==
  \/ IsStrictPrefix(a, b)
  \/ \E i \in DOMAIN a \cap DOMAIN b :
       a[i] < b[i] /\ \A j \in 1..(i - 1) : a[j] = b[j]
=============================================================================
