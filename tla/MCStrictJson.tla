---------------------------- MODULE MCStrictJson ----------------------------
(***************************************************************************)
(* Three alphabets: structure, numbers and literals, with nesting cut off  *)
(* at two; names with every kind of escape; and halves of code points.     *)
(***************************************************************************)
EXTENDS StrictJson

Family(begins, symbols, length, points, failed) ==
  [begins |-> begins, symbols |-> symbols, length |-> length,
   decoded |-> points, beyond |-> failed]

OfNumbers == Numbers \ {"J"}

\* A member is there; the name of another is being spelt.
OfNames == {Quote, "{", "}", ":", ","} \cup (Strings \ {"E000"})

\* Halves of code points, in any order, with backslashes around them.
OfHalves == {Quote, Escape, "u", "D800", "DC00"}

MCFamilies ==
  {Family(<<>>, OfNumbers, 6, 1, 1)}
  \cup
  {Family(begins, OfNumbers, 5, 1, 1) :
     begins \in {<<"[", "[">>, <<"{", Quote, Quote, ":", "0">>}}
  \cup
  {Family(<<"{", Quote>> \o name \o <<Quote, ":", "{", "}", ",">>,
          OfNames, 10, 1, 0) :
     name \in {<<>>, <<"J">>, <<Escape, Quote>>, <<"wide">>, <<Escape, "n">>}}
  \cup
  {Family(begins, OfHalves, 7, 9, 9) :
     begins \in {<<Quote>>, <<Quote, Escape>>, <<Quote, Escape, "u", "D800">>}}
=============================================================================
