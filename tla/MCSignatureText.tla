-------------------------- MODULE MCSignatureText --------------------------
(***************************************************************************)
(* A curve of eight times thirteen points over 101 elements, encoded in    *)
(* two bytes of four bits. The first places of a text hold a point, the    *)
(* later ones the bits of scalars next to the order, and bits to spare.    *)
(***************************************************************************)
EXTENDS SignatureText

MCSymbols == 0..7 \cup {Padding, Foreign}
MCLater == {0, 1, 4, 5}

\* Points of order two and four, and one that generates all others.
MCAddends == {<<0, 100>>, <<10, 0>>, <<16, 3>>}
=============================================================================
