-------------------------- MODULE MCCanonicalJson --------------------------
(***************************************************************************)
(* Points on either side of each change of a number's form, and where its  *)
(* exponent has another digit; characters on either side of each rule for  *)
(* strings; names that UTF-16, UTF-8 and code points order differently.    *)
(***************************************************************************)
EXTENDS CanonicalJson

MCDigits == {49, 57}

MCPlaces == (-8..24) \cup {-323, -99, -98, -10, -9, 100, 101, 309}

MCCharacters == {0, 8, 9, 10, 11, 12, 13, 26, 31, 32, 34, 47, 92, 117, 127,
                 128, 65535, 65536}

\* Prefixes, and the ends of the basic plane and of its gap.
MCNames == {<<>>, <<97>>, <<97, 34>>, <<55295>>, <<57344>>, <<65535>>,
            <<65536>>, <<65537>>, <<1114111>>, <<97, 65536>>, <<97, 65535>>}

MCLeaves == {String(<<Quote, Escape, Comma>>), Number(TRUE, <<49, 49>>, 1)}
=============================================================================
