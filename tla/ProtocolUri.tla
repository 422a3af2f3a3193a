----------------------------- MODULE ProtocolUri -----------------------------
(***************************************************************************)
(* Identifiers of the protocol: is_protocol_uri (src/src/schema.cpp), the  *)
(* predicate SchemaCatalog puts in the place of the validator's own "uri"  *)
(* format because identifiers need the exact syntax of RFC 3986.           *)
(*                                                                         *)
(* The code cuts a text at the first delimiters it finds and then looks at *)
(* the pieces; the grammar derives a text from a rule in any way it can.   *)
(* Texts grow a character at a time and both are asked about each of them. *)
(***************************************************************************)
EXTENDS Naturals, Sequences

CONSTANTS
  Families   \* sets of texts: how each begins, and the characters that are
             \* added to it, up to a number that bounds them

\* Characters that no rule tells apart are represented by one of them: g is a
\* letter that is no hexadecimal digit, A one that is; ^ is visible but in no
\* rule, and a space is not visible.
Letters == {"a", "A", "g", "v", "V"}
Digits == {"0", "1"}
HexDigits == {"a", "A"} \cup Digits
SubDelims == {"!", "=", "+"}
Unreserved == Letters \cup Digits \cup {"-", ".", "_", "~"}
PChars == Unreserved \cup SubDelims \cup {":", "@"}
Invisible == {" "}

ASSUME UriAssumption ==
  \A f \in Families :
    /\ f.characters \subseteq PChars \cup Invisible
                                 \cup {"%", "/", "?", "#", "[", "]", "^"}
    /\ f.begins \in Seq(f.characters)
    /\ f.length \in Nat

-----------------------------------------------------------------------------
(* is_protocol_uri.                                                        *)

SchemeCharacters == Letters \cup Digits \cup {"+", "-", "."}

\* The first place of one of C in t from the i-th on, or Len(t) + 1.
Find(t, C, i) ==
  CHOOSE n \in i..(Len(t) + 1) :
    /\ n <= Len(t) => t[n] \in C
    /\ \A k \in i..(n - 1) : t[k] \notin C

Has(t, C) == \E n \in 1..Len(t) : t[n] \in C
AllIn(t, C) == \A n \in 1..Len(t) : t[n] \in C
From(t, n) == SubSeq(t, n, Len(t))

Triplet(t, n) ==
  n + 2 <= Len(t) /\ t[n + 1] \in HexDigits /\ t[n + 2] \in HexDigits

\* has_valid_percent_triplets: the two digits are stepped over.
ValidTriplets(t) ==
  LET From_[n \in 1..(Len(t) + 3)] ==
        IF n > Len(t) THEN TRUE
        ELSE IF t[n] # "%" THEN From_[n + 1]
        ELSE Triplet(t, n) /\ From_[n + 3]
  IN From_[1]

\* component_matches.
ComponentMatches(t, allowed) ==
  LET From_[n \in 1..(Len(t) + 3)] ==
        IF n > Len(t) THEN TRUE
        ELSE IF t[n] = "%" THEN Triplet(t, n) /\ From_[n + 3]
        ELSE t[n] \in allowed /\ From_[n + 1]
  IN From_[1]

ValidScheme(t, colon) ==
  /\ colon \in 2..Len(t)
  /\ t[1] \in Letters
  /\ AllIn(SubSeq(t, 2, colon - 1), SchemeCharacters)

IsIPvFuture(t) ==
  LET dot == Find(t, {"."}, 2)
  IN /\ Len(t) >= 4
     /\ t[1] \in {"v", "V"}
     /\ dot \notin {2, Len(t), Len(t) + 1}
     /\ AllIn(SubSeq(t, 2, dot - 1), HexDigits)
     /\ AllIn(From(t, dot + 1), Unreserved \cup SubDelims \cup {":"})

\* a2i_IPADDRESS of OpenSSL, for texts too short for eight groups: groups of
\* up to four hexadecimal digits with one :: between, before or after them.
IsIPv6Address(t) ==
  LET Groups(s) ==
        /\ AllIn(s, HexDigits \cup {":"})
        /\ \A n \in 1..Len(s) : s[n] = ":" =>
             n \notin {1, Len(s)} /\ s[n - 1] # ":" /\ s[n + 1] # ":"
        /\ \A n \in 1..(Len(s) - 4) : \E k \in n..(n + 4) : s[k] = ":"
  IN \E n \in 1..(Len(t) - 1) :
       /\ t[n] = ":" /\ t[n + 1] = ":"
       /\ Groups(SubSeq(t, 1, n - 1)) /\ Groups(From(t, n + 2))

ValidPort(t) == AllIn(t, Digits)

ValidBracketed(t) ==
  LET close == Find(t, {"]"}, 1)
      literal == SubSeq(t, 2, close - 1)
      rest == From(t, close + 1)
  IN /\ close <= Len(t) /\ close # 2
     /\ ~Has(From(t, 2), {"["}) /\ ~Has(rest, {"]"})
     /\ IsIPvFuture(literal) \/ IsIPv6Address(literal)
     /\ rest = <<>> \/ (Head(rest) = ":" /\ ValidPort(Tail(rest)))

ValidHostPort(t) ==
  LET colon == Find(t, {":"}, 1)
  IN /\ ~Has(t, {"[", "]"})
     /\ ~Has(From(t, colon + 1), {":"})
     /\ ComponentMatches(SubSeq(t, 1, colon - 1), Unreserved \cup SubDelims)
     /\ ValidPort(From(t, colon + 1))

ValidAuthority(t) ==
  LET at == Find(t, {"@"}, 1)
      hostPort == IF at <= Len(t) THEN From(t, at + 1) ELSE t
  IN /\ at <= Len(t) =>
          /\ ~Has(hostPort, {"@"})
          /\ ComponentMatches(SubSeq(t, 1, at - 1),
                              Unreserved \cup SubDelims \cup {":"})
     /\ IF hostPort # <<>> /\ Head(hostPort) = "["
          THEN ValidBracketed(hostPort) ELSE ValidHostPort(hostPort)

\* is_valid_hier_part with is_valid_path_abempty, _absolute and _rootless.
ValidHierPart(t) ==
  IF Len(t) >= 2 /\ t[1] = "/" /\ t[2] = "/"
    THEN LET slash == Find(t, {"/"}, 3)
         IN /\ ValidAuthority(SubSeq(t, 3, slash - 1))
            /\ ComponentMatches(From(t, slash), PChars \cup {"/"})
  ELSE IF t # <<>> /\ t[1] = "/"
    THEN ComponentMatches(From(t, 2), PChars \cup {"/"})
  ELSE ComponentMatches(t, PChars \cup {"/"})

ValidQueryOrFragment(t) == ComponentMatches(t, PChars \cup {"/", "?"})

\* Mutant: a question mark begins a query wherever it stands.
IsProtocolUriAnyQuery(t) ==
  LET colon == Find(t, {":"}, 1)
      fragment == Find(t, {"#"}, colon + 1)
      query == Find(t, {"?"}, colon + 1)
      hasQuery == query <= Len(t)
      hierEnd == IF hasQuery THEN query ELSE fragment
  IN /\ t # <<>> /\ ~Has(t, Invisible) /\ ValidTriplets(t)
     /\ ValidScheme(t, colon)
     /\ ValidHierPart(SubSeq(t, colon + 1, hierEnd - 1))
     /\ hasQuery => ValidQueryOrFragment(SubSeq(t, query + 1, fragment - 1))
     /\ fragment <= Len(t) => ValidQueryOrFragment(From(t, fragment + 1))

IsProtocolUri(t) ==
  LET colon == Find(t, {":"}, 1)
      fragment == Find(t, {"#"}, colon + 1)
      query == Find(t, {"?"}, colon + 1)
      hasQuery == query < fragment
      hierEnd == IF hasQuery THEN query ELSE fragment
  IN /\ t # <<>> /\ ~Has(t, Invisible) /\ ValidTriplets(t)
     /\ ValidScheme(t, colon)
     /\ ValidHierPart(SubSeq(t, colon + 1, hierEnd - 1))
     /\ hasQuery => ValidQueryOrFragment(SubSeq(t, query + 1, fragment - 1))
     /\ fragment <= Len(t) => ValidQueryOrFragment(From(t, fragment + 1))

-----------------------------------------------------------------------------
(* RFC 3986, appendix A.                                                   *)

Before(t, n) == SubSeq(t, 1, n - 1)
After(t, n) == From(t, n + 1)

\* *( allowed / pct-encoded ); every rule allows hexadecimal digits.
Chars(t, allowed) ==
  \A n \in 1..Len(t) : t[n] \in allowed \/ (t[n] = "%" /\ Triplet(t, n))

Scheme(t) == t # <<>> /\ Head(t) \in Letters /\ AllIn(t, SchemeCharacters)

IPvFuture(t) ==
  /\ t # <<>> /\ Head(t) \in {"v", "V"}
  /\ \E n \in 3..(Len(t) - 1) :
       /\ t[n] = "." /\ AllIn(SubSeq(t, 2, n - 1), HexDigits)
       /\ AllIn(After(t, n), Unreserved \cup SubDelims \cup {":"})

Host(t) ==
  \/ Chars(t, Unreserved \cup SubDelims)
  \/ /\ Len(t) >= 2 /\ t[1] = "[" /\ t[Len(t)] = "]"
     /\ LET literal == SubSeq(t, 2, Len(t) - 1)
        IN IPvFuture(literal) \/ IsIPv6Address(literal)

HostPort(t) ==
  \/ Host(t)
  \/ \E n \in 1..Len(t) : t[n] = ":" /\ Host(Before(t, n)) /\ AllIn(After(t, n), Digits)

Authority(t) ==
  \/ HostPort(t)
  \/ \E n \in 1..Len(t) :
       /\ t[n] = "@" /\ Chars(Before(t, n), Unreserved \cup SubDelims \cup {":"})
       /\ HostPort(After(t, n))

Segments(t) == Chars(t, PChars \cup {"/"})
PathAbempty(t) == t # <<>> => Head(t) = "/" /\ Segments(t)
PathRootless(t) == t # <<>> /\ Head(t) # "/" /\ Segments(t)
PathAbsolute(t) == t # <<>> /\ Head(t) = "/" /\ (Tail(t) = <<>> \/ PathRootless(Tail(t)))

HierPart(t) ==
  \/ t = <<>> \/ PathRootless(t) \/ PathAbsolute(t)
  \/ /\ Len(t) >= 2 /\ t[1] = "/" /\ t[2] = "/"
     /\ \E n \in 3..(Len(t) + 1) : Authority(SubSeq(t, 3, n - 1)) /\ PathAbempty(From(t, n))

Query(t) == Chars(t, PChars \cup {"/", "?"})

HierAndQuery(t) ==
  \/ HierPart(t)
  \/ \E n \in 1..Len(t) : t[n] = "?" /\ HierPart(Before(t, n)) /\ Query(After(t, n))

Relative(t) ==
  \/ HierAndQuery(t)
  \/ \E n \in 1..Len(t) : t[n] = "#" /\ HierAndQuery(Before(t, n)) /\ Query(After(t, n))

Uri(t) ==
  \E n \in 1..Len(t) : t[n] = ":" /\ Scheme(Before(t, n)) /\ Relative(After(t, n))

-----------------------------------------------------------------------------
VARIABLES text, family

Init == family \in Families /\ text = family.begins

Type(c) ==
  /\ Len(text) < Len(family.begins) + family.length
  /\ text' = Append(text, c)
  /\ UNCHANGED family

Next == \E c \in family.characters : Type(c)

Spec == Init /\ [][Next]_<<text, family>>
-----------------------------------------------------------------------------
\* An identifier is accepted exactly if it is a URI of RFC 3986: cutting at the
\* first delimiters neither misses a derivation nor lets one piece hide what
\* belongs to the next.
AcceptsTheGrammar == IsProtocolUri(text) <=> Uri(text)
=============================================================================
