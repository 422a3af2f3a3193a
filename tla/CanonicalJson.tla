--------------------------- MODULE CanonicalJson ---------------------------
(***************************************************************************)
(* canonical_json of src/src/canonical.cpp: the text of RFC 8785 that is   *)
(* hashed, signed and compared. A value grows: as in CanonicalText, or by  *)
(* elements of an array and members of an object, and a value becomes part *)
(* of another. In every state its text is held to a reader that knows the  *)
(* grammar of JSON and the order RFC 8785 states.                          *)
(*                                                                         *)
(* Texts are sequences of code points; that UTF-8 is decoded once and for  *)
(* all is what Unicode shows. An object is a function from its names.      *)
(***************************************************************************)
EXTENDS CanonicalText, Utf, TLC

CONSTANTS
  Names,       \* the names of members
  Leaves,      \* the values put into arrays and objects
  MaxSize      \* bound: the elements and members of a value, at all depths

ASSUME CanonicalAssumption == MaxSize \in Nat

Comma == 44
Colon == 58

Null == [kind |-> "null"]
Bool(truth) == [kind |-> "bool", truth |-> truth]
Array(elements) == [kind |-> "array", elements |-> elements]
Object(members) == [kind |-> "object", members |-> members]
-----------------------------------------------------------------------------
(* serialize. Arrays and objects are joined from the texts of their parts; *)
(* a part may have several texts as long as nothing says it has one.       *)

Units(name) == FlattenSeq([i \in DOMAIN name |-> Utf16Units(name[i])])

Bytes(name) == FlattenSeq([i \in DOMAIN name |-> AppendUtf8(name[i])])

\* Mutant: members are ordered as jsoncons keeps them, by the bytes of names.
ByBytes(left, right) == LexicallyLess(Bytes(left), Bytes(right))

Ordered(left, right) ==
  IF Units(left) = Units(right) THEN LexicallyLess(Bytes(left), Bytes(right))
  ELSE LexicallyLess(Units(left), Units(right))

\* std::ranges::sort: in any order in which no name is before an earlier one.
Sorted(names) ==
  {order \in SetToSeqs(names) :
     \A i, j \in DOMAIN order : i < j => ~Ordered(order[j], order[i])}

Joined(open, parts, close) ==
  <<open>>
  \o FlattenSeq([i \in DOMAIN parts |->
       IF i = 1 THEN parts[i] ELSE <<Comma>> \o parts[i]])
  \o <<close>>

RECURSIVE Serialize(_)
Serialize(v) ==
  CASE v.kind = "null" -> {<<110, 117, 108, 108>>}
    [] v.kind = "bool" ->
         {IF v.truth THEN <<116, 114, 117, 101>>
          ELSE <<102, 97, 108, 115, 101>>}
    [] v.kind = "number" -> NumberTexts(v)
    [] v.kind = "string" -> {EscapedString(v.text)}
    [] v.kind = "array" ->
         LET texts == [i \in DOMAIN v.elements |->
                         Serialize(v.elements[i])]
         IN {Joined(91, parts, 93) :
               parts \in {p \in [DOMAIN texts -> UNION Range(texts)] :
                            \A i \in DOMAIN p : p[i] \in texts[i]}}
    [] v.kind = "object" ->
         LET texts == [name \in DOMAIN v.members |->
                         Serialize(v.members[name])]
             choices == {c \in [DOMAIN texts -> UNION Range(texts)] :
                           \A name \in DOMAIN c : c[name] \in texts[name]}
         IN {Joined(123, [i \in DOMAIN order |->
                            EscapedString(order[i]) \o <<Colon>>
                            \o chosen[order[i]]], 125) :
               order \in Sorted(DOMAIN texts), chosen \in choices}

-----------------------------------------------------------------------------
RECURSIVE Size(_)
Size(v) ==
  IF v.kind = "array"
    THEN FoldLeft(LAMBDA sum, e : sum + 1 + Size(e), 0, v.elements)
  ELSE IF v.kind = "object"
    THEN MapThenSumSet(LAMBDA name : 1 + Size(v.members[name]),
                       DOMAIN v.members)
  ELSE 0

Init ==
  \/ InitLeaf
  \/ value \in {Null, Bool(TRUE), Bool(FALSE), Array(<<>>), Object(<<>>)}

PutElement(element) ==
  /\ value.kind = "array"
  /\ Size(value) + 1 + Size(element) <= MaxSize
  /\ value' = Array(Append(value.elements, element))

PutMember(name, member) ==
  /\ value.kind = "object"
  /\ name \notin DOMAIN value.members
  /\ Size(value) + 1 + Size(member) <= MaxSize
  /\ value' = Object((name :> member) @@ value.members)

\* The value becomes a part of another.
Enclose ==
  /\ value.kind \in {"array", "object"}
  /\ Size(value) < MaxSize
  /\ \/ value' = Array(<<value>>)
     \/ \E name \in Names : value' = Object(name :> value)

Next ==
  \/ NextLeaf
  \/ \E leaf \in Leaves :
       \/ PutElement(leaf)
       \/ \E name \in Names : PutMember(name, leaf)
  \/ Enclose

Spec == Init /\ [][Next]_value
-----------------------------------------------------------------------------
(* An array or object is cut where a comma or colon stands in no string    *)
(* and in no other value.                                                  *)

\* mode: 0 outside strings, 1 inside, 2 after a backslash.
ReadOn(s, c) ==
  LET mode == IF s.mode = 2 THEN 1
              ELSE IF c = Quote THEN 1 - s.mode
              ELSE IF c = Escape THEN 2
              ELSE s.mode
      depth == IF s.mode = 0 /\ c \in {91, 123} THEN s.depth + 1
               ELSE IF s.mode = 0 /\ c \in {93, 125} THEN s.depth - 1
               ELSE s.depth
  IN [mode |-> mode, depth |-> depth,
      parts |-> IF s.mode = 0 /\ s.depth = 0 /\ c \in {Comma, Colon}
                THEN Append(s.parts, <<>>)
                ELSE [s.parts EXCEPT ![Len(s.parts)] = Append(@, c)]]

\* The parts between the outermost brackets.
Parts(text) ==
  IF Len(text) = 2 THEN <<>>
  ELSE FoldLeft(ReadOn, [mode |-> 0, depth |-> 0, parts |-> <<<<>>>>],
                SubSeq(text, 2, Len(text) - 1)).parts

\* The order of RFC 8785, 3.2.3, as code points: those beyond the basic plane
\* are before its last part, from E000, and after all the rest of it.
Before(a, b) ==
  \/ IsStrictPrefix(a, b)
  \/ \E i \in DOMAIN a \cap DOMAIN b :
       /\ a[i] # b[i] /\ \A j \in 1..(i - 1) : a[j] = b[j]
       /\ IF a[i] > 65535 /\ b[i] <= 65535 THEN b[i] >= 57344
          ELSE IF a[i] <= 65535 /\ b[i] > 65535 THEN a[i] < 57344
          ELSE a[i] < b[i]

RECURSIVE Reads(_, _)
Reads(text, v) ==
  CASE v.kind = "null" -> text = <<110, 117, 108, 108>>
    [] v.kind = "bool" -> text = IF v.truth THEN <<116, 114, 117, 101>>
                                 ELSE <<102, 97, 108, 115, 101>>
    [] v.kind = "number" -> NumberReads(text, v)
    [] v.kind = "string" -> StringReads(text, v.text)
    [] v.kind = "array" ->
         LET parts == Parts(text)
         IN /\ text[1] = 91 /\ Last(text) = 93
            /\ Len(parts) = Len(v.elements)
            /\ \A i \in DOMAIN parts : Reads(parts[i], v.elements[i])
    [] v.kind = "object" ->
         LET parts == Parts(text)
             names == [i \in 1..(Len(parts) \div 2) |->
                         LET read == StringRead(parts[2 * i - 1])
                         IN [j \in DOMAIN read |-> read[j].c]]
         IN /\ text[1] = 123 /\ Last(text) = 125
            /\ Len(parts) = 2 * Cardinality(DOMAIN v.members)
            /\ Range(names) = DOMAIN v.members
            /\ \A i, j \in DOMAIN names : i < j => Before(names[i], names[j])
            /\ \A i \in DOMAIN names :
                 /\ StringReads(parts[2 * i - 1], names[i])
                 /\ Reads(parts[2 * i], v.members[names[i]])

-----------------------------------------------------------------------------
\* Arrays and objects have one text each, whatever order their members are
\* kept in; it reads back as the value, and at every depth its members stand
\* in the order of RFC 8785.
PartsInOrder ==
  value.kind \in {"array", "object"} =>
    /\ Cardinality(Serialize(value)) = 1
    /\ \A text \in Serialize(value) : Reads(text, value)
=============================================================================
