--------------------------- MODULE SchemaCatalog ---------------------------
(***************************************************************************)
(* SchemaCatalog::validate (src/src/schema.cpp). jsoncons does not know    *)
(* the exact syntax of identifiers: the catalog puts a format of its own,  *)
(* which jsoncons takes for an annotation, where common.schema.json has    *)
(* "uri", and looks for the strings it annotates in a walk of its own      *)
(* before it lets jsoncons validate. The walk knows nothing of which       *)
(* alternative of a schema holds.                                          *)
(*                                                                         *)
(* A schema is a keyword, or several that have to hold together; keywords  *)
(* the identifiers of a document do not depend on are left out. The        *)
(* schemas are those of src/schemas in which an identifier stands in an    *)
(* alternative, under a condition, in a list, beside another format, or is *)
(* the name of a member.                                                   *)
(***************************************************************************)
EXTENDS ProtocolUri, FiniteSets

CONSTANTS
  Documents(_),   \* documents that hold a text, each with its schema's name
  LibraryUri(_)   \* what jsoncons takes for a "uri"

Text(t) == [kind |-> "string", text |-> t]
Record(members) == [kind |-> "object", members |-> members]   \* by name
List(elements) == [kind |-> "array", elements |-> elements]
Number == [kind |-> "number"]
Boolean == [kind |-> "boolean"]

-----------------------------------------------------------------------------
(* Schemas. Words of enumerations are single letters. The names of members *)
(* are strings where a schema knows them, texts where it does not.         *)

Kind(kind) == [word |-> "type", kind |-> kind]
Word(word) == [word |-> "const", value |-> Text(<<word>>)]
Pattern(name) == [word |-> "pattern", name |-> name]
Format(place, name) == [word |-> "format", place |-> place, name |-> name]
Ref(to) == [word |-> "ref", to |-> to]
AllOf(schemas) == [word |-> "allOf", schemas |-> schemas]
AnyOf(schemas) == [word |-> "anyOf", schemas |-> schemas]
OneOf(schemas) == [word |-> "oneOf", schemas |-> schemas]
Not(schema) == [word |-> "not", schemas |-> <<schema>>]
IfElse(condition, consequence, otherwise) ==
  [word |-> "if", schemas |-> <<condition, consequence, otherwise>>]
Properties(members) == [word |-> "properties", members |-> members]
Required(names) == [word |-> "required", names |-> names]
Only(names) == [word |-> "additionalProperties", names |-> names]
Each(schema) == [word |-> "each", schemas |-> <<schema>>]
PropertyNames(schema) == [word |-> "propertyNames", schemas |-> <<schema>>]
Items(schema) == [word |-> "items", schemas |-> <<schema>>]
Unique == [word |-> "uniqueItems"]

Anything == AllOf(<<>>)
IfThen(condition, consequence) == IfElse(condition, consequence, Anything)

\* An object of exactly these members.
Closed(members) ==
  AllOf(<<Kind("object"), Required(DOMAIN members), Only(DOMAIN members),
          Properties(members)>>)

\* common.schema.json, with a name for the format of identifiers.
Identifier(format) ==
  AllOf(<<Kind("string"), Format("common/id", format),
          Pattern("scheme"), Pattern("characters")>>)

\* Members of any names that a schema allows, each an extension.
Extensions(names) ==
  AllOf(<<Kind("object"), PropertyNames(names),
          Each(Closed([version |-> Kind("string"), critical |-> Kind("boolean"),
                       data |-> Anything]))>>)

Definitions(format) ==
  [id |-> Identifier(format),
   sha256 |-> AllOf(<<Kind("string"), Pattern("hash")>>),
   base64url |-> AllOf(<<Kind("string"), Pattern("base64url")>>),
   actor |-> Closed([type |-> AnyOf(<<Word("a"), Word("g")>>), id |-> Ref("id")]),
   agentActor |-> Closed([type |-> Word("a"), id |-> Ref("id")]),
   humanActor |-> Closed([type |-> Word("g"), id |-> Ref("id")]),
   extensions |-> Extensions(Ref("id"))]

\* An identifier, or a hash in its place.
Evidence ==
  Properties([subject |-> Closed([type |-> Word("a"),
                                  id |-> AnyOf(<<Ref("id"), Ref("sha256")>>)])])

\* Two actors of which one is required under a condition.
Approval ==
  AllOf(<<Properties([kind |-> AnyOf(<<Word("a"), Word("g")>>),
                      approver |-> Ref("actor")]),
          Required({"kind", "approver"}),
          IfThen(AllOf(<<Properties([kind |-> Word("g")]), Required({"kind"})>>),
                 Properties([approver |-> Ref("humanActor")]))>>)

\* An actor of one kind in a part, of another kind in the whole.
Mission ==
  AllOf(<<Properties([missionOwner |-> Ref("actor"),
                      parent |-> Properties([missionId |-> Ref("id")])]),
          Required({"missionOwner"}),
          IfElse(Not(Required({"parent"})),
                 Properties([missionOwner |-> Ref("humanActor")]),
                 Properties([missionOwner |-> Ref("agentActor")]))>>)

\* Identifiers as names, as in eleven other schemas.
Command == Properties([actionId |-> Ref("id"), extensions |-> Ref("extensions")])

GroupSnapshot ==
  Properties([eventIds |-> AllOf(<<Kind("array"), Items(Ref("id")), Unique>>)])

\* A "uri" that is not an identifier, beside free text.
Message ==
  Properties([content |->
    AllOf(<<Kind("array"),
            Items(OneOf(<<
              Closed([type |-> Word("a"), text |-> Kind("string")]),
              Closed([type |-> Word("g"), hash |-> Ref("sha256")]),
              Closed([type |-> Word("v"),
                      schema |-> AllOf(<<Kind("string"),
                                         Format("message", "uri")>>)])>>))>>)])

\* Frames of which only a word says what each is.
WebsocketFrame ==
  OneOf(<<
    Closed([frameId |-> Ref("id"), frameType |-> Word("a"),
            phase |-> Word("a"), keyId |-> Ref("id"), nonce |-> Ref("base64url")]),
    Closed([frameId |-> Ref("id"), frameType |-> Word("a"),
            phase |-> Word("g"), nonce |-> Ref("base64url")]),
    Closed([frameId |-> Ref("id"), frameType |-> Word("g"),
            nonce |-> Ref("base64url")]),
    Closed([frameId |-> Ref("id"), frameType |-> Word("v"),
            presence |-> Closed([agentId |-> Ref("id")])])>>)

Catalog ==
  [evidence |-> Evidence, approval |-> Approval, mission |-> Mission,
   command |-> Command, snapshot |-> GroupSnapshot, message |-> Message,
   frame |-> WebsocketFrame]

-----------------------------------------------------------------------------
(* jsoncons: the regular expressions, the keywords, and the walk.          *)

Matches(name, t) ==
  CASE name = "scheme" -> \E n \in DOMAIN t : t[n] = ":" /\ Scheme(Before(t, n))
    [] name = "characters" -> ~Has(t, Invisible \cup {"^"})
    [] name = "hash" -> /\ Len(t) > 2 /\ t[1] = "a" /\ t[2] = ":"
                        /\ AllIn(From(t, 3), HexDigits)
    [] name = "base64url" -> /\ Len(t) >= 2
                             /\ AllIn(t, Letters \cup Digits \cup {"-", "_"})

\* A format that has no validator is an annotation.
FormatHolds(name, t) ==
  CASE name = "uri" -> LibraryUri(t)
    [] name = "rfc3986" -> Uri(t)
    [] OTHER -> TRUE

RECURSIVE Accepts(_, _, _)
Accepts(definitions, s, value) ==
  LET holds(i) == Accepts(definitions, s.schemas[i], value)
  IN CASE s.word = "type" -> value.kind = s.kind
       [] s.word = "const" -> value = s.value
       [] s.word = "pattern" -> value.kind = "string" => Matches(s.name, value.text)
       [] s.word = "format" -> value.kind = "string" => FormatHolds(s.name, value.text)
       [] s.word = "ref" -> Accepts(definitions, definitions[s.to], value)
       [] s.word = "allOf" -> \A i \in DOMAIN s.schemas : holds(i)
       [] s.word = "anyOf" -> \E i \in DOMAIN s.schemas : holds(i)
       [] s.word = "oneOf" -> Cardinality({i \in DOMAIN s.schemas : holds(i)}) = 1
       [] s.word = "not" -> ~holds(1)
       [] s.word = "if" -> IF holds(1) THEN holds(2) ELSE holds(3)
       [] s.word = "properties" ->
            value.kind = "object" =>
              \A name \in DOMAIN s.members \cap DOMAIN value.members :
                Accepts(definitions, s.members[name], value.members[name])
       [] s.word = "required" -> value.kind = "object" => s.names \subseteq DOMAIN value.members
       [] s.word = "additionalProperties" ->
            value.kind = "object" => DOMAIN value.members \subseteq s.names
       [] s.word = "each" ->
            value.kind = "object" =>
              \A name \in DOMAIN value.members :
                Accepts(definitions, s.schemas[1], value.members[name])
       [] s.word = "propertyNames" ->
            value.kind = "object" =>
              \A name \in DOMAIN value.members :
                Accepts(definitions, s.schemas[1], Text(name))
       [] s.word = "items" ->
            value.kind = "array" =>
              \A i \in DOMAIN value.elements :
                Accepts(definitions, s.schemas[1], value.elements[i])
       [] s.word = "uniqueItems" ->
            value.kind = "array" =>
              \A i, j \in DOMAIN value.elements :
                value.elements[i] = value.elements[j] => i = j

\* The strings at the formats the walk comes to, each with its format's place.
\* Of the alternatives it goes into all, or only into those that hold; into the
\* names of members, or not. No format stands in what must not hold.
RECURSIVE Walk(_, _, _, _)
Walk(definitions, s, value, way) ==
  LET into(schema, part) == Walk(definitions, schema, part, way)
      walked(i) == into(s.schemas[i], value)
      names == IF value.kind = "object" THEN DOMAIN value.members ELSE {}
      entered == {i \in DOMAIN s.schemas :
                    way.all \/ Accepts(definitions, s.schemas[i], value)}
  IN CASE s.word = "format" ->
            IF value.kind = "string" THEN {<<s.place, value.text>>} ELSE {}
       [] s.word = "ref" -> into(definitions[s.to], value)
       [] s.word = "allOf" -> UNION {walked(i) : i \in DOMAIN s.schemas}
       [] s.word \in {"anyOf", "oneOf"} -> UNION {walked(i) : i \in entered}
       [] s.word = "if" ->
            IF way.all THEN walked(1) \cup walked(2) \cup walked(3)
            ELSE IF 1 \in entered THEN walked(1) \cup walked(2) ELSE walked(3)
       [] s.word = "properties" ->
            UNION {into(s.members[name], value.members[name]) :
                     name \in DOMAIN s.members \cap names}
       [] s.word = "each" ->
            UNION {into(s.schemas[1], value.members[name]) : name \in names}
       [] s.word = "propertyNames" ->
            IF way.names THEN UNION {into(s.schemas[1], Text(name)) : name \in names}
            ELSE {}
       [] s.word = "items" ->
            IF value.kind # "array" THEN {}
            ELSE UNION {into(s.schemas[1], value.elements[i]) :
                          i \in DOMAIN value.elements}
       [] OTHER -> {}

-----------------------------------------------------------------------------
(* SchemaCatalog, and the frames of FrameCodec.                            *)

\* The catalog compiles its schemas with the identifiers' format replaced.
Compiled == Definitions("missionweaveprotocol-uri")

\* Mutant: the text after an escape is not looked at.
PrevalidatesTriplets(walked) ==
  \A w \in walked : w[1] = "common/id" => ValidTriplets(w[2])

\* prevalidate_identifier_uris finds no issue.
Prevalidates(walked) ==
  \A w \in walked :
    w[1] = "common/id" => ValidTriplets(w[2]) /\ IsProtocolUri(w[2])

\* What validate may answer, if the walk goes into names or does not.
Validate(name, document, names) ==
  {LET way == [all |-> all, names |-> names]
   IN /\ Prevalidates(Walk(Compiled, Catalog[name], document, way))
      /\ Accepts(Compiled, Catalog[name], document) : all \in BOOLEAN}

\* Whether decode and encode take a document for a frame.
TakenForFrame(document, names) ==
  {document.kind = "object" /\ valid : valid \in Validate("frame", document, names)}

-----------------------------------------------------------------------------
\* The schemas as they are written, read by a validator whose "uri" is exact.
Exact == Definitions("rfc3986")

\* The same, but that a name of a member may be any text with the characters
\* of an identifier and a scheme.
ExactButNames ==
  [Exact EXCEPT !.extensions = Extensions(Identifier("annotation"))]

Meaning(name, document, names) ==
  Accepts(IF names THEN Exact ELSE ExactButNames, Catalog[name], document)

\* A document is valid exactly if its schema says so with identifiers that are
\* URIs of RFC 3986, though the walk applies the predicate to texts that stand
\* in alternatives that do not hold: in place of an identifier every schema
\* allows nothing but URIs, and no other "uri" is taken for an identifier. It
\* is so for the identifiers that are names of members (of extensions) if the
\* walk of jsoncons goes into them; if it does not, then those, and nothing
\* else, are held to the expressions of the schema alone.
DecidesAsTheSchema ==
  \A names \in BOOLEAN : \A d \in Documents(text) :
    (IF d.schema = "frame" THEN TakenForFrame(d.document, names)
     ELSE Validate(d.schema, d.document, names))
      = {Meaning(d.schema, d.document, names)}
=============================================================================
