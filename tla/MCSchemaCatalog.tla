-------------------------- MODULE MCSchemaCatalog --------------------------
(***************************************************************************)
(* All short texts over one character of each class, and all short         *)
(* authorities, which have the most rules; and documents that hold a text  *)
(* where an identifier, a hash, a name of a member or something else may   *)
(* stand.                                                                  *)
(***************************************************************************)
EXTENDS SchemaCatalog

Family(begins, characters, length) ==
  [begins |-> begins, characters |-> characters, length |-> length]

Any == {"a", "1", "g", "!", "-", "%", ":", "/", "?", "#", "@", "[", "^", " "}

OfAuthorities == {"a", "1", "v", ".", "%", ":", "/", "@", "[", "]"}

MCFamilies ==
  {Family(<<>>, Any, 4), Family(<<"a", ":">>, Any, 4),
   Family(<<"a", ":", "/", "/">>, OfAuthorities, 5),
   Family(<<"a", ":", "/", "/", "[">>, OfAuthorities, 5)}

\* jsoncons asks for a scheme and for no more.
MCLibraryUri(t) == \E n \in DOMAIN t : t[n] = ":" /\ Scheme(Before(t, n))

-----------------------------------------------------------------------------
Name == Text(<<"a", ":">>)
Nonce == Text(<<"a", "1">>)
W(word) == Text(<<word>>)

Held(schema, document) == [schema |-> schema, document |-> document]

Owner(type, id) == Record([type |-> W(type), id |-> id])

Approved(kind, actor, id) ==
  Held("approval", Record([kind |-> W(kind), approver |-> Owner(actor, id)]))

Content(element) ==
  Held("message", Record([content |-> List(<<Record([type |-> W("a"), text |-> Nonce]),
                                             Record(element)>>)]))

Frame(members) == Held("frame", Record(members))

Owned(mission) == Held("mission", Record(mission))

\* A command with extensions of these names.
Extended(names, data) ==
  LET extension == Record([version |-> Nonce, critical |-> Boolean, data |-> data])
  IN Held("command", Record([actionId |-> Name,
            extensions |-> Record([name \in names |-> extension])]))

\* Bounds: longer texts, with a scheme and without, are in no document.
MaxHeld == 4
MaxHeldBare == 3

MCDocuments(t) ==
  LET x == Text(t) IN
  IF Len(t) > (IF MCLibraryUri(t) THEN MaxHeld ELSE MaxHeldBare) THEN {} ELSE
  {Held("evidence", Record([subject |-> Record([type |-> W("a"), id |-> x])])),
   Approved("a", "a", x), Approved("g", "g", x), Approved("g", "a", x),
   Owned([missionOwner |-> Owner("g", x)]), Owned([missionOwner |-> Owner("a", x)]),
   Owned([missionOwner |-> Owner("a", x), parent |-> Record([missionId |-> Name])]),
   Owned([missionOwner |-> Owner("a", Name), parent |-> Record([missionId |-> x])]),
   Extended({t}, Number), Extended({Name.text, t}, Number), Extended({Name.text}, x),
   Held("command", Record([actionId |-> x, extensions |-> Record([n \in {t} |-> x])])),
   Held("snapshot", Record([eventIds |-> List(<<Name, x>>)])),
   Content([type |-> W("a"), text |-> x]), Content([type |-> W("g"), hash |-> x]),
   Content([type |-> W("v"), schema |-> x]), Content([type |-> W("v"), schema |-> Number]),
   Frame([frameId |-> x, frameType |-> W("g"), nonce |-> Nonce]),
   Frame([frameId |-> Name, frameType |-> W("g"), nonce |-> x]),
   Frame([frameId |-> Name, frameType |-> W("a"), phase |-> W("a"), keyId |-> x, nonce |-> Nonce]),
   Frame([frameId |-> Name, frameType |-> W("a"), phase |-> W("g"), keyId |-> x, nonce |-> Nonce]),
   Frame([frameId |-> Name, frameType |-> W("v"), presence |-> Record([agentId |-> x])]),
   Held("frame", List(<<x>>))}
=============================================================================
