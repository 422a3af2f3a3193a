--------------------------- MODULE SignedDocument ---------------------------
(***************************************************************************)
(* SignedDocumentCodec (src/src/signed_document.cpp): documents signed by  *)
(* several holders of keys, carried by anything, and verified by calls     *)
(* that each consult a KeyResolver while the Registry grows.               *)
(*                                                                         *)
(* verify calls out of the codec once, to the resolver.  What precedes     *)
(* that call (parse, schema, signature_envelope) is the action Receive and *)
(* what follows it (the rest of key_resolution, canonicalization,          *)
(* signature) the action Resolve; the Registry may change in between.      *)
(*                                                                         *)
(* Only the payload, a document without its signature member, is signed.   *)
(* A document in transit is a payload, the form of its text and a          *)
(* signature member; carriers may lose, repeat, delay, respell and         *)
(* recombine all three.  Signatures are ideal: a value verifies for the    *)
(* public key and the payload it was made for, and making one takes the    *)
(* key, whose holder may make any number for one payload: each takes a     *)
(* nonce, which gives it an R and S of its own, and verify accepts all.    *)
(***************************************************************************)
EXTENDS Naturals, Sequences

CONSTANTS
  Calls,         \* calls of verify
  Payloads,      \* canonical forms of documents without a signature
  Says,          \* payload -> PayloadTypes
  Keys,          \* keyIds
  Principals,    \* principals of any type
  Services,      \* the principals of type "service"
  Publics,       \* Ed25519 public keys, each standing for its seed too
  Nonces,        \* what tells the signatures of one payload by one key apart
  Texts,         \* timestamps as they are spelt
  Reads,         \* text -> what parse_instant makes of it, or Malformed
  SigningKeys,   \* the SigningKey objects that sign is given: the one of the
                 \* library derives its nonces, one that draws them is several
  Declarations,  \* what may be appended to the Registry
  Deliveries,    \* the documents carriers may deliver
  MaxVersion,    \* bound: declarations in the Registry
  Malformed,
  None

Kinds == {"agent_card", "approval", "artifact", "command", "context_package",
          "event", "evidence", "extension_profile", "group_snapshot"}

Stages == {"parse", "schema", "signature_envelope", "key_resolution",
           "canonicalization", "signature"}

\* kind is the one kind whose schema the payload meets, signer the principal
\* its signer field names, time its protected time.  A payload may be nested
\* deeper than the strict parser goes, and hold what RFC 8785 cannot encode.
PayloadTypes ==
  [kind: Kinds, signer: Principals, time: Texts, deep: BOOLEAN,
   encodable: BOOLEAN]

\* Signatures are made for a payload with a key and a nonce.
Signatures == Publics \X Payloads \X Nonces

\* Ed25519 signatures in base64url: in the canonical spelling, in another one
\* of the same bytes, of bytes that are no strict R and S, or of an R and S
\* that are a signature of nothing.
Values == [public: Publics, payload: Payloads, nonce: Nonces,
           form: {"strict", "respelt", "unsound", "stray"}]

\* The schema fixes the algorithm and allows no other member.
Envelopes == [key: Keys, createdAt: Texts, value: Values]

\* A surrogate text would be JSON but for unpaired surrogates.
Documents == [payload: Payloads, text: {"json", "surrogate", "malformed"},
              signature: Envelopes]

\* A binding as one declaration gives it: its validity ends at `end'.
DeclarationTypes ==
  [key: Keys, principal: Principals, public: Publics, from: Nat, end: Nat]

ASSUME CodecAssumption ==
  /\ Says \in [Payloads -> PayloadTypes]
  /\ Reads \in [Texts -> [at: Nat, z: BOOLEAN] \cup {Malformed}]
  /\ SigningKeys \subseteq [id: Keys, public: Publics, nonce: Nonces]
  /\ Declarations \subseteq DeclarationTypes
  /\ Deliveries \subseteq [kind: Kinds, document: Documents]
  /\ Services \subseteq Principals
  /\ MaxVersion \in Nat
  /\ Malformed \notin [at: Nat, z: BOOLEAN]
  /\ None \notin [kind: Kinds, document: Documents] \cup DeclarationTypes
                   \cup Stages

-----------------------------------------------------------------------------
VARIABLES
  registry,  \* the declarations appended to the Registry
  signed,    \* the signatures that were ever made
  issued,    \* what sign returned: its kind, key and document
  pc,        \* call -> where it is, or how it ended
  given,     \* call -> the kind and document it was called with
  resolved,  \* call -> the declaration its key was resolved to
  stage      \* call -> the stage its diagnostic names

vars == <<registry, signed, issued, pc, given, resolved, stage>>

Init ==
  /\ registry = <<>>
  /\ signed = {}
  /\ issued = {}
  /\ pc = [c \in Calls |-> "idle"]
  /\ given = [c \in Calls |-> None]
  /\ resolved = [c \in Calls |-> None]
  /\ stage = [c \in Calls |-> None]

-----------------------------------------------------------------------------
(* Signing.                                                                *)

TimeOf(p) == Says[p].time
Parses(t) == Reads[t] # Malformed
EndsWithZ(t) == Parses(t) /\ Reads[t].z
InstantOf(p) == Reads[TimeOf(p)].at

\* Mutant: the spelling of the protected time is not looked at.
SignableAnyTime(kind, p) ==
  Parses(TimeOf(p)) /\ Says[p].kind = kind /\ Says[p].encodable

\* What sign asks of its arguments.  The payload is a value already: how deep
\* it is nested is not asked, nor whose field names the signer.
Signable(kind, p) ==
  /\ Parses(TimeOf(p)) /\ EndsWithZ(TimeOf(p))
  /\ Says[p].kind = kind
  /\ Says[p].encodable

\* Mutant: the placeholder the schema was checked with is left in place.
SignedFormPlaceholder(k, p) ==
  [payload |-> p, text |-> "json",
   signature |-> [key |-> k.id, createdAt |-> TimeOf(p), value |-> None]]

\* What sign returns: the envelope it checked with the schema, with the value
\* of the signature in place of the placeholder.
SignedForm(k, p) ==
  [payload |-> p, text |-> "json",
   signature |-> [key |-> k.id, createdAt |-> TimeOf(p),
                  value |-> [public |-> k.public, payload |-> p, nonce |-> k.nonce,
                             form |-> "strict"]]]

\* SignedDocumentCodec::sign; the calls that throw change nothing.
Sign(k, kind, p) ==
  /\ Signable(kind, p)
  /\ signed' = signed \cup {<<k.public, p, k.nonce>>}
  /\ issued' = issued \cup {[kind |-> kind, by |-> k, document |-> SignedForm(k, p)]}
  /\ UNCHANGED <<registry, pc, given, resolved, stage>>

\* Another implementation, or Ed25519::sign_document, signs what it likes, as
\* often as it likes.
SignElsewhere(k, p, n) ==
  /\ Says[p].encodable
  /\ signed' = signed \cup {<<k.public, p, n>>}
  /\ UNCHANGED <<registry, issued, pc, given, resolved, stage>>

-----------------------------------------------------------------------------
(* The Registry and what a resolver may answer.                            *)

Declare(d) ==
  /\ Len(registry) < MaxVersion
  /\ registry' = Append(registry, d)
  /\ UNCHANGED <<signed, issued, pc, given, resolved, stage>>

\* An earlier version of the Registry is a prefix of it.
Version(n) == {registry[i] : i \in 1..n}

\* Evidence marked organization_wide is one version of the whole Registry.
\* Any other evidence may be a part of one, such as a single key's bindings.
Projection(n, k) == {d \in Version(n) : d.key = k}

\* Mutant: a keyId may be given another public key.
CoherentPerPublic(bindings) ==
  \A d, e \in bindings : d.public = e.public =>
    d.key = e.key /\ d.principal = e.principal /\ d.from = e.from

\* resolve_agent_registry_key looks at all the evidence before it selects a
\* key: one public key, principal and start for each keyId, and one keyId for
\* each public key.
Coherent(bindings) ==
  \A d, e \in bindings :
    /\ d.key = e.key <=> d.public = e.public
    /\ d.key = e.key => d.principal = e.principal /\ d.from = e.from

\* The principals whose key may sign.
Signatories(kind, p) ==
  IF kind = "agent_card" THEN Services ELSE {Says[p].signer}

\* Mutant: a key is still valid at the instant it ends.
SelectsAtEnd(kind, document, bindings, d) ==
  /\ d \in bindings
  /\ d.key = document.signature.key
  /\ \A e \in bindings : e.key = d.key => d.end <= e.end
  /\ d.principal \in Signatories(kind, document.payload)
  /\ d.from <= InstantOf(document.payload)
  /\ InstantOf(document.payload) <= d.end

\* d is what the key of the document is resolved to: its binding with the
\* earliest end declared.
Selects(kind, document, bindings, d) ==
  /\ d \in bindings
  /\ d.key = document.signature.key
  /\ \A e \in bindings : e.key = d.key => d.end <= e.end
  /\ d.principal \in Signatories(kind, document.payload)
  /\ d.from <= InstantOf(document.payload)
  /\ InstantOf(document.payload) < d.end

-----------------------------------------------------------------------------
(* Verification.                                                           *)

ParseFault(document) ==
  document.text = "malformed" \/ Says[document.payload].deep

SchemaFault(kind, document) ==
  \/ Says[document.payload].kind # kind
  \/ ~Parses(TimeOf(document.payload))
  \/ ~Parses(document.signature.createdAt)

\* Mutant: the two times are compared as instants.
EnvelopeFaultInstants(document) ==
  \/ ~EndsWithZ(TimeOf(document.payload))
  \/ ~EndsWithZ(document.signature.createdAt)
  \/ InstantOf(document.payload) # Reads[document.signature.createdAt].at
  \/ document.signature.value.form \in {"respelt", "unsound"}

EnvelopeFault(document) ==
  \/ ~EndsWithZ(TimeOf(document.payload))
  \/ ~EndsWithZ(document.signature.createdAt)
  \/ TimeOf(document.payload) # document.signature.createdAt
  \/ document.signature.value.form \in {"respelt", "unsound"}

CanonicalizationFault(document) ==
  document.text = "surrogate" \/ ~Says[document.payload].encodable

SignatureFault(document, d) ==
  \/ document.signature.value.form = "stray"
  \/ document.signature.value.public # d.public
  \/ document.signature.value.payload # document.payload

\* A signature of a payload has to have been made before it is carried.
Deliverable(document) ==
  LET value == document.signature.value
  IN \/ value.form = "stray"
     \/ <<value.public, value.payload, value.nonce>> \in signed

Fail(c, s) ==
  /\ pc' = [pc EXCEPT ![c] = "failed"]
  /\ stage' = [stage EXCEPT ![c] = s]

\* verify, up to the call of the resolver.
Receive(c, kind, document) ==
  /\ pc[c] = "idle"
  /\ Deliverable(document)
  /\ given' = [given EXCEPT ![c] = [kind |-> kind, document |-> document]]
  /\ \/ /\ ParseFault(document)
        /\ Fail(c, "parse")
     \/ /\ ~ParseFault(document) /\ SchemaFault(kind, document)
        /\ Fail(c, "schema")
     \/ /\ ~ParseFault(document) /\ ~SchemaFault(kind, document)
        /\ EnvelopeFault(document)
        /\ Fail(c, "signature_envelope")
     \/ /\ ~ParseFault(document) /\ ~SchemaFault(kind, document)
        /\ ~EnvelopeFault(document)
        /\ pc' = [pc EXCEPT ![c] = "resolving"]
        /\ UNCHANGED stage
  /\ UNCHANGED <<registry, signed, issued, resolved>>

\* verify, from the resolver's answer: it throws, its evidence is not
\* organization-wide, or it is a version of the Registry.
Conclude(c, bindings) ==
  LET kind == given[c].kind
      document == given[c].document
  IN
  \/ /\ \/ ~Coherent(bindings)
        \/ \A d \in bindings : ~Selects(kind, document, bindings, d)
     /\ Fail(c, "key_resolution")
     /\ UNCHANGED resolved
  \/ \E d \in bindings :
       /\ Coherent(bindings)
       /\ Selects(kind, document, bindings, d)
       /\ resolved' = [resolved EXCEPT ![c] = d]
       /\ \/ /\ CanonicalizationFault(document)
             /\ Fail(c, "canonicalization")
          \/ /\ ~CanonicalizationFault(document)
             /\ SignatureFault(document, d)
             /\ Fail(c, "signature")
          \/ /\ ~CanonicalizationFault(document)
             /\ ~SignatureFault(document, d)
             /\ pc' = [pc EXCEPT ![c] = "verified"]
             /\ UNCHANGED stage

\* Mutant: evidence is taken whatever it says of its completeness.
ResolveIncomplete(c) ==
  /\ pc[c] = "resolving"
  /\ \E n \in 0..Len(registry) :
       \/ Conclude(c, Projection(n, given[c].document.signature.key))
       \/ Conclude(c, Version(n))
  /\ UNCHANGED <<registry, signed, issued, given>>

Resolve(c) ==
  /\ pc[c] = "resolving"
  /\ \/ /\ Fail(c, "key_resolution")
        /\ UNCHANGED resolved
     \/ \E n \in 0..Len(registry) : Conclude(c, Version(n))
  /\ UNCHANGED <<registry, signed, issued, given>>

Next ==
  \/ \E k \in SigningKeys, kind \in Kinds, p \in Payloads : Sign(k, kind, p)
  \/ \E k \in SigningKeys, p \in Payloads, n \in Nonces : SignElsewhere(k, p, n)
  \/ \E d \in Declarations : Declare(d)
  \/ \E c \in Calls, x \in Deliveries : Receive(c, x.kind, x.document)
  \/ \E c \in Calls : Resolve(c)

Spec == Init /\ [][Next]_vars
-----------------------------------------------------------------------------
TypeOK ==
  /\ registry \in Seq(Declarations) /\ Len(registry) <= MaxVersion
  /\ signed \subseteq Signatures
  /\ issued \subseteq [kind: Kinds, by: SigningKeys, document: Documents]
  /\ pc \in [Calls -> {"idle", "resolving", "verified", "failed"}]
  /\ given \in [Calls -> Deliveries \cup {None}]
  /\ resolved \in [Calls -> Declarations \cup {None}]
  /\ stage \in [Calls -> Stages \cup {None}]

Verified(c) == pc[c] = "verified"
PayloadOf(c) == given[c].document.payload
NonceOf(c) == given[c].document.signature.value.nonce
Received(c, kind, document) == given[c] = [kind |-> kind, document |-> document]

\* Whatever was carried and whichever version of the Registry was read, a
\* verified document carries a signature that the holder of the resolved key
\* made of its payload, the key is of a principal that may sign it, and the
\* payload's time lies inside the key's validity as that version states it.
VerifiedIsSigned ==
  \A c \in Calls : Verified(c) =>
    LET d == resolved[c] IN
    /\ <<d.public, PayloadOf(c), NonceOf(c)>> \in signed
    /\ Says[PayloadOf(c)].kind = given[c].kind
    /\ d.principal \in Signatories(given[c].kind, PayloadOf(c))
    /\ d.from <= InstantOf(PayloadOf(c))
    /\ InstantOf(PayloadOf(c)) < d.end

\* The signature member is not itself signed, yet carriers can change nothing
\* in it: two forms of one payload that verify with one key carry two signatures
\* which the holder of the key made, so canonical_hash identifies what was
\* signed for whoever does not hold the key.
OneForm ==
  \A c1, c2 \in Calls :
    (/\ Verified(c1) /\ Verified(c2)
     /\ PayloadOf(c1) = PayloadOf(c2)
     /\ resolved[c1].public = resolved[c2].public
     /\ given[c1].document # given[c2].document)
    => \E m, n \in Nonces :
         /\ m # n
         /\ {<<resolved[c1].public, PayloadOf(c1), x>> : x \in {m, n}}
              \subseteq signed

\* A document that verified once can later fail for one reason only, that the
\* Registry no longer resolves its key at its time: no growth of the Registry
\* gives the keyId another public key.
VerdictsAgree ==
  \A c1, c2 \in Calls :
    Verified(c1) /\ given[c1] = given[c2] /\ pc[c2] = "failed"
      => stage[c2] = "key_resolution"

\* What sign returned, received as it was issued, fails only where sign could
\* not look: the Registry does not resolve the key or has another public key
\* under the keyId, or the payload is nested deeper than the strict parser
\* goes.
RoundTrip ==
  \A c \in Calls, i \in issued :
    Received(c, i.kind, i.document) /\ pc[c] = "failed" =>
      \/ stage[c] = "key_resolution"
      \/ stage[c] = "parse" /\ Says[i.document.payload].deep
      \/ stage[c] = "signature" /\ resolved[c].public # i.by.public
=============================================================================
