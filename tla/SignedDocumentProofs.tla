------------------------ MODULE SignedDocumentProofs ------------------------
(***************************************************************************)
(* Theorems about SignedDocument, for every number of calls, documents,    *)
(* keys and principals, for Registries of any length, and for whatever     *)
(* carriers deliver.                                                       *)
(***************************************************************************)
EXTENDS SignedDocument, TLAPS

-----------------------------------------------------------------------------
(* The inductive invariant: what each place and each stage of verify says  *)
(* of the document it was given.                                           *)

Faultless(kind, document) ==
  /\ ~ParseFault(document)
  /\ ~SchemaFault(kind, document)
  /\ ~EnvelopeFault(document)

\* d was the answer for this document of some version of the Registry.
SelectedFrom(kind, document, d) ==
  \E n \in 0..Len(registry) :
    Coherent(Version(n)) /\ Selects(kind, document, Version(n), d)

\* The stages that come after the resolver was called, and after it answered.
AfterCall == {"key_resolution", "canonicalization", "signature"}
AfterAnswer == {"canonicalization", "signature"}

Begun(c) ==
  /\ pc[c] = "idle" <=> given[c] = None
  /\ pc[c] = "failed" <=> stage[c] # None
  /\ pc[c] # "idle" => Deliverable(given[c].document)

Progress(c) ==
  LET kind == given[c].kind
      document == given[c].document
  IN /\ pc[c] \in {"resolving", "verified"} \/ stage[c] \in AfterCall
          => Faultless(kind, document)
     /\ pc[c] = "verified" \/ stage[c] \in AfterAnswer
          => SelectedFrom(kind, document, resolved[c])
     /\ pc[c] = "verified" =>
          /\ ~CanonicalizationFault(document)
          /\ ~SignatureFault(document, resolved[c])

\* A stage is named for a fault the document has.
Diagnosed(c) ==
  LET kind == given[c].kind
      document == given[c].document
  IN /\ stage[c] = "parse" => ParseFault(document)
     /\ stage[c] = "schema" => SchemaFault(kind, document)
     /\ stage[c] = "signature_envelope" => EnvelopeFault(document)
     /\ stage[c] = "canonicalization" => CanonicalizationFault(document)
     /\ stage[c] = "signature" => SignatureFault(document, resolved[c])

CallInv(c) == Begun(c) /\ Progress(c) /\ Diagnosed(c)

IssuedInv ==
  \A i \in issued :
    /\ Signable(i.kind, i.document.payload)
    /\ i.document = SignedForm(i.by, i.document.payload)

IInv == TypeOK /\ IssuedInv /\ \A c \in Calls : CallInv(c)

-----------------------------------------------------------------------------
(* Type correctness.                                                       *)

LEMMA FormType ==
  ASSUME NEW k \in SigningKeys, NEW p \in Payloads
  PROVE  SignedForm(k, p) \in Documents
<1>1. /\ k.id \in Keys /\ k.public \in Publics /\ k.nonce \in Nonces
      /\ TimeOf(p) \in Texts
  BY CodecAssumption DEF TimeOf, PayloadTypes
<1> QED
  BY <1>1 DEF SignedForm, Documents, Envelopes, Values

LEMMA DeliveryType ==
  ASSUME NEW x \in Deliveries
  PROVE  x = [kind |-> x.kind, document |-> x.document] /\ x # None
  BY CodecAssumption

LEMMA VersionType ==
  ASSUME TypeOK, NEW n \in 0..Len(registry)
  PROVE  Version(n) \subseteq Declarations
  BY DEF TypeOK, Version

LEMMA ConcludeType ==
  ASSUME TypeOK, NEW c \in Calls, NEW b \in SUBSET Declarations, Conclude(c, b)
  PROVE  /\ pc' \in [Calls -> {"idle", "resolving", "verified", "failed"}]
         /\ resolved' \in [Calls -> Declarations \cup {None}]
         /\ stage' \in [Calls -> Stages \cup {None}]
  BY DEF Conclude, Fail, TypeOK, Stages

LEMMA TypeStep == TypeOK /\ [Next]_vars => TypeOK'
<1> SUFFICES ASSUME TypeOK, [Next]_vars PROVE TypeOK'
  OBVIOUS
<1>1. ASSUME NEW k \in SigningKeys, NEW kind \in Kinds, NEW p \in Payloads,
             Sign(k, kind, p)
      PROVE  TypeOK'
  <2>1. SignedForm(k, p) \in Documents /\ k.public \in Publics /\ k.nonce \in Nonces
    BY FormType, CodecAssumption
  <2> QED
    BY <1>1, <2>1 DEF Sign, TypeOK, Signatures
<1>2. ASSUME NEW k \in SigningKeys, NEW p \in Payloads, NEW n \in Nonces,
             SignElsewhere(k, p, n)
      PROVE  TypeOK'
  <2>1. k.public \in Publics
    BY CodecAssumption
  <2> QED
    BY <1>2, <2>1 DEF SignElsewhere, TypeOK, Signatures
<1>3. ASSUME NEW d \in Declarations, Declare(d) PROVE TypeOK'
  BY <1>3, CodecAssumption DEF Declare, TypeOK
<1>4. ASSUME NEW c \in Calls, NEW x \in Deliveries, Receive(c, x.kind, x.document)
      PROVE  TypeOK'
  BY <1>4, DeliveryType DEF Receive, Fail, TypeOK, Stages
<1>5. ASSUME NEW c \in Calls, Resolve(c) PROVE TypeOK'
  <2>1. CASE Fail(c, "key_resolution") /\ UNCHANGED resolved
    BY <1>5, <2>1 DEF Resolve, Fail, TypeOK, Stages
  <2>2. ASSUME NEW n \in 0..Len(registry), Conclude(c, Version(n))
        PROVE  TypeOK'
    BY <1>5, <2>2, VersionType, ConcludeType DEF Resolve, TypeOK
  <2> QED
    BY <1>5, <2>1, <2>2 DEF Resolve
<1>6. CASE UNCHANGED vars
  BY <1>6 DEF vars, TypeOK
<1> QED
  BY <1>1, <1>2, <1>3, <1>4, <1>5, <1>6 DEF Next

-----------------------------------------------------------------------------
(* The Registry only grows, so what an earlier version selected stays      *)
(* selected from that version, and so do the signatures that were made.    *)

Grows ==
  /\ Len(registry) <= Len(registry')
  /\ \A n \in 0..Len(registry) : Version(n)' = Version(n)
  /\ signed \subseteq signed'

LEMMA RegistryGrows == TypeOK /\ [Next]_vars => Grows
<1> SUFFICES ASSUME TypeOK, [Next]_vars PROVE Grows
  OBVIOUS
<1>1. ASSUME NEW d \in Declarations, Declare(d) PROVE Grows
  <2>1. Len(registry') = Len(registry) + 1
    BY <1>1 DEF Declare, TypeOK
  <2>2. \A i \in 1..Len(registry) : registry'[i] = registry[i]
    BY <1>1 DEF Declare, TypeOK
  <2>3. ASSUME NEW n \in 0..Len(registry) PROVE Version(n)' = Version(n)
    BY <2>2, <1>1 DEF Version, TypeOK
  <2> QED
    BY <1>1, <2>1, <2>3 DEF Grows, Declare, TypeOK
<1>2. CASE UNCHANGED registry /\ signed \subseteq signed'
  BY <1>2 DEF Grows, Version, TypeOK
<1> QED
  BY <1>1, <1>2
     DEF Next, Sign, SignElsewhere, Receive, Resolve, vars

LEMMA StaysDeliverable ==
  ASSUME Grows, NEW document, Deliverable(document)
  PROVE  Deliverable(document)'
BY DEF Grows, Deliverable

LEMMA StaysSelected ==
  ASSUME TypeOK, Grows, TypeOK',
         NEW kind, NEW document, NEW d, SelectedFrom(kind, document, d)
  PROVE  SelectedFrom(kind, document, d)'
<1>1. PICK n \in 0..Len(registry) :
        Coherent(Version(n)) /\ Selects(kind, document, Version(n), d)
  BY DEF SelectedFrom
<1>2. n \in 0..Len(registry') /\ Version(n)' = Version(n)
  BY DEF Grows, TypeOK
<1>3. (Coherent(Version(n)) /\ Selects(kind, document, Version(n), d))'
  BY <1>1, <1>2 DEF Coherent, Selects
<1> QED
  BY <1>2, <1>3 DEF SelectedFrom

\* What a step does to a call it is not a step of.
LEMMA OtherCalls ==
  ASSUME TypeOK, TypeOK', Grows, NEW c \in Calls, CallInv(c),
         pc'[c] = pc[c], given'[c] = given[c], resolved'[c] = resolved[c],
         stage'[c] = stage[c]
  PROVE  CallInv(c)'
<1>1. Begun(c)'
  BY StaysDeliverable DEF CallInv, Begun
<1>2. Progress(c)'
  BY StaysSelected
     DEF CallInv, Progress, Faultless, ParseFault, SchemaFault, EnvelopeFault,
         CanonicalizationFault, SignatureFault
<1>3. Diagnosed(c)'
  BY DEF CallInv, Diagnosed, ParseFault, SchemaFault, EnvelopeFault,
         CanonicalizationFault, SignatureFault
<1> QED
  BY <1>1, <1>2, <1>3 DEF CallInv

-----------------------------------------------------------------------------
(* The steps of a call itself.                                             *)

LEMMA ReceiveKeeps ==
  ASSUME IInv, TypeOK', Grows, NEW c \in Calls, NEW x \in Deliveries,
         Receive(c, x.kind, x.document)
  PROVE  CallInv(c)'
<1> DEFINE kind == x.kind
           document == x.document
<1>0. /\ stage[c] = None /\ c \in DOMAIN pc /\ c \in DOMAIN stage
      /\ given'[c].kind = kind /\ given'[c].document = document
      /\ given'[c] # None
  BY DeliveryType DEF IInv, CallInv, Begun, Receive, TypeOK
<1>1. Begun(c)'
  BY <1>0, StaysDeliverable, CodecAssumption
     DEF Begun, Receive, Fail, TypeOK, Stages
<1>2. ASSUME NEW s \in {"parse", "schema", "signature_envelope"}, Fail(c, s)
      PROVE  Progress(c)'
  BY <1>0, <1>2 DEF Progress, Fail, AfterCall, AfterAnswer, TypeOK
<1>3. ASSUME Faultless(kind, document), pc'[c] = "resolving", stage'[c] = None
      PROVE  Progress(c)' /\ Diagnosed(c)'
  BY <1>0, <1>3, CodecAssumption
     DEF Progress, Diagnosed, AfterAnswer, Stages, Faultless, ParseFault, SchemaFault,
         EnvelopeFault
<1>4. CASE ParseFault(document) /\ Fail(c, "parse")
  BY <1>0, <1>1, <1>2, <1>4 DEF CallInv, Diagnosed, ParseFault, Fail, TypeOK
<1>5. CASE SchemaFault(kind, document) /\ Fail(c, "schema")
  BY <1>0, <1>1, <1>2, <1>5 DEF CallInv, Diagnosed, SchemaFault, Fail, TypeOK
<1>6. CASE EnvelopeFault(document) /\ Fail(c, "signature_envelope")
  BY <1>0, <1>1, <1>2, <1>6 DEF CallInv, Diagnosed, EnvelopeFault, Fail, TypeOK
<1>7. CASE /\ Faultless(kind, document)
           /\ pc' = [pc EXCEPT ![c] = "resolving"] /\ UNCHANGED stage
  BY <1>0, <1>1, <1>3, <1>7 DEF CallInv
<1> QED
  BY <1>4, <1>5, <1>6, <1>7 DEF Receive, Faultless

LEMMA ResolveKeeps ==
  ASSUME IInv, TypeOK', Grows, NEW c \in Calls, Resolve(c)
  PROVE  CallInv(c)'
<1> DEFINE kind == given[c].kind
           document == given[c].document
<1>0. /\ stage[c] = None /\ Deliverable(document) /\ Faultless(kind, document)
      /\ given' = given /\ registry' = registry /\ given[c] # None
      /\ c \in DOMAIN pc /\ c \in DOMAIN stage /\ c \in DOMAIN resolved
  BY DEF IInv, CallInv, Begun, Progress, Resolve, TypeOK
<1>1. ASSUME NEW s \in AfterCall, Fail(c, s) PROVE Begun(c)'
  BY <1>0, <1>1, StaysDeliverable, CodecAssumption
     DEF Begun, Fail, AfterCall, Stages
<1>2. Faultless(kind, document)'
  BY <1>0 DEF Faultless, ParseFault, SchemaFault, EnvelopeFault
<1>3. CASE Fail(c, "key_resolution") /\ UNCHANGED resolved
  <2>1. pc'[c] = "failed" /\ stage'[c] = "key_resolution"
    BY <1>0, <1>3 DEF Fail
  <2> QED
    BY <1>0, <1>1, <1>2, <1>3, <2>1 DEF CallInv, Progress, Diagnosed, AfterCall, AfterAnswer
<1>4. ASSUME NEW n \in 0..Len(registry), NEW d \in Version(n),
             Coherent(Version(n)), Selects(kind, document, Version(n), d),
             resolved' = [resolved EXCEPT ![c] = d],
             \/ /\ CanonicalizationFault(document)
                /\ Fail(c, "canonicalization")
             \/ /\ ~CanonicalizationFault(document)
                /\ SignatureFault(document, d)
                /\ Fail(c, "signature")
             \/ /\ ~CanonicalizationFault(document)
                /\ ~SignatureFault(document, d)
                /\ pc' = [pc EXCEPT ![c] = "verified"]
                /\ UNCHANGED stage
      PROVE  CallInv(c)'
  <2>1. SelectedFrom(kind, document, d)
    BY <1>4 DEF SelectedFrom
  <2>2. SelectedFrom(given[c].kind, given[c].document, resolved[c])'
    BY <1>0, <1>4, <2>1, StaysSelected DEF IInv
  <2>3. CASE CanonicalizationFault(document) /\ Fail(c, "canonicalization")
    <3>1. pc'[c] = "failed" /\ stage'[c] = "canonicalization"
      BY <1>0, <2>3 DEF Fail
    <3> QED
      BY <1>0, <1>1, <1>2, <2>2, <2>3, <3>1
         DEF CallInv, Progress, Diagnosed, AfterCall, AfterAnswer, CanonicalizationFault
  <2>4. CASE SignatureFault(document, d) /\ Fail(c, "signature")
    <3>1. pc'[c] = "failed" /\ stage'[c] = "signature" /\ resolved'[c] = d
      BY <1>0, <1>4, <2>4 DEF Fail
    <3> QED
      BY <1>0, <1>1, <1>2, <2>2, <2>4, <3>1
         DEF CallInv, Progress, Diagnosed, AfterCall, AfterAnswer, SignatureFault
  <2>5. CASE /\ ~CanonicalizationFault(document)
             /\ ~SignatureFault(document, d)
             /\ pc' = [pc EXCEPT ![c] = "verified"]
             /\ UNCHANGED stage
    <3>1. pc'[c] = "verified" /\ stage'[c] = None /\ resolved'[c] = d
      BY <1>0, <1>4, <2>5
    <3>2. Begun(c)'
      BY <1>0, <3>1, StaysDeliverable DEF Begun
    <3>3. Progress(c)'
      BY <1>0, <1>2, <2>2, <2>5, <3>1
         DEF Progress, CanonicalizationFault, SignatureFault
    <3> QED
      BY <3>1, <3>2, <3>3, CodecAssumption DEF CallInv, Diagnosed, Stages
  <2> QED
    BY <1>4, <2>3, <2>4, <2>5
<1> QED
  BY <1>3, <1>4 DEF Resolve, Conclude

-----------------------------------------------------------------------------
(* The invariant holds.                                                    *)

LEMMA IInvInit == Init => IInv
BY CodecAssumption
   DEF Init, IInv, TypeOK, IssuedInv, CallInv, Begun, Progress, Diagnosed,
       AfterCall, AfterAnswer, Stages

LEMMA IssuedStep == IInv /\ [Next]_vars => IssuedInv'
<1> SUFFICES ASSUME IInv, [Next]_vars PROVE IssuedInv'
  OBVIOUS
<1>1. ASSUME NEW k \in SigningKeys, NEW kind \in Kinds, NEW p \in Payloads,
             Sign(k, kind, p)
      PROVE  IssuedInv'
  <2>1. SignedForm(k, p).payload = p
    BY DEF SignedForm
  <2>2. ASSUME NEW i \in issued'
        PROVE  /\ Signable(i.kind, i.document.payload)
               /\ i.document = SignedForm(i.by, i.document.payload)
    BY <1>1, <2>1, <2>2 DEF Sign, IInv, IssuedInv
  <2> QED
    BY <2>2 DEF IssuedInv
<1>2. CASE UNCHANGED issued
  BY <1>2 DEF IInv, IssuedInv
<1> QED
  BY <1>1, <1>2 DEF Next, SignElsewhere, Declare, Receive, Resolve, vars

LEMMA IInvStep == IInv /\ [Next]_vars => IInv'
<1> SUFFICES ASSUME IInv, [Next]_vars PROVE IInv'
  OBVIOUS
<1>1. TypeOK /\ TypeOK' /\ Grows
  BY TypeStep, RegistryGrows DEF IInv
<1>2. IssuedInv'
  BY IssuedStep
<1>3. ASSUME NEW c \in Calls PROVE CallInv(c)'
  <2>1. CallInv(c)
    BY DEF IInv
  <2>2. CASE \E x \in Deliveries : Receive(c, x.kind, x.document)
    BY <1>1, <2>2, ReceiveKeeps
  <2>3. CASE Resolve(c)
    BY <1>1, <2>3, ResolveKeeps
  <2>4. ASSUME NEW o \in Calls \ {c}, NEW x \in Deliveries,
               Receive(o, x.kind, x.document)
        PROVE  CallInv(c)'
    <3>1. /\ pc'[c] = pc[c] /\ given'[c] = given[c]
          /\ resolved'[c] = resolved[c] /\ stage'[c] = stage[c]
      BY <1>1, <2>4 DEF Receive, Fail, TypeOK
    <3> QED
      BY <1>1, <2>1, <3>1, OtherCalls
  <2>5. ASSUME NEW o \in Calls \ {c}, Resolve(o) PROVE CallInv(c)'
    <3>1. /\ pc'[c] = pc[c] /\ given'[c] = given[c]
          /\ resolved'[c] = resolved[c] /\ stage'[c] = stage[c]
      BY <1>1, <2>5 DEF Resolve, Conclude, Fail, TypeOK
    <3> QED
      BY <1>1, <2>1, <3>1, OtherCalls
  <2>6. CASE UNCHANGED <<pc, given, resolved, stage>>
    BY <1>1, <2>1, <2>6, OtherCalls
  <2> QED
    BY <2>2, <2>3, <2>4, <2>5, <2>6
       DEF Next, Sign, SignElsewhere, Declare, vars
<1> QED
  BY <1>1, <1>2, <1>3 DEF IInv

\* Whatever carriers deliver and however the Registry grows, a call has been
\* led to its place and its stage by faults the document has or has not, and
\* was answered by one version of the Registry.
THEOREM Inductive == Spec => []IInv
BY IInvInit, IInvStep, PTL DEF Spec

\* Every variable has its type in every reachable state of the codec.
THEOREM TypeCorrect == Spec => []TypeOK
BY Inductive, PTL DEF IInv
-----------------------------------------------------------------------------
(* What the resolver selected, in whichever two versions: the later of two *)
(* versions holds all of the earlier one, so it is coherent about both.    *)

LEMMA SelectedTogether ==
  ASSUME TypeOK, NEW kind1, NEW document1, NEW d1, NEW kind2, NEW document2, NEW d2,
         SelectedFrom(kind1, document1, d1), SelectedFrom(kind2, document2, d2)
  PROVE  /\ d1.key = document1.signature.key
         /\ d2.key = document2.signature.key
         /\ d1.key = d2.key <=> d1.public = d2.public
<1>1. PICK m \in 0..Len(registry) :
        Coherent(Version(m)) /\ Selects(kind1, document1, Version(m), d1)
  BY DEF SelectedFrom
<1>2. PICK n \in 0..Len(registry) :
        Coherent(Version(n)) /\ Selects(kind2, document2, Version(n), d2)
  BY DEF SelectedFrom
<1>3. m <= n \/ n <= m
  BY DEF TypeOK
<1>4. CASE m <= n
  <2>1. Version(m) \subseteq Version(n)
    BY <1>4 DEF Version, TypeOK
  <2> QED
    BY <1>1, <1>2, <2>1 DEF Coherent, Selects
<1>5. CASE n <= m
  <2>1. Version(n) \subseteq Version(m)
    BY <1>5 DEF Version, TypeOK
  <2> QED
    BY <1>1, <1>2, <2>1 DEF Coherent, Selects
<1> QED
  BY <1>3, <1>4, <1>5

\* Whatever was carried and whichever version of the Registry was read, a
\* verified document carries a signature that the holder of the resolved key
\* made of its payload, a principal that may sign it, at a time inside the
\* key's validity.
THEOREM VerifiedWasSigned == Spec => []VerifiedIsSigned
<1>1. IInv => VerifiedIsSigned
  <2> SUFFICES ASSUME IInv, NEW c \in Calls, Verified(c)
               PROVE  LET d == resolved[c] IN
                      /\ <<d.public, PayloadOf(c), NonceOf(c)>> \in signed
                      /\ Says[PayloadOf(c)].kind = given[c].kind
                      /\ d.principal \in Signatories(given[c].kind, PayloadOf(c))
                      /\ d.from <= InstantOf(PayloadOf(c))
                      /\ InstantOf(PayloadOf(c)) < d.end
    BY DEF VerifiedIsSigned
  <2> DEFINE document == given[c].document
             d == resolved[c]
  <2>1. /\ Deliverable(document) /\ Faultless(given[c].kind, document)
        /\ ~SignatureFault(document, d)
        /\ SelectedFrom(given[c].kind, document, d)
    BY DEF IInv, CallInv, Begun, Progress, Verified
  <2>2. <<d.public, PayloadOf(c), NonceOf(c)>> \in signed
    BY <2>1 DEF Deliverable, SignatureFault, PayloadOf, NonceOf
  <2>3. Says[PayloadOf(c)].kind = given[c].kind
    BY <2>1 DEF Faultless, SchemaFault, PayloadOf
  <2> QED
    BY <2>1, <2>2, <2>3 DEF SelectedFrom, Selects, PayloadOf
<1> QED
  BY <1>1, Inductive, PTL

\* A document is made of its four parts.
LEMMA DocumentIsItsParts ==
  ASSUME NEW x \in Documents, NEW y \in Documents,
         x.payload = y.payload, x.text = y.text,
         x.signature.key = y.signature.key,
         x.signature.createdAt = y.signature.createdAt,
         x.signature.value.public = y.signature.value.public,
         x.signature.value.payload = y.signature.value.payload,
         x.signature.value.nonce = y.signature.value.nonce,
         x.signature.value.form = y.signature.value.form
  PROVE  x = y
<1>1. x.signature \in Envelopes /\ y.signature \in Envelopes
  BY DEF Documents
<1>2. x.signature.value \in Values /\ y.signature.value \in Values
  BY <1>1 DEF Envelopes
<1>3. x.signature.value = y.signature.value
  BY <1>2 DEF Values
<1>4. x.signature = y.signature
  BY <1>1, <1>3 DEF Envelopes
<1> QED
  BY <1>4 DEF Documents

\* Carriers can make no second form of a signed document: two forms of one
\* payload that verify with one key differ in the nonce, and the holder of the
\* key made both of the signatures.
THEOREM FormsAreSigned == Spec => []OneForm
<1>1. IInv => OneForm
  <2> SUFFICES ASSUME IInv, NEW c1 \in Calls, NEW c2 \in Calls,
                      Verified(c1), Verified(c2), PayloadOf(c1) = PayloadOf(c2),
                      resolved[c1].public = resolved[c2].public,
                      given[c1].document # given[c2].document
               PROVE  \E m, n \in Nonces :
                        /\ m # n
                        /\ {<<resolved[c1].public, PayloadOf(c1), x>> : x \in {m, n}}
                             \subseteq signed
    BY DEF OneForm
  <2>1. ASSUME NEW c \in Calls, Verified(c)
        PROVE  LET document == given[c].document IN
               /\ document \in Documents
               /\ document.text = "json" /\ document.signature.value.form = "strict"
               /\ document.signature.createdAt = TimeOf(document.payload)
               /\ document.signature.value.public = resolved[c].public
               /\ document.signature.value.payload = document.payload
               /\ SelectedFrom(given[c].kind, document, resolved[c])
               /\ NonceOf(c) \in Nonces
               /\ <<resolved[c].public, PayloadOf(c), NonceOf(c)>> \in signed
    <3>1. /\ Faultless(given[c].kind, given[c].document)
          /\ ~CanonicalizationFault(given[c].document)
          /\ ~SignatureFault(given[c].document, resolved[c])
          /\ SelectedFrom(given[c].kind, given[c].document, resolved[c])
          /\ given[c] # None /\ Deliverable(given[c].document)
      BY <2>1 DEF IInv, CallInv, Begun, Progress, Verified
    <3>2. given[c].document \in Documents
      BY <3>1, CodecAssumption DEF IInv, TypeOK
    <3>3. /\ given[c].document.text \in {"json", "surrogate", "malformed"}
          /\ given[c].document.signature.value.form
               \in {"strict", "respelt", "unsound", "stray"}
          /\ NonceOf(c) \in Nonces
      BY <3>2 DEF Documents, Envelopes, Values, NonceOf
    <3>4. <<resolved[c].public, PayloadOf(c), NonceOf(c)>> \in signed
      BY <3>1 DEF Deliverable, SignatureFault, PayloadOf, NonceOf
    <3> QED
      BY <3>1, <3>2, <3>3, <3>4
         DEF Faultless, ParseFault, EnvelopeFault, CanonicalizationFault,
             SignatureFault
  <2>2. given[c1].document.signature.key = given[c2].document.signature.key
    <3>1. /\ SelectedFrom(given[c1].kind, given[c1].document, resolved[c1])
          /\ SelectedFrom(given[c2].kind, given[c2].document, resolved[c2])
      BY <2>1
    <3> QED
      BY <3>1, SelectedTogether DEF IInv
  <2> DEFINE x == given[c1].document
             y == given[c2].document
  <2>3. x \in Documents /\ y \in Documents
    BY <2>1
  <2>4. /\ x.payload = y.payload /\ x.text = y.text
        /\ x.signature.createdAt = y.signature.createdAt
        /\ x.signature.value.public = y.signature.value.public
        /\ x.signature.value.payload = y.signature.value.payload
        /\ x.signature.value.form = y.signature.value.form
    BY <2>1 DEF PayloadOf
  <2>5. x # y /\ x.signature.key = y.signature.key
    BY <2>2
  <2> HIDE DEF x, y
  <2>6. x.signature.value.nonce # y.signature.value.nonce
    BY <2>3, <2>4, <2>5, DocumentIsItsParts
  <2>7. NonceOf(c1) # NonceOf(c2)
    BY <2>6 DEF x, y, NonceOf
  <2>8. /\ <<resolved[c1].public, PayloadOf(c1), NonceOf(c1)>> \in signed
        /\ <<resolved[c1].public, PayloadOf(c1), NonceOf(c2)>> \in signed
        /\ NonceOf(c1) \in Nonces /\ NonceOf(c2) \in Nonces
    BY <2>1
  <2> QED
    BY <2>7, <2>8
<1> QED
  BY <1>1, Inductive, PTL

\* A document that verified once can later fail for one reason only, that the
\* Registry no longer resolves its key at its time.
THEOREM VerdictsStand == Spec => []VerdictsAgree
<1>1. IInv => VerdictsAgree
  <2> SUFFICES ASSUME IInv, NEW c1 \in Calls, NEW c2 \in Calls,
                      Verified(c1), given[c1] = given[c2], pc[c2] = "failed"
               PROVE  stage[c2] = "key_resolution"
    BY DEF VerdictsAgree
  <2> DEFINE document == given[c1].document
             kind == given[c1].kind
  <2>1. /\ Faultless(kind, document) /\ ~CanonicalizationFault(document)
        /\ ~SignatureFault(document, resolved[c1])
        /\ SelectedFrom(kind, document, resolved[c1])
    BY DEF IInv, CallInv, Progress, Verified
  <2>2. stage[c2] \in Stages
    BY DEF IInv, CallInv, Begun, TypeOK
  <2>3. stage[c2] \notin {"parse", "schema", "signature_envelope", "canonicalization"}
    BY <2>1 DEF IInv, CallInv, Diagnosed, Faultless
  <2>4. stage[c2] # "signature"
    <3> SUFFICES ASSUME stage[c2] = "signature" PROVE FALSE
      OBVIOUS
    <3>1. /\ SelectedFrom(kind, document, resolved[c2])
          /\ SignatureFault(document, resolved[c2])
      BY DEF IInv, CallInv, Progress, Diagnosed, AfterAnswer
    <3>2. resolved[c1].public = resolved[c2].public
      BY <2>1, <3>1, SelectedTogether DEF IInv
    <3> QED
      BY <2>1, <3>1, <3>2 DEF SignatureFault
  <2> QED
    BY <2>2, <2>3, <2>4 DEF Stages
<1> QED
  BY <1>1, Inductive, PTL

\* What sign returned fails verify only where sign could not look.
THEOREM SignedRoundTrips == Spec => []RoundTrip
<1>1. IInv => RoundTrip
  <2> SUFFICES ASSUME IInv, NEW c \in Calls, NEW i \in issued,
                      Received(c, i.kind, i.document), pc[c] = "failed"
               PROVE  \/ stage[c] = "key_resolution"
                      \/ stage[c] = "parse" /\ Says[i.document.payload].deep
                      \/ stage[c] = "signature" /\ resolved[c].public # i.by.public
    BY DEF RoundTrip
  <2> DEFINE p == i.document.payload
  <2>1. Signable(i.kind, p) /\ i.document = SignedForm(i.by, p)
    BY DEF IInv, IssuedInv
  <2>2. given[c].kind = i.kind /\ given[c].document = i.document
    BY DEF Received
  <2>3. /\ i.document.text = "json" /\ i.document.signature.createdAt = TimeOf(p)
        /\ i.document.signature.value.form = "strict"
        /\ i.document.signature.value.public = i.by.public
        /\ i.document.signature.value.payload = p
    BY <2>1 DEF SignedForm
  <2>4. /\ ~SchemaFault(i.kind, i.document) /\ ~EnvelopeFault(i.document)
        /\ ~CanonicalizationFault(i.document)
    BY <2>1, <2>3
       DEF Signable, SchemaFault, EnvelopeFault, CanonicalizationFault
  <2>5. stage[c] \in Stages
    BY DEF IInv, CallInv, Begun, TypeOK
  <2>6. stage[c] \notin {"schema", "signature_envelope", "canonicalization"}
    BY <2>2, <2>4 DEF IInv, CallInv, Diagnosed
  <2>7. stage[c] = "parse" => Says[p].deep
    BY <2>2, <2>3 DEF IInv, CallInv, Diagnosed, ParseFault
  <2>8. stage[c] = "signature" => resolved[c].public # i.by.public
    BY <2>2, <2>3 DEF IInv, CallInv, Diagnosed, SignatureFault
  <2> QED
    BY <2>5, <2>6, <2>7, <2>8 DEF Stages
<1> QED
  BY <1>1, Inductive, PTL
=============================================================================
