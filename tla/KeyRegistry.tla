---------------------------- MODULE KeyRegistry ----------------------------
(***************************************************************************)
(* resolve_agent_registry_key (src/src/agent_registry_key_resolution.cpp): *)
(* one pass over an organisation's append-only Key Registry, declaration   *)
(* by declaration and status by status, then a fold of every key's history *)
(* and only then the selection of the requested key.                       *)
(*                                                                         *)
(* The scan is sequential; what varies is the Registry.  Its text is read  *)
(* as the scan goes, each Declare and Merge taking any next element, so    *)
(* the behaviours are the runs of the resolver over every Registry of the  *)
(* model, and `read' is the Registry read so far.                          *)
(*                                                                         *)
(* A timestamp has an instant and a text: two texts may denote one         *)
(* instant.  Shape, URI, algorithm and encoding errors of a declaration or *)
(* a status are its wellFormed flag.                                       *)
(***************************************************************************)
EXTENDS Naturals, Sequences, FiniteSets

CONSTANTS
  Keys,             \* keyIds
  Principals,       \* principals of any type
  Services,         \* the principals of type "service"
  PublicKeys,       \* decoded Ed25519 public keys
  Instants,         \* a set of naturals
  Texts,            \* spellings of an instant
  Scopes,           \* sets of Registries, as below
  MaxSequence,      \* 2^53 - 1 in the code
  None

Stamps == [at: Instants, text: Texts]

HeaderTypes == [key: Keys, principal: Principals, public: PublicKeys,
                from: Stamps, wellFormed: BOOLEAN]

StatusTypes == [sequence: 0..(MaxSequence + 1), recordedAt: Instants,
                validUntil: Stamps \cup {None}, revokedAt: Stamps \cup {None},
                wellFormed: BOOLEAN]

\* expected_principal is None when a service principal is required.
Requests == [key: Keys, principal: Principals \cup {None}, at: Instants]

\* A scope is what the declarations of its Registries may say, their statuses
\* and the requests, and its bounds: declarations, and statuses over all of them.
ASSUME RegistryAssumption ==
  /\ Instants \subseteq Nat
  /\ MaxSequence \in Nat
  /\ \A s \in Scopes :
       /\ s.headers \subseteq HeaderTypes
       /\ s.statuses \subseteq StatusTypes
       /\ s.asked \subseteq Requests
       /\ s.declared \in Nat /\ s.merged \in Nat
  /\ Services \subseteq Principals
  /\ None \notin Stamps \cup Principals \cup Instants \cup Requests

-----------------------------------------------------------------------------
VARIABLES
  scope,     \* the Registries that are looked at
  phase,     \* where the resolver is, or how it ended
  read,      \* the declarations read so far, each with the statuses read
  bindings,  \* keyId -> its NormalizedBinding's immutable part and history
  tupleIds,  \* <<principal, public key>> -> the keyId it was declared under
  owners,    \* public key -> <<keyId, principal>>
  fold,      \* keyId -> the progress and result of its fold_history
  request,   \* the KeyResolutionRequest, from when it is first looked at
  result     \* the ResolvedKey

vars == <<scope, phase, read, bindings, tupleIds, owners, fold, request, result>>

Ended == {"resolved", "refused", "rejected"}

\* A map with at most the given keys, and its try_emplace.
IsMap(map, K, V) == DOMAIN map \subseteq K /\ map \in [DOMAIN map -> V]

Emplace(map, k, v) ==
  IF k \in DOMAIN map THEN map
  ELSE [x \in DOMAIN map \cup {k} |-> IF x = k THEN v ELSE map[x]]

EmptyMap == [x \in {} |-> None]

Init ==
  /\ scope \in Scopes
  /\ phase = "declaring"
  /\ read = <<>>
  /\ bindings = EmptyMap /\ tupleIds = EmptyMap /\ owners = EmptyMap
  /\ fold = EmptyMap
  /\ request = None
  /\ result = None

-----------------------------------------------------------------------------
Reject ==      \* the Registry is not one
  /\ phase' = "rejected"
  /\ UNCHANGED <<bindings, tupleIds, owners, fold, result>>

\* Mutant: the starts of validity are compared as they are spelt.
SameImmutableText(b, h) ==
  /\ b.principal = h.principal
  /\ b.public = h.public
  /\ b.from = h.from

SameImmutable(b, h) ==
  /\ b.principal = h.principal
  /\ b.public = h.public
  /\ b.from.at = h.from.at

\* The three maps a declaration is entered into.
BindingsWith(h) ==
  Emplace(bindings, h.key, [principal |-> h.principal, public |-> h.public,
                            from |-> h.from, history |-> EmptyMap])
TupleIdsWith(h) == Emplace(tupleIds, <<h.principal, h.public>>, h.key)
OwnersWith(h) == Emplace(owners, h.public, <<h.key, h.principal>>)

Declarable(h) ==
  /\ h.wellFormed
  /\ SameImmutable(BindingsWith(h)[h.key], h)
  /\ TupleIdsWith(h)[<<h.principal, h.public>>] = h.key
  /\ OwnersWith(h)[h.public] = <<h.key, h.principal>>

Declare(h) ==
  /\ phase = "declaring"
  /\ Len(read) < scope.declared
  /\ read' = Append(read, [header |-> h, statuses |-> <<>>])
  /\ \/ /\ ~Declarable(h)
        /\ Reject
     \/ /\ Declarable(h)
        /\ bindings' = BindingsWith(h)
        /\ tupleIds' = TupleIdsWith(h)
        /\ owners' = OwnersWith(h)
        /\ UNCHANGED <<phase, fold, result>>
  /\ UNCHANGED request

\* ValidityStatus::operator==, which looks at instants and not at texts.
SameBoundary(a, b) ==
  IF a = None \/ b = None THEN a = b ELSE a.at = b.at

SameStatus(s, t) ==
  /\ s.recordedAt = t.recordedAt
  /\ SameBoundary(s.validUntil, t.validUntil)
  /\ SameBoundary(s.revokedAt, t.revokedAt)

\* A status of the declaration being read is entered into its key's history.
HistoryWith(k, s) == Emplace(bindings[k].history, s.sequence, s)

\* Mutant: sequences are not confined to the safe range.
MergeableAnywhere(k, s) ==
  s.wellFormed /\ SameStatus(HistoryWith(k, s)[s.sequence], s)

Mergeable(k, s) ==
  /\ s.wellFormed
  /\ s.sequence \in 1..MaxSequence
  /\ SameStatus(HistoryWith(k, s)[s.sequence], s)

StatusesRead ==
  UNION {{<<i, j>> : j \in DOMAIN read[i].statuses} : i \in DOMAIN read}

Merge(s) ==
  LET last == Len(read)
      k == read[last].header.key
  IN
  /\ phase = "declaring"
  /\ read # <<>>
  /\ Cardinality(StatusesRead) < scope.merged
  /\ read' = [read EXCEPT ![last].statuses = Append(@, s)]
  /\ \/ /\ ~Mergeable(k, s)
        /\ Reject
     \/ /\ Mergeable(k, s)
        /\ bindings' = [bindings EXCEPT ![k].history = HistoryWith(k, s)]
        /\ UNCHANGED <<phase, tupleIds, owners, fold, result>>
  /\ UNCHANGED request

\* The array ends.  It has to hold a declaration.
Unfolded == [next |-> 1, recordedAt |-> None, validUntil |-> None,
             revokedAt |-> None]

EndOfBindings ==
  /\ phase = "declaring"
  /\ \/ /\ read = <<>>
        /\ Reject
     \/ /\ read # <<>>
        /\ phase' = "folding"
        /\ fold' = [k \in DOMAIN bindings |-> Unfolded]
        /\ UNCHANGED <<bindings, tupleIds, owners, result>>
  /\ UNCHANGED <<read, request>>

-----------------------------------------------------------------------------
(* fold_history, a status at a time in the order of their sequences.       *)

ToFold(k) == {n \in DOMAIN bindings[k].history : n >= fold[k].next}

MovesLater(candidate, effective) ==
  candidate # None /\ effective # None /\ candidate.at > effective.at

\* Mutant: a later status with the same instant replaces the spelling.
EarlierOrSame(candidate, effective) ==
  IF candidate # None THEN candidate ELSE effective

\* Mutant: a status that omits a boundary clears it.
EarlierOrCleared(candidate, effective) == candidate

Earlier(candidate, effective) ==
  IF /\ candidate # None
     /\ effective # None => candidate.at < effective.at
  THEN candidate ELSE effective

Foldable(k, n) ==
  LET s == bindings[k].history[n] IN
  /\ n = fold[k].next
  /\ fold[k].recordedAt # None => fold[k].recordedAt <= s.recordedAt
  /\ ~MovesLater(s.validUntil, fold[k].validUntil)
  /\ ~MovesLater(s.revokedAt, fold[k].revokedAt)

FoldStatus(k) ==
  /\ phase = "folding"
  /\ \E n \in ToFold(k) :
       /\ \A m \in ToFold(k) : n <= m
       /\ \/ /\ ~Foldable(k, n)
             /\ Reject
          \/ LET s == bindings[k].history[n] IN
             /\ Foldable(k, n)
             /\ fold' = [fold EXCEPT ![k] =
                  [next |-> n + 1, recordedAt |-> s.recordedAt,
                   validUntil |-> Earlier(s.validUntil, fold[k].validUntil),
                   revokedAt |-> Earlier(s.revokedAt, fold[k].revokedAt)]]
             /\ UNCHANGED <<phase, bindings, tupleIds, owners, result>>
  /\ UNCHANGED <<read, request>>

-----------------------------------------------------------------------------
(* Selection, once every history is folded.                                *)

Reached(at, boundary) == boundary # None /\ at >= boundary.at

Selectable(q) ==
  /\ q.key \in DOMAIN bindings
  /\ IF q.principal = None THEN bindings[q.key].principal \in Services
     ELSE bindings[q.key].principal = q.principal
  /\ q.at >= bindings[q.key].from.at
  /\ ~Reached(q.at, fold[q.key].validUntil)
  /\ ~Reached(q.at, fold[q.key].revokedAt)

Resolved(k) ==
  [key |-> k, principal |-> bindings[k].principal,
   public |-> bindings[k].public, from |-> bindings[k].from,
   validUntil |-> fold[k].validUntil, revokedAt |-> fold[k].revokedAt]

\* Mutant: the key is selected before the other histories are folded.
SelectEarly(q) ==
  /\ phase = "folding"
  /\ q.key \in DOMAIN bindings => ToFold(q.key) = {}
  /\ request' = q
  /\ \/ /\ ~Selectable(q)
        /\ phase' = "refused"
        /\ UNCHANGED result
     \/ /\ Selectable(q)
        /\ phase' = "resolved"
        /\ result' = Resolved(q.key)
  /\ UNCHANGED <<read, bindings, tupleIds, owners, fold>>

Select(q) ==
  /\ phase = "folding"
  /\ \A k \in DOMAIN bindings : ToFold(k) = {}
  /\ request' = q
  /\ \/ /\ ~Selectable(q)
        /\ phase' = "refused"
        /\ UNCHANGED result
     \/ /\ Selectable(q)
        /\ phase' = "resolved"
        /\ result' = Resolved(q.key)
  /\ UNCHANGED <<read, bindings, tupleIds, owners, fold>>

Next == /\ \/ \E h \in scope.headers : Declare(h)
           \/ \E s \in scope.statuses : Merge(s)
           \/ EndOfBindings
           \/ \E k \in DOMAIN bindings : FoldStatus(k)
           \/ \E q \in scope.asked : Select(q)
        /\ UNCHANGED scope

Spec == Init /\ [][Next]_vars
-----------------------------------------------------------------------------
(* What a Registry means, told from its text alone and without an order of *)
(* reading it: the reference the resolver is held to.                      *)

HeadersOf(text) == {text[i].header : i \in DOMAIN text}

\* Where the statuses of key k stand in the text.
Places(text, k) ==
  UNION {{<<i, j>> : j \in DOMAIN text[i].statuses} :
         i \in {d \in DOMAIN text : text[d].header.key = k}}

StatusAt(text, p) == text[p[1]].statuses[p[2]]

StatusesOf(text, k) == {StatusAt(text, p) : p \in Places(text, k)}

IdentitiesAgree(text) ==
  \A g, h \in HeadersOf(text) :
    /\ g.wellFormed
    /\ g.key = h.key <=> g.public = h.public
    /\ g.key = h.key => g.principal = h.principal /\ g.from.at = h.from.at

\* s comes before t in an append-only history.
Precedes(s, t) ==
  /\ s.recordedAt <= t.recordedAt
  /\ ~MovesLater(t.validUntil, s.validUntil)
  /\ ~MovesLater(t.revokedAt, s.revokedAt)

HistoryAgrees(statuses) ==
  /\ \A s \in statuses : s.wellFormed
  /\ \E n \in 0..MaxSequence : {s.sequence : s \in statuses} = 1..n
  /\ \A s, t \in statuses :
       /\ s.sequence = t.sequence => SameStatus(s, t)
       /\ s.sequence < t.sequence => Precedes(s, t)

IsRegistry(text) ==
  /\ text # <<>>
  /\ IdentitiesAgree(text)
  /\ \A h \in HeadersOf(text) : HistoryAgrees(StatusesOf(text, h.key))

\* The place a boundary takes effect from: of the places that declare its
\* earliest instant the one of the lowest sequence, and the first to be read.
Before(p, q) == p[1] < q[1] \/ (p[1] = q[1] /\ p[2] < q[2])

DecidesBoundary(text, k, boundary, p) ==
  /\ p \in Places(text, k) /\ StatusAt(text, p)[boundary] # None
  /\ \A q \in Places(text, k) :
       LET s == StatusAt(text, p)
           t == StatusAt(text, q)
       IN t[boundary] # None /\ q # p =>
            \/ s[boundary].at < t[boundary].at
            \/ /\ s[boundary].at = t[boundary].at
               /\ \/ s.sequence < t.sequence
                  \/ s.sequence = t.sequence /\ Before(p, q)

EffectiveBoundary(text, k, boundary) ==
  IF \E p \in Places(text, k) : DecidesBoundary(text, k, boundary, p)
  THEN StatusAt(text, CHOOSE p \in Places(text, k) :
                        DecidesBoundary(text, k, boundary, p))[boundary]
  ELSE None

EffectiveValidUntil(text, k) == EffectiveBoundary(text, k, "validUntil")
EffectiveRevokedAt(text, k) == EffectiveBoundary(text, k, "revokedAt")

-----------------------------------------------------------------------------
TypeOK ==
  /\ scope \in Scopes
  /\ phase \in {"declaring", "folding"} \cup Ended
  /\ read \in Seq([header: scope.headers, statuses: Seq(scope.statuses)])
  /\ DOMAIN bindings \subseteq Keys
  /\ \A k \in DOMAIN bindings :
       /\ DOMAIN bindings[k] = {"principal", "public", "from", "history"}
       /\ bindings[k].principal \in Principals
       /\ bindings[k].public \in PublicKeys
       /\ bindings[k].from \in Stamps
       /\ IsMap(bindings[k].history, 1..MaxSequence, scope.statuses)
  /\ IsMap(tupleIds, Principals \X PublicKeys, Keys)
  /\ IsMap(owners, PublicKeys, Keys \X Principals)
  /\ IsMap(fold, Keys,
       [next: 1..(MaxSequence + 1), recordedAt: Instants \cup {None},
        validUntil: Stamps \cup {None}, revokedAt: Stamps \cup {None}])
  /\ request \in Requests \cup {None}
  /\ result \in {None} \cup
       [key: Keys, principal: Principals, public: PublicKeys, from: Stamps,
        validUntil: Stamps \cup {None}, revokedAt: Stamps \cup {None}]

\* A Registry is rejected exactly when there is a fault in it: no key is
\* selected, and none refused, from one with a fault anywhere (in a late
\* declaration, in the history of a key nobody asked for, between two
\* declarations far apart), and nothing that is a Registry is rejected, in
\* whatever order and however often it declares its keys and spells its
\* instants.
RejectedForAFault == phase \in Ended => (phase = "rejected" <=> ~IsRegistry(read))

\* The key is resolved exactly when the reference says so, with the boundaries
\* and the spellings of them the reference says.
ResolvedByReference ==
  phase \in {"resolved", "refused"} =>
    LET k == request.key
        until == EffectiveValidUntil(read, k)
        revoked == EffectiveRevokedAt(read, k)
        h == CHOOSE h \in HeadersOf(read) : h.key = k
        right == /\ \E g \in HeadersOf(read) : g.key = k
                 /\ IF request.principal = None THEN h.principal \in Services
                    ELSE h.principal = request.principal
                 /\ h.from.at <= request.at
                 /\ until # None => request.at < until.at
                 /\ revoked # None => request.at < revoked.at
    IN /\ phase = "resolved" <=> right
       /\ phase = "resolved" =>
            /\ result.key = k /\ result.public = h.public
            /\ result.principal = h.principal /\ result.from.at = h.from.at
            /\ result.validUntil = until /\ result.revokedAt = revoked

\* A Registry that grows by declarations only narrows what an earlier version
\* of it resolved: the key keeps its start and its owner, its ends never move
\* later, and an end that keeps its instant keeps its spelling.
GrowthOnlyNarrows ==
  phase = "resolved" =>
    \A n \in 1..Len(read) :
      LET earlier == SubSeq(read, 1, n)
          k == result.key
          Narrowed(was, is) == was # None =>
            is # None /\ (is.at < was.at \/ is = was)
      IN IsRegistry(earlier) /\ (\E h \in HeadersOf(earlier) : h.key = k) =>
           /\ Narrowed(EffectiveValidUntil(earlier, k), result.validUntil)
           /\ Narrowed(EffectiveRevokedAt(earlier, k), result.revokedAt)
           /\ \A h \in HeadersOf(earlier) : h.key = k =>
                h.principal = result.principal /\ h.from.at = result.from.at
=============================================================================
