--------------------------- MODULE MCKeyRegistry ---------------------------
(***************************************************************************)
(* Small instances of KeyRegistry: one with every pair of identities and   *)
(* hardly a history, one with two keys and every short history.            *)
(***************************************************************************)
EXTENDS KeyRegistry

CONSTANTS k1, k2, a1, s1, b1, b2, x, y

Header(k, p, b, at, text) ==
  [key |-> k, principal |-> p, public |-> b,
   from |-> [at |-> at, text |-> text], wellFormed |-> TRUE]

Faulty(r) == [r EXCEPT !.wellFormed = FALSE]

Stamp(at, text) == [at |-> at, text |-> text]

Status(n, recorded, until, revoked) ==
  [sequence |-> n, recordedAt |-> recorded, validUntil |-> until,
   revokedAt |-> revoked, wellFormed |-> TRUE]

-----------------------------------------------------------------------------
(* Identities: two keys, an agent and a service, two public keys, two      *)
(* starts of validity, one of them spelt twice.                            *)

MCIdentityHeaders ==
  {Header(k, p, b, 0, x) : k \in Keys, p \in Principals, b \in PublicKeys}
  \cup {Header(k1, a1, b1, 1, x), Header(k1, a1, b1, 0, y),
        Faulty(Header(k1, a1, b1, 0, x))}

MCIdentityStatuses == {Status(1, 0, None, None), Status(2, 0, None, None)}

MCIdentities == [headers |-> MCIdentityHeaders, statuses |-> MCIdentityStatuses,
                 asked |-> Requests, declared |-> 3, merged |-> 2]

-----------------------------------------------------------------------------
(* Histories: one declaration per key, repeated; boundaries that move      *)
(* either way, are omitted and come back, or are spelt in two ways.        *)

MCHistoryHeaders == {Header(k1, a1, b1, 0, x), Header(k2, s1, b2, 0, x)}

MCHistoryStatuses ==
  {Status(1, 0, None, None), Status(1, 0, Stamp(2, x), None),
   Status(1, 0, Stamp(2, y), None), Status(2, 1, Stamp(2, y), None),
   Status(2, 1, Stamp(1, x), Stamp(2, x)), Status(2, 0, None, Stamp(1, x)),
   Status(3, 1, None, None), Status(3, 1, Stamp(2, x), Stamp(1, y)),
   Status(3, 0, Stamp(1, y), Stamp(2, y)),
   Status(0, 0, None, None), Status(4, 1, None, None),
   Faulty(Status(1, 0, None, None))}

MCHistoryRequests ==
  [key: {k1}, principal: {a1}, at: {0, 1, 2}]
  \cup [key: {k2}, principal: {None}, at: {0}]

MCHistories == [headers |-> MCHistoryHeaders, statuses |-> MCHistoryStatuses,
                asked |-> MCHistoryRequests, declared |-> 2, merged |-> 4]

MCScopes == {MCIdentities, MCHistories}
=============================================================================
