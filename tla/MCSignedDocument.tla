-------------------------- MODULE MCSignedDocument --------------------------
(***************************************************************************)
(* Small instances of SignedDocument: two keyIds, two public keys, an      *)
(* agent and a service, payloads that differ in one respect each, and the  *)
(* documents that deviate from a signed one in at most one place.  In one  *)
(* of them two calls race with the Registry, in the other one call meets   *)
(* every payload and signer.                                               *)
(***************************************************************************)
EXTENDS SignedDocument, FiniteSets, TLC

CONSTANTS c1, c2, k1, k2, a1, s1, b1, b2, n1, n2, plain, card, other, deep, huge,
          z, z0, offset, bad

\* z and z0 are two spellings of one instant that both end in Z.
MCTimes == z :> [at |-> 1, z |-> TRUE] @@ z0 :> [at |-> 1, z |-> TRUE]
             @@ offset :> [at |-> 1, z |-> FALSE] @@ bad :> Malformed

Payload(kind, time) ==
  [kind |-> kind, signer |-> a1, time |-> time, deep |-> FALSE,
   encodable |-> TRUE]

MCReads == [t \in Texts |-> MCTimes[t]]

MCContents == plain :> Payload("command", z) @@ card :> Payload("agent_card", z)
                @@ other :> Payload("command", offset)
                @@ deep :> [Payload("command", z) EXCEPT !.deep = TRUE]
                @@ huge :> [Payload("command", z) EXCEPT !.encodable = FALSE]

MCSays == [p \in Payloads |-> MCContents[p]]

\* The second key signs under the name of the first one.
MCOneSigner == {[id |-> k1, public |-> b1, nonce |-> n1]}
MCSigners == MCOneSigner \cup {[id |-> k1, public |-> b2, nonce |-> n1]}

Declaration(k, p, b, end) ==
  [key |-> k, principal |-> p, public |-> b, from |-> 1, end |-> end]

MCDeclarations ==
  {Declaration(k1, a1, b1, 2), Declaration(k1, a1, b1, 1),
   Declaration(k2, a1, b1, 2), Declaration(k1, a1, b2, 2),
   Declaration(k2, s1, b2, 2)}

\* In how many places a document differs from one that was signed as it is.
Deviations(x) ==
  LET document == x.document
      signature == document.signature
      p == document.payload
  IN Cardinality({i \in 1..7 :
       \/ i = 1 /\ document.text # "json"
       \/ i = 2 /\ signature.key # k1
       \/ i = 3 /\ signature.createdAt # Says[p].time
       \/ i = 4 /\ signature.value.form # "strict"
       \/ i = 5 /\ signature.value.payload # p
       \/ i = 6 /\ x.kind # Says[p].kind
       \/ i = 7 /\ signature.value.nonce # n1})

MCDeliveries ==
  {x \in [kind: {"command", "agent_card"}, document: Documents] :
     x.document.signature.value.public = b1 /\ Deviations(x) <= 1}

MCSymmetry == Permutations({c1, c2})
=============================================================================
