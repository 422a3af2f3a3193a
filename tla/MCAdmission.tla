---------------------------- MODULE MCAdmission ----------------------------
(***************************************************************************)
(* Small instances of Admission.  The agent a1 holds two keys, k1 and k2,  *)
(* valid from the last instant but one: d1 and d2 are one event signed     *)
(* with each at that instant, so they share the hash h1; d3 is d1 with a   *)
(* signature that does not verify; d4 is d1 respelt: other bytes of the    *)
(* canonical form m1.                                                      *)
(***************************************************************************)
EXTENDS Admission, TLC

CONSTANTS c1, c2, c3, d1, d2, d3, d4, m1, m2, m3, o1, k1, k2, a1, s1, s2, h1,
          r1, r2, long

Begin == Horizon - 1

MCContent == [d \in Documents |->
  [kind |-> "event", canonical |-> CASE d = d2 -> m2 [] d = d3 -> m3 [] OTHER -> m1,
   hash |-> h1, key |-> IF d = d2 THEN k2 ELSE k1, principal |-> a1,
   at |-> Begin, flaw |-> IF d = d3 THEN "signature" ELSE None]]

MCBinding == [k \in RegistryKeys |-> [principal |-> a1, from |-> Begin]]

\* c1 runs as the service s1, c2 and c3 as s2.
MCAppender == [c \in Calls |-> IF c = c1 THEN s1 ELSE s2]

\* c2 and c3 may be exchanged.
MCSymmetry == Permutations({c2, c3})

-----------------------------------------------------------------------------
(* The race: three calls, two signatures of one payload, one of them also  *)
(* replayed; two contexts, each right for one of the services; log empty.  *)

MCRaceRequests == {
  [mode |-> "first", document |-> d1, org |-> o1],
  [mode |-> "first", document |-> d2, org |-> o1],
  [mode |-> "historical", document |-> d1, org |-> o1]}

MCRaceContexts == {[id |-> r1, at |-> Begin, by |-> s1],
                   [id |-> r2, at |-> Horizon, by |-> s2]}

MCNoEntries == {}

-----------------------------------------------------------------------------
(* The faults: two calls with one key, and a log, a context and documents  *)
(* that may each be wrong; a record of another key is met in the race.     *)

MCFaultContexts == MCRaceContexts \cup
  {[id |-> r1, at |-> 0, by |-> s1],           \* before the key is valid
   [id |-> long, at |-> Begin, by |-> s1],     \* does not fit the schema
   [id |-> r1, at |-> Begin, by |-> a1],       \* not a service
   [id |-> r1, at |-> Malformed, by |-> s1]}

MCFaultRequests ==
  [mode: Modes, document: {d1, d4}, org: {o1}] \cup
  {[mode |-> "first", document |-> d3, org |-> o1]}

Logged(kind, principal, at, by) ==
  [form |-> "record",
   record |-> [id |-> r1, org |-> o1, kind |-> kind, hash |-> h1, key |-> k1,
               principal |-> principal, at |-> at, by |-> by]]

MCFaultEntries == [bytes: {
    Logged("event", a1, Begin, s1),            \* in order
    Logged("event", a1, Horizon, s1),
    Logged("event", a1, 0, s1),                \* before the key is valid
    Logged("event", s2, Begin, s1),            \* of another principal
    Logged("command", a1, Begin, s1),          \* of another kind
    Logged("event", a1, Begin, s2),            \* by another service
    Logged("event", a1, Begin, a1),            \* by no service
    [form |-> "document", document |-> d1],    \* the event itself
    [form |-> "document", document |-> d4],    \* and respelt
    [form |-> "document", document |-> d3],    \* another event
    [form |-> "malformed"]},
  service: {s1}]
=============================================================================
