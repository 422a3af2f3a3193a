-------------------------- MODULE AdmissionLedger --------------------------
(***************************************************************************)
(* What the Admission Service and its log promise together, with nothing   *)
(* said of adapters, key validity or how a call proceeds: a ledger that    *)
(* keeps at most one entry per subject, for ever, and calls that end once, *)
(* each either refused or admitted with the entry its subject holds.       *)
(***************************************************************************)
CONSTANTS Subjects, Entries, Calls, None

VARIABLES ledger,   \* Subject -> the entry it holds, or None
          verdict   \* call -> <<"open">>, <<"refused">> or
                    \* <<"admitted", the subject, the entry it held>>

Init ==
  /\ ledger \in [Subjects -> Entries \cup {None}]
  /\ verdict = [c \in Calls |-> <<"open">>]

\* Subject s, which held nothing, holds an entry from here on.
Commit(s) ==
  /\ ledger[s] = None
  /\ ledger'[s] \in Entries
  /\ ledger' = [ledger EXCEPT ![s] = ledger'[s]]

\* c ends with the entry the ledger holds for s when the step is over.
Admit(c, s) ==
  /\ verdict[c] = <<"open">>
  /\ ledger'[s] # None
  /\ verdict' = [verdict EXCEPT ![c] = <<"admitted", s, ledger'[s]>>]

Refuse(c) ==
  /\ verdict[c] = <<"open">>
  /\ verdict' = [verdict EXCEPT ![c] = <<"refused">>]

\* A call may commit, and end in the same step or a later one.
Next == \E c \in Calls :
  /\ \/ UNCHANGED ledger
     \/ \E s \in Subjects : Commit(s)
  /\ \/ UNCHANGED verdict
     \/ Refuse(c)
     \/ \E s \in Subjects : Admit(c, s)

Spec == Init /\ [][Next]_<<ledger, verdict>>
=============================================================================
