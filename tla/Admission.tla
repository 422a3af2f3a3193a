----------------------------- MODULE Admission -----------------------------
(***************************************************************************)
(* Concurrent calls of AdmissionService (src/src/admission.cpp) against    *)
(* one Key Registry per organisation and one Admission Log.                *)
(*                                                                         *)
(* The service itself is stateless: admit_first, its historical twin and   *)
(* prepare_first_admission are straight-line programs that consult three   *)
(* adapters the caller supplies.  Everything hard happens between those    *)
(* adapter calls, so each one is a step of its own, and the local          *)
(* variables that survive it are kept per call.                            *)
(*                                                                         *)
(*                Verify -> Lookup -> Issue -> Append                      *)
(*                                                                         *)
(* The adapters are external.  Each may fail, with a reason of its own     *)
(* (AdmissionAdapterError) or with an exception of its own; the log        *)
(* is authoritative: write-once per (organisation, signing hash), and a    *)
(* failed append may or may not have taken effect.  A caller that crashes  *)
(* is a call that takes no further step; its retry is another call.        *)
(*                                                                         *)
(* Instants are 0..Horizon.  A binding's effective validUntil and          *)
(* revokedAt are tested by the same comparison, so a snapshot keeps the    *)
(* earlier of the two, and Never when the Registry declares neither.       *)
(***************************************************************************)
EXTENDS Naturals

CONSTANTS
  Calls,           \* calls of the service, each made by a thread of its own
  Documents,       \* byte strings submitted for verification
  Content,         \* what each document says (DocumentContents)
  Orgs,            \* organizationIds
  Keys,            \* keyIds
  Principals,      \* principals of any type
  Services,        \* the principals of type "service"
  Hashes,          \* signing hashes
  Canonicals,      \* canonical forms of documents, signature included
  RecordIds,       \* admissionRecordIds
  LongIds,         \* identifiers longer than the record schema allows
  Binding,         \* the immutable half of a Registry binding, per RegistryKey
  Horizon,         \* the last representable instant of the model
  Malformed,       \* what parse_protocol_instant refuses
  Requests,        \* the arguments calls may be made with
  Thrown,          \* the reasons of the AdmissionAdapterErrors adapters throw
  Contexts,        \* the values TrustedAdmissionContext::issue may answer
  Appender,        \* the service the log authenticates each caller as
  InitialEntries,  \* what the log may already hold
  None             \* no record, no entry, no reason

-----------------------------------------------------------------------------
Instants == 0..Horizon
Never == Horizon + 1
Limits == 0..Never
RegistryKeys == Orgs \X Keys
Subjects == Orgs \X Hashes          \* what the log is keyed by

Kinds == {"agent_card", "approval", "artifact", "command", "context_package",
          "event", "evidence", "extension_profile", "group_snapshot"}

Stages == {"parse", "schema", "signature_envelope", "key_resolution",
           "canonicalization", "signature"}

AdapterReasons == {"record_conflict", "log_authentication_failed",
  "append_integrity_not_established", "log_unavailable",
  "log_indeterminate", "commit_failed"}

AdmissionReasons == AdapterReasons \cup
  {"record_missing", "record_binding_mismatch",
   "trusted_time_outside_key_interval", "malformed_trusted_time",
   "record_schema_invalid", "event_self_anchoring"}

\* The stage a document is bound to fail whatever the Registry says, or None.
DocumentContents ==
  [kind: Kinds, canonical: Canonicals, hash: Hashes, key: Keys,
   principal: Principals, at: Instants,
   flaw: (Stages \ {"key_resolution"}) \cup {None}]

Records == [id: RecordIds, org: Orgs, kind: Kinds, hash: Hashes, key: Keys,
            principal: Principals, at: Instants, by: Principals]

RecordSchemaValid(r) ==
  /\ {r.id, r.org, r.key, r.principal, r.by} \cap LongIds = {}
  /\ r.by \in Services

\* What parse_record lets become a FirstAdmissionRecord.
ParsedRecords == {r \in Records : RecordSchemaValid(r)}

\* Byte strings a log may hold: the JSON of a record, the bytes of a signed
\* document, or bytes that are neither.
LogBytes == [form: {"record"}, record: Records]
              \cup [form: {"document"}, document: Documents]
              \cup [form: {"malformed"}]

Entries == [bytes: LogBytes, service: Services]

ContextValues == [id: RecordIds, at: Instants \cup {Malformed}, by: Principals]

\* admit_first, verify_historical_admission and prepare_first_admission
Modes == {"first", "historical", "prepare"}
Arguments == [mode: Modes, document: Documents, org: Orgs]

ASSUME IdentifierAssumption ==
  /\ Horizon \in Nat
  /\ Malformed \notin Instants
  /\ Services \subseteq Principals
  /\ None \notin Entries \cup Records \cup Stages \cup AdmissionReasons \cup Calls

\* Spellings of one canonical form: both parse and are made canonical.
SameForm(d, e) ==
  /\ {Content[d].flaw, Content[e].flaw} \cap {"parse", "canonicalization"} = {}
  /\ Content[d].canonical = Content[e].canonical

\* A canonical form, taken for a document of some kind, says one thing.
ASSUME WorldAssumption ==
  /\ Content \in [Documents -> DocumentContents]
  /\ \A d, e \in Documents :
       SameForm(d, e) /\ Content[d].kind = Content[e].kind
         => Content[d] = Content[e]
  /\ Binding \in [RegistryKeys -> [principal: Principals, from: Instants]]
  /\ Requests \subseteq Arguments
  /\ Thrown \subseteq AdapterReasons
  /\ Contexts \subseteq ContextValues
  /\ Appender \in [Calls -> Services]
  /\ InitialEntries \subseteq Entries

-----------------------------------------------------------------------------
VARIABLES
  limit,     \* RegistryKey -> the effective end of the key's validity, now
  log,       \* Subject -> the committed Entry, or None
  author,    \* Subject -> the call whose append committed it (history variable)
  pc,        \* call -> the adapter it consults next, or how it ended
  call,      \* call -> its arguments
  snapshot,  \* call -> resolved_key's effective limit, as read by verify
  prepared,  \* call -> the FirstAdmissionRecord prepare_first_admission built
  answer,    \* call -> the authenticated record the log answered with
  returned,  \* call -> the record in the value returned to the caller
  reason     \* call -> the diagnostic of the error thrown to the caller

vars == <<limit, log, author, pc, call, snapshot, prepared, answer, returned,
          reason>>

Running == {"verify", "lookup", "issue", "append"}
Done == {"admitted", "prepared", "rejected", "unverified", "raised"}

\* The types of the code: a FirstAdmissionRecord, prepared or returned, only
\* comes from parse_record, while the log answers with any bytes.
TypeOK ==
  /\ limit \in [RegistryKeys -> Limits]
  /\ log \in [Subjects -> Entries \cup {None}]
  /\ author \in [Subjects -> Calls \cup {None}]
  /\ pc \in [Calls -> Running \cup Done]
  /\ call \in [Calls -> Requests]
  /\ snapshot \in [Calls -> Limits]
  /\ prepared \in [Calls -> ParsedRecords \cup {None}]
  /\ answer \in [Calls -> Entries \cup {None}]
  /\ returned \in [Calls -> ParsedRecords \cup {None}]
  /\ reason \in [Calls -> Stages \cup AdmissionReasons \cup {None}]

\* A call that has not been made yet is one that has not begun to verify.
Init ==
  /\ limit \in [RegistryKeys -> Limits]
  /\ log \in [Subjects -> InitialEntries \cup {None}]
  /\ author = [k \in Subjects |-> None]
  /\ pc = [c \in Calls |-> "verify"]
  /\ call \in [Calls -> Requests]
  /\ snapshot = [c \in Calls |-> Never]
  /\ prepared = [c \in Calls |-> None]
  /\ answer = [c \in Calls |-> None]
  /\ returned = [c \in Calls |-> None]
  /\ reason = [c \in Calls |-> None]

-----------------------------------------------------------------------------
(* What a call's document and key are bound to.                            *)

Doc(c) == Content[call[c].document]
KeyOf(c) == <<call[c].org, Doc(c).key>>
SubjectOf(c) == <<call[c].org, Doc(c).hash>>

\* resolve_agent_registry_key, for a Registry that is well formed.
KeyResolves(c, end) ==
  LET binding == Binding[KeyOf(c)] IN
  /\ IF Doc(c).kind = "agent_card"
     THEN binding.principal \in Services
     ELSE binding.principal = Doc(c).principal
  /\ binding.from <= Doc(c).at
  /\ Doc(c).at < end

\* The First-Admission Record of c's document with the context's value v.
RecordOf(c, v) ==
  [id |-> v.id, org |-> call[c].org, kind |-> Doc(c).kind, hash |-> Doc(c).hash,
   key |-> Doc(c).key, principal |-> Binding[KeyOf(c)].principal,
   at |-> v.at, by |-> v.by]

\* Mutant: the key that verified the document is not compared.
BindingsMatchAnyKey(c, r) ==
  /\ r.org = call[c].org
  /\ r.kind = Doc(c).kind
  /\ r.hash = Doc(c).hash
  /\ r.principal = Binding[KeyOf(c)].principal

BindingsMatch(c, r) ==
  /\ r.org = call[c].org
  /\ r.kind = Doc(c).kind
  /\ r.hash = Doc(c).hash
  /\ r.key = Doc(c).key
  /\ r.principal = Binding[KeyOf(c)].principal

\* Mutant: the end of the key's validity is inclusive.
InClosedKeyInterval(c, t) == Binding[KeyOf(c)].from <= t /\ t <= snapshot[c]

InKeyInterval(c, t) == Binding[KeyOf(c)].from <= t /\ t < snapshot[c]

\* Mutant: acceptedBy is compared with the caller's own service instead of the
\* one the log authenticated.
BindingFaultOwnService(c, r, service) ==
  IF ~BindingsMatch(c, r) THEN "record_binding_mismatch"
  ELSE IF r.by # Appender[c] THEN "log_authentication_failed"
  ELSE IF ~InKeyInterval(c, r.at) THEN "trusted_time_outside_key_interval"
  ELSE None

\* validate_bindings: the reason it fails with, or None.
BindingFault(c, r, service) ==
  IF ~BindingsMatch(c, r) THEN "record_binding_mismatch"
  ELSE IF r.by # service THEN "log_authentication_failed"
  ELSE IF ~InKeyInterval(c, r.at) THEN "trusted_time_outside_key_interval"
  ELSE None

\* Mutant: only the bytes received are recognised.
SelfAnchoringBytes(c, bytes) ==
  /\ Doc(c).kind = "event"
  /\ bytes.form = "document"
  /\ bytes.document = call[c].document

\* is_event_self_anchoring: the log handed back the very event it is asked to
\* anchor, as it was received or as another text of the same canonical form.
SelfAnchoring(c, bytes) ==
  /\ Doc(c).kind = "event"
  /\ bytes.form = "document"
  /\ \/ bytes.document = call[c].document
     \/ SameForm(bytes.document, call[c].document)

\* validate_authenticated_record: the reason it fails with, or None.
EntryFault(c, e) ==
  IF SelfAnchoring(c, e.bytes) THEN "event_self_anchoring"
  ELSE IF e.bytes.form # "record" THEN "record_schema_invalid"
  ELSE IF ~RecordSchemaValid(e.bytes.record) THEN "record_schema_invalid"
  ELSE BindingFault(c, e.bytes.record, e.service)

\* Mutant: the record is committed without being parsed back.
PrepareFaultUnparsed(c, v) ==
  IF v.at = Malformed THEN "malformed_trusted_time"
  ELSE IF ~InKeyInterval(c, v.at) THEN "trusted_time_outside_key_interval"
  ELSE BindingFault(c, RecordOf(c, v), v.by)

\* prepare_first_admission: the reason it fails with, or None.  The interval
\* is tested before the record is built; the record's own bindings are then
\* validated against the service the context itself named.
PrepareFault(c, v) ==
  IF v.at = Malformed THEN "malformed_trusted_time"
  ELSE IF ~InKeyInterval(c, v.at) THEN "trusted_time_outside_key_interval"
  ELSE IF ~RecordSchemaValid(RecordOf(c, v)) THEN "record_schema_invalid"
  ELSE BindingFault(c, RecordOf(c, v), v.by)

-----------------------------------------------------------------------------
(* How a call ends.                                                        *)

Fails(c, why) ==       \* AdmissionError
  /\ pc' = [pc EXCEPT ![c] = "rejected"]
  /\ reason' = [reason EXCEPT ![c] = why]
  /\ UNCHANGED returned

Unverified(c, stage) ==   \* SignedDocumentError
  /\ pc' = [pc EXCEPT ![c] = "unverified"]
  /\ reason' = [reason EXCEPT ![c] = stage]

\* An adapter throws: AdmissionAdapterError is remapped to its reason, any
\* other exception leaves the service as it came.
AdapterThrows(c) ==
  \/ \E why \in Thrown : Fails(c, why)
  \/ /\ pc' = [pc EXCEPT ![c] = "raised"]
     /\ UNCHANGED <<reason, returned>>

\* validate_authenticated_record on what the log answered.
Validate(c, e) ==
  /\ answer' = [answer EXCEPT ![c] = e]
  /\ \/ /\ EntryFault(c, e) # None
        /\ Fails(c, EntryFault(c, e))
     \/ /\ EntryFault(c, e) = None
        /\ pc' = [pc EXCEPT ![c] = "admitted"]
        /\ returned' = [returned EXCEPT ![c] = e.bytes.record]
        /\ UNCHANGED reason

-----------------------------------------------------------------------------
(* The calls.                                                              *)

\* codec_.verify: six stages, of which key resolution alone consults an
\* adapter.  admit_first asks for the current Registry; a historical
\* verification, and the verification a caller of prepare_first_admission did
\* beforehand, may have been given any earlier version of it, in which the
\* validity can only have ended later.
Resolvable(c) ==
  IF call[c].mode = "first" THEN {limit[KeyOf(c)]} ELSE limit[KeyOf(c)]..Never

Verify(c) ==
  /\ pc[c] = "verify"
  /\ \/ /\ Doc(c).flaw \in {"parse", "schema", "signature_envelope"}
        /\ Unverified(c, Doc(c).flaw)
        /\ UNCHANGED snapshot
     \/ /\ Doc(c).flaw \notin {"parse", "schema", "signature_envelope"}
        /\ \/ /\ Unverified(c, "key_resolution")  \* the resolver throws, or
              /\ UNCHANGED snapshot               \* its Registry is no evidence
           \/ \E end \in Resolvable(c) :
                /\ snapshot' = [snapshot EXCEPT ![c] = end]
                /\ \/ /\ ~KeyResolves(c, end)
                      /\ Unverified(c, "key_resolution")
                   \/ /\ KeyResolves(c, end)
                      /\ Doc(c).flaw # None
                      /\ Unverified(c, Doc(c).flaw)
                   \/ /\ KeyResolves(c, end)
                      /\ Doc(c).flaw = None
                      /\ pc' = [pc EXCEPT ![c] = IF call[c].mode = "prepare"
                                                 THEN "issue" ELSE "lookup"]
                      /\ UNCHANGED reason
  /\ UNCHANGED <<limit, log, author, call, prepared, answer, returned>>

\* admission_log.lookup
Lookup(c) ==
  /\ pc[c] = "lookup"
  /\ \/ /\ AdapterThrows(c)
        /\ UNCHANGED answer
     \/ /\ log[SubjectOf(c)] # None
        /\ Validate(c, log[SubjectOf(c)])
     \/ /\ log[SubjectOf(c)] = None
        /\ call[c].mode = "historical"
        /\ Fails(c, "record_missing")
        /\ UNCHANGED answer
     \/ /\ log[SubjectOf(c)] = None
        /\ call[c].mode = "first"
        /\ pc' = [pc EXCEPT ![c] = "issue"]
        /\ UNCHANGED <<answer, returned, reason>>
  /\ UNCHANGED <<limit, log, author, call, snapshot, prepared>>

\* prepare_first_admission, with the value v trusted_context.issue answers
Prepare(c, v) ==
  \/ /\ PrepareFault(c, v) # None
     /\ Fails(c, PrepareFault(c, v))
     /\ UNCHANGED prepared
  \/ /\ PrepareFault(c, v) = None
     /\ prepared' = [prepared EXCEPT ![c] = RecordOf(c, v)]
     /\ UNCHANGED reason
     /\ \/ /\ call[c].mode = "prepare"
           /\ pc' = [pc EXCEPT ![c] = "prepared"]
           /\ returned' = [returned EXCEPT ![c] = RecordOf(c, v)]
        \/ /\ call[c].mode = "first"
           /\ pc' = [pc EXCEPT ![c] = "append"]
           /\ UNCHANGED returned

Issue(c) ==
  /\ pc[c] = "issue"
  /\ \/ /\ AdapterThrows(c)
        /\ UNCHANGED prepared
     \/ \E v \in Contexts : Prepare(c, v)
  /\ UNCHANGED <<limit, log, author, call, snapshot, answer>>

\* The entry the log commits for c, and its write-once append.
EntryOf(c) == [bytes |-> [form |-> "record", record |-> prepared[c]],
               service |-> Appender[c]]

\* Mutant: the log replaces what it holds.
AppendReplaces(c) ==
  /\ log' = [log EXCEPT ![SubjectOf(c)] = EntryOf(c)]
  /\ author' = [author EXCEPT ![SubjectOf(c)] = c]

AppendTakesEffect(c) ==
  IF log[SubjectOf(c)] = None
  THEN /\ log' = [log EXCEPT ![SubjectOf(c)] = EntryOf(c)]
       /\ author' = [author EXCEPT ![SubjectOf(c)] = c]
  ELSE UNCHANGED <<log, author>>

\* Mutant: what was prepared is validated, not what the log returned.
AppendTrustsCandidate(c) ==
  /\ pc[c] = "append"
  /\ AppendTakesEffect(c)
  /\ Validate(c, EntryOf(c))
  /\ UNCHANGED <<limit, call, snapshot, prepared>>

\* Mutant: a call that lost the race prepares another record and tries again.
AppendRetries(c) ==
  /\ pc[c] = "append"
  /\ \/ /\ log[SubjectOf(c)] = None
        /\ AppendTakesEffect(c)
        /\ Validate(c, EntryOf(c))
     \/ /\ log[SubjectOf(c)] # None
        /\ pc' = [pc EXCEPT ![c] = "issue"]
        /\ UNCHANGED <<log, author, answer, returned, reason>>
  /\ UNCHANGED <<limit, call, snapshot, prepared>>

\* admission_log.append_or_return_existing: fails without effect, takes effect
\* but loses its answer, or takes effect and answers with what is committed.
Append(c) ==
  /\ pc[c] = "append"
  /\ \/ /\ AdapterThrows(c)
        /\ UNCHANGED <<log, author, answer>>
     \/ /\ AppendTakesEffect(c)
        /\ AdapterThrows(c)
        /\ UNCHANGED answer
     \/ /\ AppendTakesEffect(c)
        /\ Validate(c, log'[SubjectOf(c)])
  /\ UNCHANGED <<limit, call, snapshot, prepared>>

\* Mutant: fold_history lets a boundary move later.
RecordAnyStatus(k) ==
  /\ \E end \in Limits : limit' = [limit EXCEPT ![k] = end]
  /\ UNCHANGED <<log, author, pc, call, snapshot, prepared, answer, returned,
                 reason>>

\* The Registry records a validity status: fold_history refuses a later
\* boundary, so the effective end of a key's validity only moves earlier.
RecordStatus(k) ==
  /\ \E end \in Limits :
       /\ end < limit[k]
       /\ limit' = [limit EXCEPT ![k] = end]
  /\ UNCHANGED <<log, author, pc, call, snapshot, prepared, answer, returned,
                 reason>>

Step(c) == Verify(c) \/ Lookup(c) \/ Issue(c) \/ Append(c)

Next == \/ \E c \in Calls : Step(c)
        \/ \E k \in RegistryKeys : RecordStatus(k)

Spec == Init /\ [][Next]_vars

\* An adapter that is called answers or throws, and the code between two
\* adapter calls does not block: a call in progress keeps going.
FairSpec == Spec /\ \A c \in Calls : WF_vars(Step(c))
-----------------------------------------------------------------------------
(* What the calls achieve together.                                        *)

Admitted(c) == pc[c] = "admitted"

\* However calls interleave, retry or lose an answer, all that are admitted
\* for one organisation and signing hash return one and the same record
\* (admit_first validates what the log returns, not what it prepared).
Agreement ==
  \A c1, c2 \in Calls :
    Admitted(c1) /\ Admitted(c2) /\ SubjectOf(c1) = SubjectOf(c2)
      => returned[c1] = returned[c2]

\* An admission is durable: the record returned to a caller is the one the
\* log holds from then on.
AdmittedIsCommitted ==
  \A c \in Calls : Admitted(c) =>
    /\ log[SubjectOf(c)] # None
    /\ log[SubjectOf(c)].bytes = [form |-> "record", record |-> returned[c]]

\* Whatever the log, the context and the Registry did, an admitted document
\* was authentic, and its record binds it to the key that verified it, names
\* the service the log authenticated, and was accepted while the key, as that
\* call had read it, was valid.
AdmittedIsSound ==
  \A c \in Calls : Admitted(c) =>
    /\ Doc(c).flaw = None
    /\ KeyResolves(c, snapshot[c])
    /\ BindingsMatch(c, returned[c])
    /\ returned[c].by \in Services
    /\ returned[c].by = log[SubjectOf(c)].service
    /\ Binding[KeyOf(c)].from <= returned[c].at
    /\ returned[c].at < snapshot[c]

\* The signing hash leaves the signature out, so one payload signed with two
\* keys has one subject: at most one of the keys is ever admitted for it.
OneKeyPerSubject ==
  \A c1, c2 \in Calls :
    Admitted(c1) /\ Admitted(c2) /\ SubjectOf(c1) = SubjectOf(c2)
      => KeyOf(c1) = KeyOf(c2) /\ Doc(c1).kind = Doc(c2).kind

\* A record this service commits can fail its own validation for one reason
\* only, and only when the context had named another service than the one the
\* log authenticates: admit_first compares the two after the append.
NoSelfPoisoning ==
  \A c \in Calls :
    author[SubjectOf(c)] = c /\ pc[c] = "rejected" /\ answer[c] # None
      => /\ reason[c] = "log_authentication_failed"
         /\ prepared[c].by # Appender[c]

\* A retry or a replay of a document whose first admission was committed under
\* its right service, even one whose answer was lost, is turned down by the
\* record only when the Registry has since ended the key's validity at or
\* before the accepted instant; no matter which service makes it.
RetryHonoursCommit ==
  \A a, c \in Calls :
    (/\ author[SubjectOf(c)] = a
     /\ prepared[a].by = Appender[a]
     /\ call[c].org = call[a].org /\ call[c].document = call[a].document
     /\ pc[c] = "rejected" /\ answer[c] # None)
    => /\ reason[c] = "trusted_time_outside_key_interval"
       /\ snapshot[c] < snapshot[a]
       /\ snapshot[c] <= prepared[a].at

\* Once a committed record is found to lie outside its key's validity it lies
\* outside it for good: the snapshot a call works with may be stale, but what
\* it rejects no later Registry accepts.
TimeRejectionIsFinal ==
  \A c \in Calls :
    (/\ pc[c] = "rejected" /\ answer[c] # None
     /\ reason[c] = "trusted_time_outside_key_interval")
    => LET t == answer[c].bytes.record.at IN
       \/ t < Binding[KeyOf(c)].from
       \/ limit[KeyOf(c)] <= t

\* How a document is spelt decides nothing: two calls with spellings of one
\* form that the log answered end alike, given the same boundary, however each
\* was made; and an event handed back as its own record, in whatever spelling,
\* is told from everything else that is no record.
SpellingIsIrrelevant ==
  /\ \A c1, c2 \in Calls :
       (/\ answer[c1] # None /\ answer[c2] # None
        /\ SameForm(call[c1].document, call[c2].document)
        /\ Doc(c1).kind = Doc(c2).kind /\ call[c1].org = call[c2].org
        /\ snapshot[c1] = snapshot[c2])
       => IF Admitted(c1)
          THEN Admitted(c2) /\ returned[c1] = returned[c2]
          ELSE ~Admitted(c2) /\ reason[c1] = reason[c2]
  /\ \A c \in Calls : answer[c] # None /\ answer[c].bytes.form # "record" =>
       reason[c] = IF /\ Doc(c).kind = "event"
                      /\ answer[c].bytes.form = "document"
                      /\ SameForm(answer[c].bytes.document, call[c].document)
                   THEN "event_self_anchoring" ELSE "record_schema_invalid"

\* The log changes only by the append of an admit_first call whose document
\* verified, that found its subject vacant and whose record was accepted
\* within the key's validity; never by a replay or a preparation, and what
\* is committed is never replaced.
AppendDiscipline ==
  [][\A s \in Subjects : log'[s] # log[s] =>
       /\ log[s] = None
       /\ \E c \in Calls :
            /\ call[c].mode = "first" /\ SubjectOf(c) = s
            /\ Doc(c).flaw = None /\ KeyResolves(c, snapshot[c])
            /\ log'[s].bytes.record = prepared[c]
            /\ Binding[KeyOf(c)].from <= prepared[c].at
            /\ prepared[c].at < snapshot[c]]_vars

\* Every call ends, whoever wins the race for its subject: no call of the
\* service loops on a conflict or waits for another call.
Termination == \A c \in Calls : <>(pc[c] \in Done)

\* The service and its log are a write-once ledger: each call ends once, and
\* an admission carries the entry the ledger holds.
VerdictOf(c) ==
  IF pc[c] \in Running THEN <<"open">>
  ELSE IF Admitted(c)
  THEN <<"admitted", SubjectOf(c),
         [bytes |-> [form |-> "record", record |-> returned[c]],
          service |-> answer[c].service]>>
  ELSE <<"refused">>

Ledger == INSTANCE AdmissionLedger WITH
            ledger <- log, verdict <- [c \in Calls |-> VerdictOf(c)]

LedgerSpec == Ledger!Spec
-----------------------------------------------------------------------------
(* Why it holds: an inductive strengthening of the properties above.       *)

\* Past verification, the document is authentic and its key valid when read.
VerifiedFirst(c) ==
  pc[c] \notin {"verify", "unverified"} =>
    /\ Doc(c).flaw = None
    /\ KeyResolves(c, snapshot[c])

\* A prepared record is one its own call would admit.
PreparedIsRight(c) ==
  /\ pc[c] = "append" => prepared[c] # None /\ call[c].mode = "first"
  /\ prepared[c] # None =>
       /\ pc[c] \notin {"verify", "lookup", "issue"}
       /\ BindingsMatch(c, prepared[c])
       /\ RecordSchemaValid(prepared[c])
       /\ InKeyInterval(c, prepared[c].at)

\* What the log answered it still holds, and the call ended as validation
\* of that answer says.
AnswerIsJudged(c) ==
  /\ pc[c] = "admitted" => answer[c] # None
  /\ answer[c] # None =>
       /\ log[SubjectOf(c)] = answer[c]
       /\ IF EntryFault(c, answer[c]) = None
          THEN pc[c] = "admitted" /\ returned[c] = answer[c].bytes.record
          ELSE pc[c] = "rejected" /\ reason[c] = EntryFault(c, answer[c])

\* What a call is the author of is its prepared record, under its service.
AuthorIsKept(s) ==
  author[s] # None =>
    /\ SubjectOf(author[s]) = s
    /\ prepared[author[s]] # None
    /\ pc[author[s]] \in Done
    /\ log[s] = EntryOf(author[s])

\* A snapshot may be stale, but only by ending later than the Registry does.
SnapshotCovers(c) == limit[KeyOf(c)] <= snapshot[c]

IInv ==
  /\ TypeOK
  /\ \A c \in Calls : VerifiedFirst(c) /\ PreparedIsRight(c)
                      /\ AnswerIsJudged(c) /\ SnapshotCovers(c)
  /\ \A s \in Subjects : AuthorIsKept(s)
=============================================================================
