-------------------------- MODULE AdmissionProofs --------------------------
(***************************************************************************)
(* Theorems about Admission, for every number of calls, documents, keys,   *)
(* organisations and instants, and for whatever the adapters answer.       *)
(***************************************************************************)
EXTENDS Admission, TLAPS

-----------------------------------------------------------------------------
(* What the constants say of a call's document, key and record.            *)

LEMMA ContentType ==
  ASSUME TypeOK, NEW c \in Calls
  PROVE  /\ call[c] \in Arguments
         /\ Doc(c) \in DocumentContents
         /\ KeyOf(c) \in RegistryKeys
         /\ SubjectOf(c) \in Subjects
         /\ Binding[KeyOf(c)] \in [principal: Principals, from: Instants]
  BY WorldAssumption
     DEF TypeOK, Arguments, Doc, DocumentContents, KeyOf, SubjectOf,
         RegistryKeys, Subjects

LEMMA RecordType ==
  ASSUME TypeOK, NEW c \in Calls, NEW v \in Contexts, v.at # Malformed
  PROVE  RecordOf(c, v) \in Records
<1>1. v \in ContextValues
  BY WorldAssumption
<1>2. v.id \in RecordIds /\ v.at \in Instants /\ v.by \in Principals
  BY <1>1 DEF ContextValues
<1>3. /\ call[c].org \in Orgs
      /\ Doc(c).kind \in Kinds /\ Doc(c).hash \in Hashes /\ Doc(c).key \in Keys
      /\ Binding[KeyOf(c)].principal \in Principals
  BY ContentType DEF Arguments, DocumentContents
<1> QED
  BY <1>2, <1>3 DEF RecordOf, Records

\* The reasons the validations produce are reasons.
LEMMA FaultType ==
  ASSUME NEW c, NEW e, NEW v
  PROVE  /\ EntryFault(c, e) \in AdmissionReasons \cup {None}
         /\ PrepareFault(c, v) \in AdmissionReasons \cup {None}
  BY DEF EntryFault, PrepareFault, BindingFault, AdmissionReasons, AdapterReasons

-----------------------------------------------------------------------------
(* Type correctness.                                                       *)

LEMMA TypeInit == Init => TypeOK
<1> SUFFICES ASSUME Init PROVE TypeOK
  OBVIOUS
<1> Never \in Limits
  BY IdentifierAssumption DEF Never, Limits
<1> QED
  BY WorldAssumption DEF Init, TypeOK, Running

\* An adapter that throws, and a validated answer, leave a call well typed.
LEMMA AdapterThrowsType ==
  ASSUME TypeOK, NEW c \in Calls, AdapterThrows(c)
  PROVE  /\ pc' \in [Calls -> Running \cup Done]
         /\ returned' \in [Calls -> ParsedRecords \cup {None}]
         /\ reason' \in [Calls -> Stages \cup AdmissionReasons \cup {None}]
  BY WorldAssumption
     DEF AdapterThrows, Fails, TypeOK, Done, AdmissionReasons

LEMMA ValidateType ==
  ASSUME TypeOK, NEW c \in Calls, NEW e \in Entries, Validate(c, e)
  PROVE  /\ answer' \in [Calls -> Entries \cup {None}]
         /\ pc' \in [Calls -> Running \cup Done]
         /\ returned' \in [Calls -> ParsedRecords \cup {None}]
         /\ reason' \in [Calls -> Stages \cup AdmissionReasons \cup {None}]
<1>1. answer' \in [Calls -> Entries \cup {None}]
  BY DEF Validate, TypeOK
<1>2. CASE EntryFault(c, e) # None /\ Fails(c, EntryFault(c, e))
  BY <1>1, <1>2, FaultType DEF Fails, TypeOK, Done
<1>3. CASE /\ EntryFault(c, e) = None
           /\ pc' = [pc EXCEPT ![c] = "admitted"]
           /\ returned' = [returned EXCEPT ![c] = e.bytes.record]
           /\ UNCHANGED reason
  <2>1. /\ e.bytes \in LogBytes /\ e.bytes.form = "record"
        /\ RecordSchemaValid(e.bytes.record)
    BY <1>3, IdentifierAssumption
       DEF EntryFault, Entries, AdmissionReasons
  <2>2. e.bytes.record \in ParsedRecords
    BY <2>1 DEF LogBytes, ParsedRecords
  <2> QED
    BY <1>1, <1>3, <2>2 DEF TypeOK, Done
<1> QED
  BY <1>2, <1>3 DEF Validate

LEMMA AppendType ==
  ASSUME TypeOK, NEW c \in Calls, prepared[c] # None, AppendTakesEffect(c)
  PROVE  /\ log' \in [Subjects -> Entries \cup {None}]
         /\ author' \in [Subjects -> Calls \cup {None}]
         /\ log'[SubjectOf(c)] \in Entries
<1>1. SubjectOf(c) \in Subjects
  BY ContentType
<1>2. EntryOf(c) \in Entries
  BY WorldAssumption DEF EntryOf, Entries, LogBytes, TypeOK, ParsedRecords
<1> QED
  BY <1>1, <1>2 DEF AppendTakesEffect, TypeOK

\* TypeOK alone is not inductive: the log is well typed because a call that
\* appends has prepared a record.
LEMMA TypeStep == IInv /\ [Next]_vars => TypeOK'
<1> SUFFICES ASSUME IInv, [Next]_vars PROVE TypeOK'
  OBVIOUS
<1> TypeOK
  BY DEF IInv
<1>1. ASSUME NEW c \in Calls, Verify(c) PROVE TypeOK'
  <2>1. Doc(c) \in DocumentContents /\ limit[KeyOf(c)] \in Limits
    BY ContentType DEF TypeOK
  <2>2. Doc(c).flaw \in Stages \cup {None}
    BY <2>1 DEF DocumentContents
  <2>3. Resolvable(c) \subseteq Limits
    BY <2>1, IdentifierAssumption DEF Resolvable, Limits, Never
  <2>4. snapshot' \in [Calls -> Limits]
    BY <1>1, <2>3 DEF Verify, TypeOK
  <2>5. pc' \in [Calls -> Running \cup Done]
    BY <1>1 DEF Verify, Unverified, TypeOK, Running, Done
  <2>6. reason' \in [Calls -> Stages \cup AdmissionReasons \cup {None}]
    BY <1>1, <2>2 DEF Verify, Unverified, TypeOK, Stages
  <2> QED
    BY <1>1, <2>4, <2>5, <2>6 DEF Verify, TypeOK
<1>2. ASSUME NEW c \in Calls, Lookup(c) PROVE TypeOK'
  <2>0. UNCHANGED <<limit, log, author, call, snapshot, prepared>>
    BY <1>2 DEF Lookup
  <2>1. CASE AdapterThrows(c) /\ UNCHANGED answer
    BY <2>0, <2>1, AdapterThrowsType DEF TypeOK
  <2>2. CASE log[SubjectOf(c)] # None /\ Validate(c, log[SubjectOf(c)])
    <3>1. log[SubjectOf(c)] \in Entries
      BY <2>2, ContentType DEF TypeOK
    <3> QED
      BY <2>0, <2>2, <3>1, ValidateType DEF TypeOK
  <2>3. CASE Fails(c, "record_missing") /\ UNCHANGED answer
    BY <2>0, <2>3 DEF TypeOK, Fails, Done, AdmissionReasons
  <2>4. CASE /\ pc' = [pc EXCEPT ![c] = "issue"]
             /\ UNCHANGED <<answer, returned, reason>>
    BY <2>0, <2>4 DEF TypeOK, Running
  <2> QED
    BY <1>2, <2>1, <2>2, <2>3, <2>4 DEF Lookup
<1>3. ASSUME NEW c \in Calls, Issue(c) PROVE TypeOK'
  <2>0. UNCHANGED <<limit, log, author, call, snapshot, answer>>
    BY <1>3 DEF Issue
  <2>1. CASE AdapterThrows(c) /\ UNCHANGED prepared
    BY <2>0, <2>1, AdapterThrowsType DEF TypeOK
  <2>2. ASSUME NEW v \in Contexts, Prepare(c, v) PROVE TypeOK'
    <3>1. CASE PrepareFault(c, v) # None
      BY <2>0, <2>2, <3>1, FaultType DEF Prepare, Fails, TypeOK, Done
    <3>2. CASE PrepareFault(c, v) = None
      <4>1. v.at # Malformed
        BY <3>2, IdentifierAssumption DEF PrepareFault, AdmissionReasons
      <4>2. RecordOf(c, v) \in ParsedRecords
        BY <3>2, <4>1, RecordType, IdentifierAssumption
           DEF PrepareFault, AdmissionReasons, ParsedRecords
      <4> QED
        BY <2>0, <2>2, <3>2, <4>2 DEF Prepare, TypeOK, Running, Done
    <3> QED
      BY <3>1, <3>2
  <2> QED
    BY <1>3, <2>1, <2>2 DEF Issue
<1>4. ASSUME NEW c \in Calls, Append(c) PROVE TypeOK'
  <2>0. UNCHANGED <<limit, call, snapshot, prepared>> /\ prepared[c] # None
    BY <1>4 DEF Append, IInv, PreparedIsRight
  <2>1. CASE AdapterThrows(c) /\ UNCHANGED <<log, author, answer>>
    BY <2>0, <2>1, AdapterThrowsType DEF TypeOK
  <2>2. CASE AppendTakesEffect(c) /\ AdapterThrows(c) /\ UNCHANGED answer
    <3>1. /\ log' \in [Subjects -> Entries \cup {None}]
          /\ author' \in [Subjects -> Calls \cup {None}]
      BY <2>0, <2>2, AppendType
    <3> QED
      BY <2>0, <2>2, <3>1, AdapterThrowsType DEF TypeOK
  <2>3. CASE AppendTakesEffect(c) /\ Validate(c, log'[SubjectOf(c)])
    <3>1. /\ log' \in [Subjects -> Entries \cup {None}]
          /\ author' \in [Subjects -> Calls \cup {None}]
          /\ log'[SubjectOf(c)] \in Entries
      BY <2>0, <2>3, AppendType
    <3> QED
      BY <2>0, <2>3, <3>1, ValidateType DEF TypeOK
  <2> QED
    BY <1>4, <2>1, <2>2, <2>3 DEF Append
<1>5. ASSUME NEW k \in RegistryKeys, RecordStatus(k) PROVE TypeOK'
  BY <1>5 DEF RecordStatus, TypeOK
<1>6. CASE UNCHANGED vars
  BY <1>6 DEF vars, TypeOK
<1> QED
  BY <1>1, <1>2, <1>3, <1>4, <1>5, <1>6 DEF Next, Step
-----------------------------------------------------------------------------
(* The inductive invariant.                                                *)

CallInv(c) == /\ VerifiedFirst(c) /\ PreparedIsRight(c)
              /\ AnswerIsJudged(c) /\ SnapshotCovers(c)

LEMMA IInvInit == Init => IInv
<1> SUFFICES ASSUME Init PROVE IInv
  OBVIOUS
<1>1. TypeOK
  BY TypeInit
<1>2. ASSUME NEW c \in Calls PROVE CallInv(c)
  <2>1. /\ pc[c] = "verify" /\ prepared[c] = None /\ answer[c] = None
        /\ snapshot[c] = Never
    BY DEF Init
  <2>2. limit[KeyOf(c)] <= Never
    BY <1>1, ContentType, IdentifierAssumption DEF TypeOK, Limits, Never
  <2> QED
    BY <2>1, <2>2 DEF CallInv, VerifiedFirst, PreparedIsRight, AnswerIsJudged,
                      SnapshotCovers
<1>3. \A s \in Subjects : AuthorIsKept(s)
  BY DEF Init, AuthorIsKept
<1> QED
  BY <1>1, <1>2, <1>3 DEF IInv, CallInv

\* A step of c touches nothing of the other calls, the Registry or what the
\* log already holds; and a call that has ended takes no step.
LEMMA StepFrame ==
  ASSUME IInv, NEW c \in Calls, Step(c)
  PROVE  /\ call' = call /\ limit' = limit
         /\ \A d \in Calls \ {c} :
              /\ pc'[d] = pc[d] /\ snapshot'[d] = snapshot[d]
              /\ prepared'[d] = prepared[d] /\ answer'[d] = answer[d]
              /\ returned'[d] = returned[d] /\ reason'[d] = reason[d]
         /\ \A s \in Subjects : log[s] # None => log'[s] = log[s]
         /\ pc[c] \notin Done
<1>0. TypeOK /\ SubjectOf(c) \in Subjects
  BY ContentType DEF IInv
<1>1. CASE Verify(c)
  BY <1>0, <1>1 DEF Verify, Unverified, TypeOK, Done
<1>2. CASE Lookup(c)
  BY <1>0, <1>2 DEF Lookup, AdapterThrows, Fails, Validate, TypeOK, Done
<1>3. CASE Issue(c)
  BY <1>0, <1>3 DEF Issue, Prepare, AdapterThrows, Fails, TypeOK, Done
<1>4. CASE Append(c)
  BY <1>0, <1>4
     DEF Append, AppendTakesEffect, AdapterThrows, Fails, Validate, TypeOK, Done
<1> QED
  BY <1>1, <1>2, <1>3, <1>4 DEF Step

\* The calls that do not step keep their part of the invariant.
LEMMA OtherCalls ==
  ASSUME IInv, NEW c \in Calls, Step(c), NEW d \in Calls \ {c}
  PROVE  CallInv(d)'
<1>1. SubjectOf(d) \in Subjects /\ CallInv(d)
  BY ContentType DEF IInv, CallInv
<1>2. /\ call' = call /\ limit' = limit
      /\ pc'[d] = pc[d] /\ snapshot'[d] = snapshot[d]
      /\ prepared'[d] = prepared[d] /\ answer'[d] = answer[d]
      /\ returned'[d] = returned[d] /\ reason'[d] = reason[d]
      /\ log[SubjectOf(d)] # None => log'[SubjectOf(d)] = log[SubjectOf(d)]
  BY <1>1, StepFrame
<1>3. VerifiedFirst(d)' /\ SnapshotCovers(d)'
  BY <1>1, <1>2 DEF CallInv, VerifiedFirst, SnapshotCovers, KeyResolves, KeyOf, Doc
<1>4. PreparedIsRight(d)'
  BY <1>1, <1>2 DEF CallInv, PreparedIsRight, BindingsMatch, RecordSchemaValid,
                    InKeyInterval, KeyOf, Doc
<1>5. AnswerIsJudged(d)'
  <2>1. ASSUME NEW e PROVE EntryFault(d, e)' = EntryFault(d, e)
    BY <1>2 DEF EntryFault, SelfAnchoring, BindingFault, BindingsMatch,
                RecordSchemaValid, InKeyInterval, KeyOf, Doc
  <2> QED
    BY <1>1, <1>2, <2>1 DEF CallInv, AnswerIsJudged, SubjectOf, Doc
<1> QED
  BY <1>3, <1>4, <1>5 DEF CallInv

\* Before it ends a call has no answer, and before it appends no record.
LEMMA RunningCall ==
  ASSUME IInv, NEW c \in Calls
  PROVE  /\ pc[c] \in Running => answer[c] = None
         /\ pc[c] \in Running \ {"append"} => prepared[c] = None
  BY DEF IInv, AnswerIsJudged, PreparedIsRight, Running

\* The two ways an adapter's answer ends a call both leave it judged.
LEMMA ThrowJudged ==
  ASSUME TypeOK, NEW c \in Calls, AdapterThrows(c), answer[c] = None,
         UNCHANGED answer
  PROVE  AnswerIsJudged(c)' /\ pc'[c] \in {"rejected", "raised"}
  BY DEF AdapterThrows, Fails, AnswerIsJudged, TypeOK

LEMMA ValidateJudged ==
  ASSUME TypeOK, NEW c \in Calls, NEW e \in Entries, Validate(c, e),
         log'[SubjectOf(c)] = e, UNCHANGED <<call, snapshot>>
  PROVE  AnswerIsJudged(c)' /\ pc'[c] \in {"admitted", "rejected"}
<1>1. EntryFault(c, e)' = EntryFault(c, e)
  BY DEF EntryFault, SelfAnchoring, BindingFault, BindingsMatch,
         RecordSchemaValid, InKeyInterval, KeyOf, Doc
<1>2. answer'[c] = e /\ e # None
  BY IdentifierAssumption DEF Validate, TypeOK
<1>3. CASE EntryFault(c, e) # None /\ Fails(c, EntryFault(c, e))
  BY <1>1, <1>2, <1>3 DEF Fails, AnswerIsJudged, SubjectOf, Doc, TypeOK
<1>4. CASE /\ EntryFault(c, e) = None
           /\ pc' = [pc EXCEPT ![c] = "admitted"]
           /\ returned' = [returned EXCEPT ![c] = e.bytes.record]
  BY <1>1, <1>2, <1>4 DEF AnswerIsJudged, SubjectOf, Doc, TypeOK
<1> QED
  BY <1>3, <1>4 DEF Validate

LEMMA VerifyKeeps ==
  ASSUME IInv, NEW c \in Calls, Verify(c)
  PROVE  CallInv(c)'
<1>1. /\ TypeOK /\ pc[c] = "verify" /\ answer[c] = None /\ prepared[c] = None
      /\ UNCHANGED <<limit, log, call, answer, prepared>>
  BY RunningCall DEF IInv, Verify, Running
<1>2. pc'[c] \in {"unverified", "lookup", "issue"}
  BY <1>1 DEF Verify, Unverified, TypeOK
<1>3. VerifiedFirst(c)'
  BY <1>1 DEF Verify, Unverified, TypeOK, VerifiedFirst, KeyResolves, KeyOf, Doc
<1>4. SnapshotCovers(c)'
  <2>1. limit[KeyOf(c)] \in Limits /\ SnapshotCovers(c)
    BY <1>1, ContentType DEF TypeOK, IInv
  <2>2. KeyOf(c)' = KeyOf(c)
    BY <1>1 DEF KeyOf, Doc
  <2>3. CASE UNCHANGED snapshot
    BY <1>1, <2>1, <2>2, <2>3 DEF SnapshotCovers
  <2>4. ASSUME NEW x \in Resolvable(c), snapshot' = [snapshot EXCEPT ![c] = x]
        PROVE SnapshotCovers(c)'
    <3>1. limit[KeyOf(c)] <= x
      BY <2>1, <2>4, IdentifierAssumption DEF Resolvable, Limits, Never
    <3> QED
      BY <1>1, <2>2, <2>4, <3>1 DEF SnapshotCovers, TypeOK
  <2> QED
    BY <2>3, <2>4 DEF Verify
<1> QED
  BY <1>1, <1>2, <1>3, <1>4 DEF CallInv, PreparedIsRight, AnswerIsJudged

LEMMA LookupKeeps ==
  ASSUME IInv, NEW c \in Calls, Lookup(c)
  PROVE  CallInv(c)'
<1>1. /\ TypeOK /\ pc[c] = "lookup" /\ answer[c] = None /\ prepared[c] = None
      /\ UNCHANGED <<limit, log, call, snapshot, prepared>>
  BY RunningCall DEF IInv, Lookup, Running
<1>2. VerifiedFirst(c) /\ SnapshotCovers(c)
  BY DEF IInv
<1>3. VerifiedFirst(c)' /\ SnapshotCovers(c)'
  BY <1>1, <1>2 DEF VerifiedFirst, SnapshotCovers, KeyResolves, KeyOf, Doc
<1>4. AnswerIsJudged(c)' /\ pc'[c] \in {"rejected", "raised", "admitted", "issue"}
  <2>1. CASE AdapterThrows(c) /\ UNCHANGED answer
    BY <1>1, <2>1, ThrowJudged
  <2>2. CASE log[SubjectOf(c)] # None /\ Validate(c, log[SubjectOf(c)])
    <3>1. log[SubjectOf(c)] \in Entries
      BY <1>1, <2>2, ContentType DEF TypeOK
    <3> QED
      BY <1>1, <2>2, <3>1, ValidateJudged
  <2>3. CASE Fails(c, "record_missing") /\ UNCHANGED answer
    BY <1>1, <2>3 DEF Fails, AnswerIsJudged, TypeOK
  <2>4. CASE pc' = [pc EXCEPT ![c] = "issue"] /\ UNCHANGED answer
    BY <1>1, <2>4 DEF AnswerIsJudged, TypeOK
  <2> QED
    BY <2>1, <2>2, <2>3, <2>4 DEF Lookup
<1>5. PreparedIsRight(c)'
  BY <1>1, <1>4 DEF PreparedIsRight
<1> QED
  BY <1>3, <1>4, <1>5 DEF CallInv

LEMMA IssueKeeps ==
  ASSUME IInv, NEW c \in Calls, Issue(c)
  PROVE  CallInv(c)'
<1>1. /\ TypeOK /\ pc[c] = "issue" /\ answer[c] = None /\ prepared[c] = None
      /\ UNCHANGED <<limit, log, call, snapshot, answer>>
  BY RunningCall DEF IInv, Issue, Running
<1>2. VerifiedFirst(c) /\ SnapshotCovers(c)
  BY DEF IInv
<1>3. VerifiedFirst(c)' /\ SnapshotCovers(c)'
  BY <1>1, <1>2 DEF VerifiedFirst, SnapshotCovers, KeyResolves, KeyOf, Doc
<1>4. AnswerIsJudged(c)' /\ PreparedIsRight(c)'
  <2>1. CASE AdapterThrows(c) /\ UNCHANGED prepared
    BY <1>1, <2>1, ThrowJudged DEF PreparedIsRight
  <2>2. ASSUME NEW v \in Contexts, Prepare(c, v), PrepareFault(c, v) # None
        PROVE  AnswerIsJudged(c)' /\ PreparedIsRight(c)'
    BY <1>1, <2>2 DEF Prepare, Fails, AnswerIsJudged, PreparedIsRight, TypeOK
  <2>3. ASSUME NEW v \in Contexts, Prepare(c, v), PrepareFault(c, v) = None
        PROVE  AnswerIsJudged(c)' /\ PreparedIsRight(c)'
    <3>1. /\ v.at # Malformed /\ InKeyInterval(c, v.at)
          /\ RecordSchemaValid(RecordOf(c, v)) /\ BindingsMatch(c, RecordOf(c, v))
      BY <2>3, IdentifierAssumption
         DEF PrepareFault, BindingFault, AdmissionReasons, AdapterReasons
    <3>2. prepared'[c] = RecordOf(c, v) /\ RecordOf(c, v).at = v.at
      BY <1>1, <2>3 DEF Prepare, TypeOK, RecordOf
    <3>3. \/ pc'[c] = "prepared"
          \/ pc'[c] = "append" /\ call[c].mode = "first"
      BY <1>1, <2>3 DEF Prepare, TypeOK
    <3>4. RecordOf(c, v) # None
      BY <1>1, <3>1, RecordType, IdentifierAssumption
    <3>5. AnswerIsJudged(c)'
      BY <1>1, <3>3 DEF AnswerIsJudged
    <3>6. PreparedIsRight(c)'
      BY <1>1, <3>1, <3>2, <3>3, <3>4
         DEF PreparedIsRight, BindingsMatch, RecordSchemaValid, InKeyInterval,
             KeyOf, Doc
    <3> QED
      BY <3>5, <3>6
  <2> QED
    BY <1>1, <2>1, <2>2, <2>3 DEF Issue
<1> QED
  BY <1>3, <1>4 DEF CallInv

LEMMA AppendKeeps ==
  ASSUME IInv, NEW c \in Calls, Append(c)
  PROVE  CallInv(c)' /\ pc'[c] \in Done
<1>1. /\ TypeOK /\ pc[c] = "append" /\ answer[c] = None
      /\ UNCHANGED <<limit, call, snapshot, prepared>>
  BY RunningCall DEF IInv, Append, Running
<1>2. VerifiedFirst(c) /\ SnapshotCovers(c) /\ PreparedIsRight(c)
  BY DEF IInv
<1>3. VerifiedFirst(c)' /\ SnapshotCovers(c)'
  BY <1>1, <1>2 DEF VerifiedFirst, SnapshotCovers, KeyResolves, KeyOf, Doc
<1>4. AnswerIsJudged(c)' /\ pc'[c] \in {"rejected", "raised", "admitted"}
  <2>1. CASE AdapterThrows(c) /\ UNCHANGED answer
    BY <1>1, <2>1, ThrowJudged
  <2>2. CASE AppendTakesEffect(c) /\ Validate(c, log'[SubjectOf(c)])
    <3>1. log'[SubjectOf(c)] \in Entries
      BY <1>1, <1>2, <2>2, AppendType DEF PreparedIsRight
    <3> QED
      BY <1>1, <2>2, <3>1, ValidateJudged
  <2> QED
    BY <2>1, <2>2 DEF Append
<1>5. PreparedIsRight(c)'
  BY <1>1, <1>2, <1>4 DEF PreparedIsRight, BindingsMatch, RecordSchemaValid,
                          InKeyInterval, KeyOf, Doc
<1> QED
  BY <1>3, <1>4, <1>5 DEF CallInv, Done

\* A step of c leaves the author of a subject alone, or makes c the author of
\* its own subject, which was vacant.
LEMMA AuthorStep ==
  ASSUME IInv, NEW c \in Calls, Step(c)
  PROVE  \/ UNCHANGED <<log, author>>
         \/ /\ Append(c) /\ log[SubjectOf(c)] = None
            /\ log' = [log EXCEPT ![SubjectOf(c)] = EntryOf(c)]
            /\ author' = [author EXCEPT ![SubjectOf(c)] = c]
  BY DEF Step, Verify, Lookup, Issue, Append, AppendTakesEffect

LEMMA AuthorKeeps ==
  ASSUME IInv, NEW c \in Calls, Step(c), NEW s \in Subjects
  PROVE  AuthorIsKept(s)'
<1>1. TypeOK /\ AuthorIsKept(s) /\ SubjectOf(c) \in Subjects
  BY ContentType DEF IInv
<1>2. CASE author'[s] = author[s] /\ log'[s] = log[s]
  <2>1. CASE author[s] = None
    BY <1>2, <2>1 DEF AuthorIsKept
  <2>2. CASE author[s] # None
    <3>1. author[s] \in Calls /\ pc[author[s]] \in Done /\ author[s] # c
      BY <1>1, <2>2, StepFrame DEF AuthorIsKept, TypeOK
    <3>2. /\ call' = call /\ pc'[author[s]] = pc[author[s]]
          /\ prepared'[author[s]] = prepared[author[s]]
      BY <3>1, StepFrame
    <3> QED
      BY <1>1, <1>2, <2>2, <3>2 DEF AuthorIsKept, SubjectOf, Doc, EntryOf
  <2> QED
    BY <2>1, <2>2
<1>3. CASE /\ Append(c) /\ s = SubjectOf(c)
           /\ log' = [log EXCEPT ![SubjectOf(c)] = EntryOf(c)]
           /\ author' = [author EXCEPT ![SubjectOf(c)] = c]
  <2>1. author'[s] = c /\ log'[s] = EntryOf(c)
    BY <1>1, <1>3 DEF TypeOK
  <2>2. /\ UNCHANGED <<call, prepared>> /\ prepared[c] # None
        /\ pc'[c] \in Done
    BY <1>3, AppendKeeps DEF Append, IInv, PreparedIsRight
  <2> QED
    BY <1>3, <2>1, <2>2 DEF AuthorIsKept, SubjectOf, Doc, EntryOf
<1> QED
  BY <1>1, <1>2, <1>3, AuthorStep DEF TypeOK

LEMMA IInvStep == IInv /\ [Next]_vars => IInv'
<1> SUFFICES ASSUME IInv, [Next]_vars PROVE IInv'
  OBVIOUS
<1>1. TypeOK'
  BY TypeStep
<1>2. ASSUME NEW c \in Calls, Step(c) PROVE IInv'
  <2>1. ASSUME NEW d \in Calls PROVE CallInv(d)'
    <3>1. CASE d = c
      BY <1>2, <3>1, VerifyKeeps, LookupKeeps, IssueKeeps, AppendKeeps DEF Step
    <3>2. CASE d # c
      BY <1>2, <3>2, OtherCalls
    <3> QED
      BY <3>1, <3>2
  <2>2. ASSUME NEW s \in Subjects PROVE AuthorIsKept(s)'
    BY <1>2, <2>2, AuthorKeeps
  <2> QED
    BY <1>1, <2>1, <2>2 DEF IInv, CallInv
<1>3. ASSUME NEW k \in RegistryKeys, RecordStatus(k) PROVE IInv'
  <2>1. UNCHANGED <<log, author, pc, call, snapshot, prepared, answer, returned,
                    reason>>
    BY <1>3 DEF RecordStatus
  <2>2. ASSUME NEW d \in Calls PROVE SnapshotCovers(d)'
    <3>1. KeyOf(d) \in RegistryKeys /\ KeyOf(d)' = KeyOf(d) /\ SnapshotCovers(d)
      BY <2>1, ContentType DEF IInv, KeyOf, Doc
    <3>2. limit'[KeyOf(d)] \in Nat /\ limit'[KeyOf(d)] <= limit[KeyOf(d)]
      BY <1>3, <3>1, IdentifierAssumption
         DEF RecordStatus, IInv, TypeOK, Limits, Never
    <3>3. limit[KeyOf(d)] \in Nat /\ snapshot[d] \in Nat
      BY <3>1, IdentifierAssumption DEF IInv, TypeOK, Limits, Never
    <3> QED
      BY <2>1, <3>1, <3>2, <3>3 DEF SnapshotCovers
  <2>3. ASSUME NEW d \in Calls PROVE VerifiedFirst(d)' /\ PreparedIsRight(d)'
    BY <2>1 DEF IInv, VerifiedFirst, PreparedIsRight, KeyResolves, KeyOf, Doc,
                BindingsMatch, RecordSchemaValid, InKeyInterval
  <2>4. ASSUME NEW d \in Calls PROVE AnswerIsJudged(d)'
    <3>1. EntryFault(d, answer[d])' = EntryFault(d, answer[d])
      BY <2>1 DEF EntryFault, SelfAnchoring, BindingFault, BindingsMatch,
                  RecordSchemaValid, InKeyInterval, KeyOf, Doc
    <3> QED
      BY <2>1, <3>1 DEF IInv, AnswerIsJudged, SubjectOf, Doc
  <2>5. ASSUME NEW s \in Subjects PROVE AuthorIsKept(s)'
    BY <2>1 DEF IInv, AuthorIsKept, SubjectOf, Doc, EntryOf
  <2> QED
    BY <1>1, <2>2, <2>3, <2>4, <2>5 DEF IInv
<1>4. CASE UNCHANGED vars
  <2>1. ASSUME NEW d \in Calls PROVE EntryFault(d, answer[d])' = EntryFault(d, answer[d])
    BY <1>4 DEF vars, EntryFault, SelfAnchoring, BindingFault, BindingsMatch,
                RecordSchemaValid, InKeyInterval, KeyOf, Doc
  <2>2. ASSUME NEW d \in Calls PROVE CallInv(d)'
    <3>1. VerifiedFirst(d)' /\ PreparedIsRight(d)' /\ SnapshotCovers(d)'
      BY <1>4 DEF vars, IInv, VerifiedFirst, PreparedIsRight, SnapshotCovers,
                  KeyResolves, KeyOf, Doc, BindingsMatch, RecordSchemaValid,
                  InKeyInterval
    <3> QED
      BY <1>4, <2>1, <3>1 DEF vars, IInv, CallInv, AnswerIsJudged, SubjectOf, Doc
  <2>3. ASSUME NEW s \in Subjects PROVE AuthorIsKept(s)'
    BY <1>4 DEF vars, IInv, AuthorIsKept, SubjectOf, Doc, EntryOf
  <2> QED
    BY <1>1, <2>2, <2>3 DEF IInv, CallInv
<1> QED
  BY <1>2, <1>3, <1>4 DEF Next

\* The invariant the other theorems follow from.
THEOREM Inductive == Spec => []IInv
<1> QED
  BY IInvInit, IInvStep, PTL DEF Spec

\* The state of every reachable call, log and Registry is well typed.
THEOREM TypeCorrect == Spec => []TypeOK
<1>1. IInv => TypeOK
  BY DEF IInv
<1> QED
  BY <1>1, Inductive, PTL

-----------------------------------------------------------------------------
(* What the invariant gives.                                               *)

\* An entry that passes validate_authenticated_record.
LEMMA FaultlessEntry ==
  ASSUME NEW c \in Calls, NEW e \in Entries, EntryFault(c, e) = None
  PROVE  /\ e.bytes = [form |-> "record", record |-> e.bytes.record]
         /\ e.bytes.record \in Records
         /\ RecordSchemaValid(e.bytes.record)
         /\ BindingsMatch(c, e.bytes.record)
         /\ e.bytes.record.by = e.service
         /\ InKeyInterval(c, e.bytes.record.at)
<1>1. /\ e.bytes.form = "record"
      /\ RecordSchemaValid(e.bytes.record)
      /\ BindingFault(c, e.bytes.record, e.service) = None
  BY IdentifierAssumption
     DEF EntryFault, AdmissionReasons, AdapterReasons
<1>2. e.bytes \in [form: {"record"}, record: Records]
  BY <1>1 DEF Entries, LogBytes
<1> QED
  BY <1>1, <1>2, IdentifierAssumption
     DEF BindingFault, AdmissionReasons, AdapterReasons

LEMMA AdmittedEntry ==
  ASSUME IInv, NEW c \in Calls, Admitted(c)
  PROVE  /\ answer[c] \in Entries /\ log[SubjectOf(c)] = answer[c]
         /\ answer[c] # None
         /\ EntryFault(c, answer[c]) = None
         /\ returned[c] = answer[c].bytes.record
  BY DEF IInv, TypeOK, AnswerIsJudged, Admitted

\* Calls that are admitted for one subject return one record, because each
\* returns the record the log holds, and the log holds one.
THEOREM AgreementHolds == Spec => []Agreement
<1>1. IInv => Agreement
  BY AdmittedEntry DEF Agreement
<1> QED
  BY <1>1, Inductive, PTL

\* What a caller was told is admitted is in the log, and stays there.
THEOREM AdmissionIsDurable == Spec => []AdmittedIsCommitted
<1>1. IInv => AdmittedIsCommitted
  BY AdmittedEntry, FaultlessEntry DEF AdmittedIsCommitted
<1> QED
  BY <1>1, Inductive, PTL

\* No admission rests on an unverified document, a record about something
\* else, an unauthenticated service or an instant outside the key's validity.
THEOREM AdmissionIsSound == Spec => []AdmittedIsSound
<1>1. ASSUME IInv, NEW c \in Calls, Admitted(c)
      PROVE  /\ Doc(c).flaw = None /\ KeyResolves(c, snapshot[c])
             /\ BindingsMatch(c, returned[c])
             /\ returned[c].by \in Services
             /\ returned[c].by = log[SubjectOf(c)].service
             /\ Binding[KeyOf(c)].from <= returned[c].at
             /\ returned[c].at < snapshot[c]
  <2>1. Doc(c).flaw = None /\ KeyResolves(c, snapshot[c])
    BY <1>1 DEF IInv, VerifiedFirst, Admitted
  <2>2. /\ answer[c] \in Entries /\ EntryFault(c, answer[c]) = None
        /\ log[SubjectOf(c)] = answer[c] /\ returned[c] = answer[c].bytes.record
    BY <1>1, AdmittedEntry
  <2>3. /\ BindingsMatch(c, returned[c]) /\ RecordSchemaValid(returned[c])
        /\ returned[c].by = answer[c].service
        /\ InKeyInterval(c, returned[c].at)
    BY <2>2, FaultlessEntry
  <2> QED
    BY <2>1, <2>2, <2>3 DEF RecordSchemaValid, InKeyInterval
<1>2. IInv => AdmittedIsSound
  BY <1>1 DEF AdmittedIsSound
<1> QED
  BY <1>2, Inductive, PTL

\* Two keys that signed one payload are never both admitted for it.
THEOREM KeysExclude == Spec => []OneKeyPerSubject
<1>1. ASSUME IInv, NEW c \in Calls, NEW d \in Calls, Admitted(c), Admitted(d),
             SubjectOf(c) = SubjectOf(d)
      PROVE  KeyOf(c) = KeyOf(d) /\ Doc(c).kind = Doc(d).kind
  <2>1. answer[c] = answer[d]
    BY <1>1, AdmittedEntry
  <2>2. /\ BindingsMatch(c, answer[c].bytes.record)
        /\ BindingsMatch(d, answer[c].bytes.record)
    BY <1>1, <2>1, AdmittedEntry, FaultlessEntry
  <2> QED
    BY <2>2 DEF BindingsMatch, KeyOf
<1>2. IInv => OneKeyPerSubject
  BY <1>1 DEF OneKeyPerSubject
<1> QED
  BY <1>2, Inductive, PTL

-----------------------------------------------------------------------------
(* What a rejection means.                                                 *)

\* A call the record turned down failed validate_authenticated_record.
LEMMA RejectedEntry ==
  ASSUME IInv, NEW c \in Calls, pc[c] = "rejected", answer[c] # None
  PROVE  /\ answer[c] \in Entries /\ log[SubjectOf(c)] = answer[c]
         /\ EntryFault(c, answer[c]) # None
         /\ reason[c] = EntryFault(c, answer[c])
  BY DEF IInv, TypeOK, AnswerIsJudged

\* What the author of an entry prepared is what the log holds.
LEMMA AuthoredEntry ==
  ASSUME IInv, NEW a \in Calls, NEW s \in Subjects, author[s] = a
  PROVE  /\ SubjectOf(a) = s /\ log[s] = EntryOf(a)
         /\ BindingsMatch(a, prepared[a]) /\ RecordSchemaValid(prepared[a])
         /\ InKeyInterval(a, prepared[a].at)
  BY IdentifierAssumption DEF IInv, AuthorIsKept, PreparedIsRight

\* A call's own record is turned down only over the service it names.
THEOREM OwnRecordFails == Spec => []NoSelfPoisoning
<1>1. ASSUME IInv, NEW c \in Calls, author[SubjectOf(c)] = c,
             pc[c] = "rejected", answer[c] # None
      PROVE  /\ reason[c] = "log_authentication_failed"
             /\ prepared[c].by # Appender[c]
  <2>1. SubjectOf(c) \in Subjects
    BY <1>1, ContentType DEF IInv
  <2>2. answer[c] = EntryOf(c)
    BY <1>1, <2>1, RejectedEntry, AuthoredEntry
  <2>3. ~SelfAnchoring(c, EntryOf(c).bytes) /\ EntryOf(c).bytes.form = "record"
    BY DEF SelfAnchoring, EntryOf
  <2>4. EntryFault(c, EntryOf(c)) = BindingFault(c, prepared[c], Appender[c])
    BY <1>1, <2>1, <2>3, AuthoredEntry DEF EntryFault, EntryOf
  <2> QED
    BY <1>1, <2>1, <2>2, <2>4, RejectedEntry, AuthoredEntry DEF BindingFault
<1>2. IInv => NoSelfPoisoning
  BY <1>1 DEF NoSelfPoisoning
<1> QED
  BY <1>2, Inductive, PTL

\* A document committed under its right service is turned down by its record
\* only after the Registry has ended its key's validity early enough.
THEOREM RetryIsHonoured == Spec => []RetryHonoursCommit
<1>1. ASSUME IInv, NEW a \in Calls, NEW c \in Calls, author[SubjectOf(c)] = a,
             prepared[a].by = Appender[a], call[c].org = call[a].org,
             call[c].document = call[a].document,
             pc[c] = "rejected", answer[c] # None
      PROVE  /\ reason[c] = "trusted_time_outside_key_interval"
             /\ snapshot[c] < snapshot[a]
             /\ snapshot[c] <= prepared[a].at
  <2>1. TypeOK /\ SubjectOf(c) \in Subjects
    BY <1>1, ContentType DEF IInv
  <2>2. answer[c] = EntryOf(a)
    BY <1>1, <2>1, RejectedEntry, AuthoredEntry
  <2>3. KeyOf(c) = KeyOf(a) /\ Doc(c) = Doc(a)
    BY <1>1 DEF KeyOf, Doc
  <2>4. BindingsMatch(c, prepared[a]) /\ RecordSchemaValid(prepared[a])
    BY <1>1, <2>1, <2>3, AuthoredEntry DEF BindingsMatch
  <2>5. EntryFault(c, EntryOf(a)) = BindingFault(c, prepared[a], Appender[a])
    BY <2>4 DEF EntryFault, EntryOf, SelfAnchoring
  <2>6. /\ reason[c] = "trusted_time_outside_key_interval"
        /\ ~InKeyInterval(c, prepared[a].at)
    BY <1>1, <2>2, <2>4, <2>5, RejectedEntry DEF BindingFault
  <2>7. InKeyInterval(a, prepared[a].at)
    BY <1>1, <2>1, AuthoredEntry
  <2>8. prepared[a].at \in Nat /\ snapshot[a] \in Nat /\ snapshot[c] \in Nat
    <3>1. prepared[a] \in Records
      BY <1>1, <2>1, IdentifierAssumption
         DEF IInv, AuthorIsKept, TypeOK, ParsedRecords
    <3> QED
      BY <2>1, <3>1, IdentifierAssumption
         DEF Records, Instants, TypeOK, Limits, Never
  <2> QED
    BY <2>3, <2>6, <2>7, <2>8 DEF InKeyInterval
<1>2. IInv => RetryHonoursCommit
  BY <1>1 DEF RetryHonoursCommit
<1> QED
  BY <1>2, Inductive, PTL

\* A record found outside its key's validity is outside it for good.
THEOREM TimeRejectionHolds == Spec => []TimeRejectionIsFinal
<1>1. ASSUME IInv, NEW c \in Calls, pc[c] = "rejected", answer[c] # None,
             reason[c] = "trusted_time_outside_key_interval"
      PROVE  \/ answer[c].bytes.record.at < Binding[KeyOf(c)].from
             \/ limit[KeyOf(c)] <= answer[c].bytes.record.at
  <2> DEFINE t == answer[c].bytes.record.at
  <2>1. /\ TypeOK /\ answer[c] \in Entries /\ limit[KeyOf(c)] <= snapshot[c]
        /\ EntryFault(c, answer[c]) = "trusted_time_outside_key_interval"
    BY <1>1, RejectedEntry DEF IInv, SnapshotCovers
  <2>2. answer[c].bytes.form = "record" /\ ~InKeyInterval(c, t)
    BY <2>1, IdentifierAssumption DEF EntryFault, BindingFault, AdmissionReasons
  <2>3. answer[c].bytes.record \in Records
    BY <2>1, <2>2 DEF Entries, LogBytes
  <2>4. /\ t \in Nat /\ Binding[KeyOf(c)].from \in Nat
        /\ limit[KeyOf(c)] \in Nat /\ snapshot[c] \in Nat
    BY <2>1, <2>3, ContentType, IdentifierAssumption
       DEF Records, Instants, TypeOK, Limits, Never
  <2> QED
    BY <2>1, <2>2, <2>4 DEF InKeyInterval
<1>2. IInv => TimeRejectionIsFinal
  BY <1>1 DEF TimeRejectionIsFinal
<1> QED
  BY <1>2, Inductive, PTL

\* The log's answer to a verified document, and how it is judged.
LEMMA JudgedEntry ==
  ASSUME IInv, NEW c \in Calls, answer[c] # None
  PROVE  /\ answer[c] \in Entries /\ log[SubjectOf(c)] = answer[c]
         /\ Doc(c).flaw = None /\ call[c].document \in Documents
         /\ IF EntryFault(c, answer[c]) = None
            THEN Admitted(c) /\ returned[c] = answer[c].bytes.record
            ELSE ~Admitted(c) /\ reason[c] = EntryFault(c, answer[c])
<1>1. call[c].document \in Documents
  BY ContentType DEF IInv, Arguments
<1> QED
  BY <1>1 DEF IInv, TypeOK, AnswerIsJudged, VerifiedFirst, Admitted

\* What is recognised as the event itself is every text of its form.
LEMMA SelfAnchoringIs ==
  ASSUME IInv, NEW c \in Calls, answer[c] # None, NEW bytes
  PROVE  SelfAnchoring(c, bytes) <=>
           /\ Doc(c).kind = "event" /\ bytes.form = "document"
           /\ SameForm(bytes.document, call[c].document)
<1>1. SameForm(call[c].document, call[c].document)
  BY JudgedEntry, IdentifierAssumption DEF SameForm, Doc, Stages
<1> QED
  BY <1>1 DEF SelfAnchoring

\* Calls with spellings of one form are judged alike, and an event that comes
\* back as its own record is recognised in every spelling.
THEOREM SpellingsAgree == Spec => []SpellingIsIrrelevant
<1>1. ASSUME IInv, NEW c \in Calls, NEW d \in Calls,
             answer[c] # None, answer[d] # None,
             SameForm(call[c].document, call[d].document),
             Doc(c).kind = Doc(d).kind, call[c].org = call[d].org,
             snapshot[c] = snapshot[d]
      PROVE  IF Admitted(c)
             THEN Admitted(d) /\ returned[c] = returned[d]
             ELSE ~Admitted(d) /\ reason[c] = reason[d]
  <2>1. Doc(c) = Doc(d)
    BY <1>1, JudgedEntry, WorldAssumption DEF Doc
  <2>2. answer[c] = answer[d]
    BY <1>1, <2>1, JudgedEntry DEF SubjectOf
  <2>3. \A bytes : SelfAnchoring(c, bytes) <=> SelfAnchoring(d, bytes)
    BY <1>1, <2>1, SelfAnchoringIs DEF SameForm, Doc
  <2>4. EntryFault(c, answer[c]) = EntryFault(d, answer[c])
    BY <1>1, <2>1, <2>3
       DEF EntryFault, BindingFault, BindingsMatch, InKeyInterval, KeyOf
  <2> QED
    BY <1>1, <2>2, <2>4, JudgedEntry
<1>2. ASSUME IInv, NEW c \in Calls, answer[c] # None,
             answer[c].bytes.form # "record"
      PROVE  reason[c] = IF /\ Doc(c).kind = "event"
                            /\ answer[c].bytes.form = "document"
                            /\ SameForm(answer[c].bytes.document, call[c].document)
                         THEN "event_self_anchoring" ELSE "record_schema_invalid"
  <2>1. SelfAnchoring(c, answer[c].bytes) <=>
          /\ Doc(c).kind = "event" /\ answer[c].bytes.form = "document"
          /\ SameForm(answer[c].bytes.document, call[c].document)
    BY <1>2, SelfAnchoringIs
  <2>2. EntryFault(c, answer[c]) # None
    BY <1>2, IdentifierAssumption DEF EntryFault, AdmissionReasons
  <2> QED
    BY <1>2, <2>1, <2>2, JudgedEntry DEF EntryFault
<1>3. IInv => SpellingIsIrrelevant
  BY <1>1, <1>2 DEF SpellingIsIrrelevant
<1> QED
  BY <1>3, Inductive, PTL

-----------------------------------------------------------------------------
(* What a step may do to the log.                                          *)

\* Only the append of a verified admit_first call changes the log, at a
\* vacant subject of its own, and writes the record that call prepared.
THEOREM AppendsAreDisciplined == Spec => AppendDiscipline
<1> DEFINE Allowed(s) ==
      log'[s] # log[s] =>
        /\ log[s] = None
        /\ \E c \in Calls :
             /\ call[c].mode = "first" /\ SubjectOf(c) = s
             /\ Doc(c).flaw = None /\ KeyResolves(c, snapshot[c])
             /\ log'[s].bytes.record = prepared[c]
             /\ Binding[KeyOf(c)].from <= prepared[c].at
             /\ prepared[c].at < snapshot[c]
<1>1. ASSUME IInv, NEW c \in Calls, Step(c), NEW s \in Subjects PROVE Allowed(s)
  <2>1. CASE UNCHANGED <<log, author>>
    BY <2>1
  <2>2. CASE /\ Append(c) /\ log[SubjectOf(c)] = None
             /\ log' = [log EXCEPT ![SubjectOf(c)] = EntryOf(c)]
    <3>1. /\ pc[c] = "append" /\ TypeOK /\ VerifiedFirst(c) /\ PreparedIsRight(c)
      BY <1>1, <2>2 DEF Append, IInv
    <3>2. /\ Doc(c).flaw = None /\ KeyResolves(c, snapshot[c])
          /\ call[c].mode = "first" /\ InKeyInterval(c, prepared[c].at)
      BY <3>1 DEF VerifiedFirst, PreparedIsRight
    <3>3. ASSUME log'[s] # log[s]
          PROVE  s = SubjectOf(c) /\ log'[s].bytes.record = prepared[c]
      BY <2>2, <3>1, <3>3 DEF TypeOK, EntryOf
    <3> QED
      BY <2>2, <3>2, <3>3 DEF InKeyInterval
  <2> QED
    BY <1>1, <2>1, <2>2, AuthorStep
<1>2. ASSUME NEW k \in RegistryKeys, RecordStatus(k), NEW s \in Subjects
      PROVE  Allowed(s)
  BY <1>2 DEF RecordStatus
<1>3. IInv /\ [Next]_vars => [\A s \in Subjects : Allowed(s)]_vars
  BY <1>1, <1>2 DEF Next
<1> QED
  BY <1>3, Inductive, PTL DEF Spec, AppendDiscipline

-----------------------------------------------------------------------------
(* The service and its log implement a write-once ledger.                  *)

Verdicts == [c \in Calls |-> VerdictOf(c)]

VerdictIsEntry ==
  \A c \in Calls : Admitted(c) =>
    /\ log[SubjectOf(c)] # None
    /\ VerdictOf(c) = <<"admitted", SubjectOf(c), log[SubjectOf(c)]>>

LEMMA AdmittedVerdict == IInv => VerdictIsEntry
<1> SUFFICES ASSUME IInv, NEW c \in Calls, Admitted(c)
             PROVE  /\ log[SubjectOf(c)] # None
                    /\ VerdictOf(c) = <<"admitted", SubjectOf(c), log[SubjectOf(c)]>>
  BY DEF VerdictIsEntry
<1>1. /\ answer[c] \in Entries /\ answer[c] # None
      /\ log[SubjectOf(c)] = answer[c]
      /\ answer[c].bytes = [form |-> "record", record |-> returned[c]]
  BY AdmittedEntry, FaultlessEntry
<1>2. answer[c] = [bytes |-> [form |-> "record", record |-> returned[c]],
                   service |-> answer[c].service]
  BY <1>1 DEF Entries
<1>3. pc[c] \notin Running
  BY DEF Admitted, Running
<1> QED
  BY <1>1, <1>2, <1>3 DEF VerdictOf

LEMMA LedgerInit == Init => Ledger!Init
<1> SUFFICES ASSUME Init PROVE Ledger!Init
  OBVIOUS
<1>1. log \in [Subjects -> Entries \cup {None}]
  BY WorldAssumption DEF Init
<1>2. \A c \in Calls : VerdictOf(c) = <<"open">>
  BY DEF Init, VerdictOf, Running
<1> QED
  BY <1>1, <1>2 DEF Ledger!Init

LEMMA LedgerStep == IInv /\ [Next]_vars => [Ledger!Next]_<<log, Verdicts>>
<1> SUFFICES ASSUME IInv, [Next]_vars PROVE [Ledger!Next]_<<log, Verdicts>>
  OBVIOUS
<1>1. VerdictIsEntry' /\ TypeOK'
  <2>1. (IInv => VerdictIsEntry)'
    BY AdmittedVerdict, PTL
  <2> QED
    BY <2>1, IInvStep DEF IInv
<1>2. ASSUME NEW c \in Calls, Step(c) PROVE Ledger!Next
  <2>1. \/ UNCHANGED log
        \/ \E s \in Subjects : Ledger!Commit(s)
    <3>1. SubjectOf(c) \in Subjects /\ log'[SubjectOf(c)] \in Entries \cup {None}
      BY <1>1, ContentType DEF IInv, TypeOK
    <3>2. CASE /\ Append(c) /\ log[SubjectOf(c)] = None
               /\ log' = [log EXCEPT ![SubjectOf(c)] = EntryOf(c)]
      <4>1. EntryOf(c) \in Entries /\ log'[SubjectOf(c)] = EntryOf(c)
        BY <3>1, <3>2, WorldAssumption
           DEF Append, IInv, PreparedIsRight, TypeOK, ParsedRecords, EntryOf,
               Entries, LogBytes
      <4> QED
        BY <3>1, <3>2, <4>1 DEF Ledger!Commit
    <3> QED
      BY <1>2, <3>2, AuthorStep
  <2>2. VerdictOf(c) = <<"open">>
    BY <1>2, StepFrame DEF IInv, TypeOK, VerdictOf
  <2>3. \A d \in Calls \ {c} : VerdictOf(d)' = VerdictOf(d)
    BY <1>2, StepFrame DEF VerdictOf, Admitted, SubjectOf, Doc
  <2>4. SubjectOf(c)' = SubjectOf(c) /\ SubjectOf(c) \in Subjects
    BY <1>2, StepFrame, ContentType DEF IInv, SubjectOf, Doc
  <2>5. Verdicts' = [Verdicts EXCEPT ![c] = VerdictOf(c)']
    BY <2>3 DEF Verdicts
  <2>6. CASE pc'[c] \in Running
    <3>1. VerdictOf(c)' = <<"open">>
      BY <2>6 DEF VerdictOf
    <3>2. UNCHANGED Verdicts
      BY <2>2, <2>3, <3>1 DEF Verdicts
    <3> QED
      BY <2>1, <3>2 DEF Ledger!Next, Verdicts
  <2>7. CASE pc'[c] = "admitted"
    <3>1. /\ log'[SubjectOf(c)] # None
          /\ VerdictOf(c)' = <<"admitted", SubjectOf(c), log'[SubjectOf(c)]>>
      BY <1>1, <2>4, <2>7 DEF VerdictIsEntry, Admitted
    <3>2. Ledger!Admit(c, SubjectOf(c))
      BY <2>2, <2>5, <3>1 DEF Ledger!Admit, Verdicts
    <3> QED
      BY <2>1, <2>4, <3>2 DEF Ledger!Next
  <2>8. CASE pc'[c] \notin Running \cup {"admitted"}
    <3>1. VerdictOf(c)' = <<"refused">>
      BY <2>8 DEF VerdictOf, Admitted
    <3>2. Ledger!Refuse(c)
      BY <2>2, <2>5, <3>1 DEF Ledger!Refuse, Verdicts
    <3> QED
      BY <2>1, <3>2 DEF Ledger!Next
  <2> QED
    BY <2>6, <2>7, <2>8
<1>3. ASSUME NEW k \in RegistryKeys, RecordStatus(k)
      PROVE  UNCHANGED <<log, Verdicts>>
  BY <1>3 DEF RecordStatus, Verdicts, VerdictOf, Admitted, SubjectOf, Doc
<1>4. CASE UNCHANGED vars
  BY <1>4 DEF vars, Verdicts, VerdictOf, Admitted, SubjectOf, Doc
<1> QED
  BY <1>2, <1>3, <1>4 DEF Next

\* Every behaviour of the calls is one of the abstract ledger.
THEOREM ImplementsLedger == Spec => LedgerSpec
<1> QED
  BY LedgerInit, LedgerStep, Inductive, PTL
     DEF Spec, LedgerSpec, Ledger!Spec, Verdicts
=============================================================================
