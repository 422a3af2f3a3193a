# A formal model of the MissionWeaveProtocol C++ SDK

TLA+ modules translated from `src/`, TLC configurations that check them on small
instances, and theorems about them that TLAPS proves for every value of the
constants. `PROJECT.json` lists components, runs, mutants, the definition-to-line
map, hazards and theorems; this file says how to read them.

## 1. The system

The SDK is a C++ library. It persists nothing and starts no thread; its callers
do. State lives in three places outside it that the library reads or writes
through adapters: an Organization's **Key Registry** (declarations of signing
keys and their validity), its **Admission Log** (the first committed admission of
each signed payload) and the **trusted context** that names the time and service
of an admission. What is hard about it is therefore hard *between* its calls, or
inside its pure algorithms.

| part | source | state | operations |
|---|---|---|---|
| AdmissionService | `src/src/admission.cpp` | per call: verified document, prepared record, authenticated answer | `admit_first`, `verify_historical_admission`, `prepare_first_admission` |
| Key Registry resolution | `src/src/agent_registry_key_resolution.cpp` | per call: bindings, tuple ids, owners, status histories, fold | `resolve_agent_registry_key` |
| SignedDocumentCodec | `src/src/signed_document.cpp` | per call: document, envelope, resolved key | `sign`, `verify` |
| Protocol instants | `src/src/signed_document.cpp` 164-231, 606-627 | none | `parse_instant`, `ExactInstant` ordering |
| Identifier URIs, schema catalog | `src/src/schema.cpp` | compiled validators, built once | `validate`, `is_protocol_uri` |
| Strict JSON | `src/src/json.cpp` | position and recursion of one scan | `parse_strict_json` |
| Canonical JSON | `src/src/canonical.cpp` | none | `canonical_json`, `canonical_sha256` |
| Ed25519 point and scalar validation | `src/src/signed_document.cpp` 286-511 | none | `decode_strict_ed25519_public_key`, `validate_signature_encoding` |
| Ed25519 helpers | `src/src/crypto.cpp` | none | `sign_document`, `verify_document`, base64url |
| Protocol bundle | `src/src/bundle.cpp`, `src/scripts/generate_embedded_assets.py` | embedded bytes, constants of a release | lookup; `verify`, `verify_cryptography`, `verify_admission` |
| FrameCodec | `src/src/frame.cpp` | none | `decode`, `encode` |
| ConformanceRunner | `src/src/conformance.cpp` | the names it has seen, the results | `run`, the exit code |
| Version, repository scripts, examples | | | |

How they interact: `AdmissionService` calls `SignedDocumentCodec::verify`, which
runs six stages in order - strict JSON, schema (with identifier URIs), signature
envelope (instants, base64url, Ed25519 encodings), key resolution (the caller's
`KeyResolver`, then `resolve_agent_registry_key`), canonicalization, signature -
and reports the first that fails. Only then does it consult the log, then the
context, then the log again. `KeyRegistry` and the codec decode public keys with
the same point validation. The schemas that stage two compiles, and the vectors
the conformance runner runs, are files of the bundle: a script writes them into a
table, `find_asset` searches it, `verify` compares it with a pinned release.

What makes each part correct:

* **Admission.** All callers that are told "admitted" for one payload were told
  the same record, the log holds it, and it was accepted while the signing key
  was valid - though calls race, the Registry changes under them, appends lose
  their answers, and the log and the context may answer with anything.
* **Registry resolution.** A key is selected only from a Registry that is
  consistent as a whole, and as a reference that knows nothing of order or
  repetition says; more declarations only narrow what was resolved.
* **Codec.** What verifies was signed, by a principal that may sign it; no one
  but the holder of the key can give it a second form; what `sign` returns
  verifies.
* **Instants, URIs, JSON, canonical form.** Each hand-written scanner computes what the
  calendar, the clock or the grammar says; a value has one canonical text, which
  reads back as it.
* **Keys and signatures.** Each has one text and one encoding, of a point of the
  prime subgroup: a signature cannot be spelt anew.
* **Bundle.** What was put into the table is found; what was verified is the
  release; a conformance run judges the files that were put in, all of them, or
  says that it cannot.

## 2. Modules

| module | models | composed with |
|---|---|---|
| `Admission` | the calls of `AdmissionService`, the log, the Registry's effective validity, the context | abstract: `AdmissionLedger` |
| `AdmissionLedger` | the promise: a write-once ledger and calls that end once | |
| `KeyRegistry` | one `resolve_agent_registry_key` over every Registry that can be declared | |
| `SignedDocument` | signers, carriers, `verify` cut at its call of the resolver, a growing Registry | |
| `ProtocolInstant` | `parse_instant`, `ExactInstant`, held to a clock | |
| `ProtocolUri` | `is_protocol_uri`, held to the grammar of RFC 3986 | |
| `SchemaCatalog` | `SchemaCatalog::validate` over the schemas' alternatives, what is taken for a frame | extends `ProtocolUri` |
| `StrictJson` | the scanner of `parse_strict_json` and `sanitize_unpaired_surrogates`, held to the grammar of RFC 8259 | |
| `Utf`, `Unicode` | UTF-8 and UTF-16 as the scanner and the canonical serialiser decode and encode them; what keeps them at work | `Unicode` extends `Utf` |
| `CanonicalText`, `NumberText` | the texts of strings and numbers in `canonical_json`; the digits, point and exponent of a number | `CanonicalText` extends `NumberText` |
| `CanonicalJson` | `canonical_json` with arrays and objects | extends `CanonicalText`, `Utf`, `Texts` |
| `Edwards`, `Base64Url`, `SignatureText` | point validation over a small field; both base64url decoders; keys and signatures spelt out | `SignatureText` composes the two |
| `ProtocolBundle` | the source tree, the generated table, its search and verification, the construction of the schema catalog, the conformance run | extends `Texts` |
| `Texts` | searches and comparisons of `std::string_view` | |
| `AdmissionProofs`, `KeyRegistryProofs`, `SignedDocumentProofs`, `ProtocolInstantProofs`, `ProtocolUriProofs`, `TextProofs`, `ProtocolBundleProofs`, `SignatureTextProofs` | theorems | extend their modules and TLAPS |
| `MC...` | constants for TLC | extend their modules |

### Admission

Variables per call are the local variables of the C++ functions that survive an
adapter call: `snapshot` is the effective end of the resolved key's validity as
`verify` read it, `prepared` the record `prepare_first_admission` built, `answer`
what the log authenticated, `returned` and `reason` how the call ended. `limit`,
`log` are the Registry and the log; `author` is a history variable.

`Verify(c)` is `SignedDocumentCodec::verify` with everything it may answer;
`Lookup(c)`, `Issue(c)`, `Append(c)` are the three adapter calls, each with the
code up to the next one: a lookup that finds an entry validates it and ends the
call. `RecordStatus(k)` is the Registry. Every adapter may throw a reason of its
own, or anything else; an append may take effect and then throw, or do neither.
A caller that crashes is a call that takes no further step, its retry another
call: the SDK keeps nothing between calls.

Abstractions: an instant is a small number; the effective `validUntil` and
`revokedAt` are compared alike, so only the earlier of the two is kept; a document
is its canonical form, kind, hash, key, principal, time, and the stage it is bound
to fail at. Two documents may be spellings of one canonical form; of one kind they
then say one thing (`WorldAssumption`). `SelfAnchoring` recognises an event that
the log hands back as its own record by its bytes or by its form, as
`is_event_self_anchoring` does; whether it does so shows in the reason alone, so
`SpellingIsIrrelevant` is about reasons: calls given one form, one answer and one
boundary end alike. What `prepare_first_admission` builds has been parsed again
(`ParsedRecords` in `TypeOK`), which a record that skips the parse would not be.
Verification may read any snapshot whose end is not before the Registry's present
one, which is what a resolver serving an older version does; that ends only move
earlier is a result of `KeyRegistry` (`GrowthOnlyNarrows`). In the code the reason
`log_indeterminate` that `admit_first` can throw itself (lines 387-389 and 417)
needs a log status outside the enumeration, and the comparison at 355-357 repeats
one just made; neither can be reached.

### KeyRegistry

`Declare` is one round of the scan over the Registry's bindings (identity,
tuple and owner maps, lines 160-204), `Merge` one status of its history
(206-228), `EndOfBindings` the end of the scan, `FoldStatus` one status of the
ordered fold (116-143), `Select` the selection (231-285). The scan reads a text
nobody has fixed in advance: the text is chosen as it is read and kept in `read`,
and every property compares the outcome with `IsRegistry`, `EffectiveValidUntil`
and `EffectiveRevokedAt`, a reference that quantifies over `read` and has no
order of its own. Errors of shape, URI or base64url in a declaration are one flag.

### SignedDocument

`Sign` is `sign` with its checks; `SignElsewhere` another implementation (or
`Ed25519::sign_document`) that signs what it likes; `Declare` the Registry.
`verify` calls out once, so it is two actions: `Receive` (parse, schema,
signature envelope) and `Resolve` (evidence, resolution, canonicalization,
signature). A carrier may deliver any payload with any signature member whose
signature has been made. Signatures are ideal; a signature value keeps the form
of its text, since the code refuses all but one spelling of the bytes. `verify`
accepts every sound (R, S), and whoever holds a key can make many of one payload:
a signature has a nonce (`Nonces`). `SigningKey` derives its nonce and makes the
same signature again, `SignElsewhere` takes any. `OneForm` therefore does not say
that a payload and a key have one form. It says that two forms take two signatures
made by the holder: nothing a carrier does to the text, the timestamp or the value
of one signature gives another document that verifies. The digest `canonical_hash`
identifies a document as long as its signer signs it once.
A resolver answers with the whole of any version of the Registry, or throws;
evidence marked as a part is refused whatever it holds (a mutant accepts it).

### ProtocolInstant

The parser is pure. A clock shows a local time with an offset and a fraction,
advances by carrying from second to year, is carried eastwards (the same instant
at a greater offset) and counts the seconds it lived through. What it shows has to
read as what it counted. The clock has a calendar of its own (`DaysInMonth` lists
the months, `HasLeapDay` tells centuries from other years); it shares neither
table nor rule with `MonthLength` and `LeapYear` of the parser. The regular
expression of the grammar is the type of a stamp; `[Tt]` and `[Zz]` are one
spelling each. The clock never goes past the year 9999. It is set at a whole
second; digits of a fraction appear as it ticks.

### ProtocolUri

Texts grow a character at a time. `IsProtocolUri` cuts at first delimiters as the
code does; `Uri` derives a text from the rules of RFC 3986, appendix A, in any
way. Characters no rule tells apart are represented by one: `g` a letter that is
no hexadecimal digit, `^` a visible character in no rule. The IPv6 grammar is
OpenSSL's and external; it is modelled for texts too short for eight groups.

### SchemaCatalog

`validate` walks the compiled schema to find identifiers and turns a document down
at the first that is no URI, before jsoncons validates. jsoncons tells the walk's
reporter of every string at the format, not of whether the alternative it stands
in holds; which alternatives it goes into is jsoncons', so `Validate` is what the
answer is whether it goes into all or into those that hold. `Meaning` is the same
schemas read by a validator whose `uri` is exact. A schema is kept where an
identifier stands in an alternative (`Evidence`, the frames), under a condition
(`Approval`, `Mission`), in a list (`GroupSnapshot`), as the name of a member
(`Command`, for the eleven other schemas with `extensions`), or beside a `uri` that
is not an identifier (`Message`); members that cannot matter to an identifier are
left out, words of enumerations are single letters. What jsoncons takes for a `uri`
is the constant `LibraryUri`; documents hold texts of up to `MaxHeld` characters,
or `MaxHeldBare` if they have no scheme.

The names of `extensions` are identifiers by `propertyNames`. There the format is
an annotation as everywhere else, so whether a name has to be a URI is decided by
whether the walk tells the reporter of names. jsoncons is not part of the
repository, and neither a test nor a document of it says which, so both are
modelled (`names`): told of names, `validate` decides as the schemas do; not told,
it holds names, and nothing else, to the two regular expressions of the definition
alone, so that `a:%` would pass for a name. `DecidesAsTheSchema` states both.

### StrictJson

The scanner is a recursive descent over bytes. `Read(s)` gives it one symbol:
`at` is the place in the code it has come to, `stack` its recursion, with the
names of each object's members, `decoded` the string `parse_string` builds.
Every branch of the code that does not fail is a disjunct of `Scan`; what is left
is `Fail`, after which a text may go on, because a document that fails is still a
document. A number has no end of its own: where it stops, the container reads on
(`NumberEnds`). A symbol is a character, or several that are only looked at
together: a literal, the four digits of an escape, a code point of many bytes.
`JsonText` derives a text from the rules of RFC 8259 in any way, with the two
limits the code adds: names are unique once decoded, and nesting is limited
(512; two in the run, which goes one level beyond). `Sanitized` is the
replacement of unpaired surrogates that `SignedDocumentCodec::verify` makes so
that it can report them at canonicalization and not at parse. Two member names that
differ in nothing but which half they lack are one name once replaced; such a text
fails at parse, as a text with one name twice, and `NearlyJsonText` says so too.
The run's texts with halves have no member names.
`Json::parse`, which builds the value of an accepted text, is jsoncons.

### Utf and Unicode

`Decodes` and `CodePoint` are both decoders (`parse_utf8_code_point`,
`decode_code_point`), `AppendUtf8` what the scanner builds names with,
`Utf16Units` what members are ordered by, `UnescapesTo` what an escape or a pair
of them means. In `Unicode` bytes arrive one at a time and are held to the table
of well-formed sequences in the Unicode standard; code points are counted up.

### NumberText, CanonicalText and CanonicalJson

A value grows: digits are put to a number, characters to a string
(`CanonicalText`), elements and members to containers, and a container becomes
part of another (`CanonicalJson`, which is recursive where `serialize` is). `Serialize` is
`serialize`; where the code leaves something to a library it yields every text
that may come out. `ToChars` is `std::to_chars`, of which nothing is assumed but
that it writes the significant digits with a point, or before an exponent of two
digits, within the buffer of 128 characters; `Sorted` is `std::ranges::sort`.
That one text is left is then a property. A number is its digits and the place
of its point (0.d1 d2 ... times a power of ten), at most 17 digits and a point
within a double's range (`TextAssumption`), the first and the last of them not
zero: which digits a double has, and
that it is the nearest to what was parsed, is the library's and jsoncons'. The
reader on the other side (`Reads`) sums the weights of digits, undoes escapes,
cuts containers at commas, and knows the order of RFC 8785 by code points, so it
shares none of the computation it checks.

### Edwards, Base64Url and SignatureText

`Edwards` is the arithmetic of `validate_point` with the prime, the curve
constant, the root of -1 and the order of the subgroup as constants;
`EdwardsAssumption` is what makes the addition law complete: P is a prime (in the
form of Fermat's theorem) and 5 modulo 8, the root of -1 is one, d is no square,
and P and the order fit the bytes of a point. `ScalarMultiply`
doubles and adds as the code does, `SquareRoot` takes the same power and the same
correction. `Base64UrlDecode` is the strict decoder, `DecodeLeniently` that of
`src/src/crypto.cpp`, which does not encode again what it decoded: the texts the
strict one refuses are, for `SignatureText`, those the lenient one reads as the
same bytes. A text is spelt digit by digit; points are added one after another
and compared with the affine law. A byte is four units and a digit three, and the
number of values of a unit is a constant (`UnitValues`): a unit is two bits in the
code, whose bytes have eight bits and digits six, and one bit in the run.

### ProtocolBundle

`Edit` writes or deletes a file of the source tree, `Generate` is the script,
after which the table is fixed; `pin` are the constants the library was compiled
with, of the same release or of another. Everything the library does with the
table is a pure function of both. A path is a sequence of characters that are not
NUL, as no file system has one in a name, and has no part that is empty, `.` or
`..`, as none that `pathlib` lists has (`Paths`); the content
of a file a sequence of chunks, of which one is the separator NUL: a file can
therefore look like the end of one file and the beginning of another to
`TreeDigest`, as it could to `tree_digest`. SHA-256 is ideal: a digest is what
was digested. `Pins` and `Manifests` say which contents parse, and as what; the
fields of a manifest's header are compared as one. What a manifest or a vector
lists is anything a JSON string or number can be (`ListAssumption`); of the
directories it is taken that none lies in another and that they are named in the
order in which `verify` digests them (`DirectoryAssumption`), of a release
that its manifests state the digests of their own lists, that its schemas and
vectors hold no NUL and that the two orders agree about its paths
(`ReleaseAssumption`), as they do and are in what was released.

`SchemaCatalog` is constructed from the table before a run (`Constructs`): its list
of schemas is a scan (`SchemaNames`), each is read by the search, has to be one
(`Ids`), to have an `$id` of its own and to compile beside the others (`Compiles`).
A vector's instance has to be JSON (`Instances`); whether the schema allows it is
`Valid`. Everything the constructor or `run` throws is the exit code 2. `TreeCode`
is the code of a run that reads the tree's files where they stand: it knows no
table, no search and no splitting of paths. `RunsTheTree` says that a run over the
table that comes to a verdict comes to that one - also over a table in which the
search misses files, where a catalog of the schemas that are found would come to
another (the mutant) - and that where the orders agree it ends in an error exactly
if the tree has a fault, so no path of a file is refused as unsafe either.

`FindsWhatIsEmbedded` and part of `RunsTheTree` have a condition, `OrdersAgree`. The
script sorts paths by their components (`s/b/a.json` before `s/b.json`), the
binary search of `find_asset` expects the order of bytes (the reverse). They
differ as soon as a directory's name goes on, beside it, with a character before
the slash (`-`, `.`); such a file would be embedded and not found, which
`FindsWhatIsEmbedded` leaves out and `RunsTheTree` does not: it must not change a
verdict. No directory of the released tree, with its 191 files, does that.

## 3. Runs

Bounds are named constants. The configuration of `admission_race` is
`AdmissionRace.cfg`, and so on.

| run | question | instance, and why it is enough |
|---|---|---|
| `admission_race` | do racing calls agree, and implement the ledger? | three calls, two services, two signatures of one payload, one replay; log empty; `Horizon` 1. A loser, a winner and a bystander; a boundary before, at or after each instant |
| `admission_faults` | what if log, context or document is wrong, and does every call end? | two calls of any mode, fair, for a document, one whose signature does not verify or the first respelt; eleven entries the log may hold, six context values, each wrong in one way the code tests. A record of another key under a call's subject is met in the race |
| `registry_texts` | is no Registry with a fault accepted, none rejected but for a fault in what was read of it, and is it folded as the reference folds it? | two scopes: three declarations over all pairs of identities, where a third may contradict the first across the second; two declarations with four statuses, three instants, two spellings, sequences up to the limit and one past it |
| `document_forms` | what can verify? | two calls, all documents that deviate from a signed one in at most one place, two signatures of one payload by one key, Registry of two declarations |
| `document_round_trip` | does what `sign` returns verify? | payloads that differ in one respect each, a mislabelled key |
| `instant_edges` | do stamps read as the time counted, and compare as instants? | six steps of any unit from the ends of days, months and years, at offsets about to change sign, three digits of a fraction; every other date is left to the theorems |
| `uri_texts` | is the grammar accepted, and a document valid exactly if its schema says so? | every text up to four characters, alone or after a scheme, over one character per class; every authority up to five; 23 documents around every text up to four, or three without a scheme, at least one for each keyword between a schema and an identifier, a name of a member, a hash, a nonce or free text |
| `json_texts` | is the grammar accepted, and are surrogates paired as the scanner pairs them? | texts of up to six symbols with numbers, or five inside containers; second member names of up to one code point in any spelling; strings of up to seven escapes and halves, going on after a failure |
| `unicode_texts` | are texts decoded once and for all, and is nothing lost? | up to four of the 24 bytes next to a bound of the decoder; all 1,114,112 code points |
| `canonical_forms` | is there one text of a value, and does it read back? | numbers of up to four digits, zeros among them, with the point next to every bound of the layout (-6, 0, 21) and of a double's exponent; strings of up to three of the characters next to a bound of the escapes; containers of up to three parts, at any depth, with names on both sides of the surrogates |
| `signature_texts` | do keys and signatures have one text? | the curve over 101 elements with 8 times 13 points: all cofactors, 27 values of y that have a second encoding, bits to spare in the text; keys are three digits long, signatures six; every point as a sum of a generator, a point of order two and one of order four |
| `released_files` | is what was verified the release, and does a run judge what was embedded? | six releases, four of them with a mistake in what they list; two edits: one that breaks a file and one that makes up for it, a file that looks like two, names the two orders of paths disagree about, schemas without an `$id`, with that of another or a reference to one that is gone, instances that are no JSON |

Deadlock is not checked where the modelled system really stops: calls end, a
resolution ends, a text is long enough, a table is generated.

Each property has a mutant in `PROJECT.json`: a change of the code's definition
that a plausible bug would make, which the run then refutes.

**Fairness.** Only `Termination`, in `admission_faults`, needs it: weak fairness of each call's
steps. An adapter call answers or throws (the interfaces of
`src/include/missionweaveprotocol/admission.hpp` are synchronous), and the code
between two of them does not wait or loop. Nothing is assumed of the Registry.

## 4. Proofs

`AdmissionProofs` proves, for any sets of calls, documents, keys, services and
instants, type correctness, the safety properties and action property of
`Admission`, and that it refines `AdmissionLedger`. The assumptions are
`IdentifierAssumption` (Nil values are not data, services are principals) and
`WorldAssumption` (constants have their types). The argument is the inductive
invariant `IInv`. `TypeOK` alone is not inductive: an append writes `prepared`,
typed as a record only because a call that may append has prepared one
(`PreparedIsRight`). `SpellingIsIrrelevant` needs no more than that each answer
was judged by what the documents say (`AnswerIsJudged`). `Agreement` is not
inductive either: what two callers were told agrees because each was told what the
log *answered* (`AnswerIsJudged`), and the log still holds it. `SnapshotCovers`
states the one thing a stale snapshot guarantees, that it does not end before the
Registry does, and is what `TimeRejectionIsFinal` rests on; `AuthorIsKept` ties
what the log holds to the call that committed it, for `NoSelfPoisoning` and
`RetryHonoursCommit`. `OtherCalls` shows once that a step of one call keeps the
conjuncts of all others; `VerifyKeeps` ... `AppendKeeps` treat the call itself.

`SignedDocumentProofs` proves all five properties of `SignedDocument`, for any
payloads, signatures, keys and declarations, any number of calls, and a Registry
that grows however it likes between a call's two halves. `IInv` says of each call
what it knows by the stage it is at (`Progress`), and of each that has ended why
(`Diagnosed`). A verdict refers to a version of the Registry that is gone:
versions are nested, so of two the later holds all of the earlier and is coherent
about both (`SelectedTogether`), which is what lets two verdicts of different
versions be compared (`VerdictsAgree`, `OneForm`). Two forms of one payload and
key can differ in the nonce alone, and each nonce was signed with
(`FormsAreSigned`). `VerifiedIsSigned` is what the stages of one verdict together
say of the document.

`KeyRegistryProofs` proves the four properties of `KeyRegistry`, for Registries
of any length. The resolver's three maps, its histories and its fold are each
related to the text read so far (`Declares`, `Enters`, `Folds`), one lemma each
for a round that goes on and for one that rejects. That a fold that has ended
holds what the reference makes of each boundary is `FoldsSettle` with
`DeciderIsOne`: no two places of a text decide one boundary, so the reference
does not choose. `GrowthOnlyNarrows` follows from `PrefixSettles`: what a prefix
that is itself a Registry makes of a boundary, the whole leaves or brings
forward. Proving `RejectedForAFault` showed that the reference has to let a
history be as long as the limit on sequences and no longer, as the code does
(`HistoryAgrees`); the run now declares one past the limit.

`ProtocolInstantProofs` proves all three properties of `ProtocolInstant` for
every clock that is set right (`StartsAssumption`), every year 1..9999, every
offset and any precision of the fraction. The invariant `CountInv` says that the
stamp shown parses and reads as the count. A carry into a new day is the only
hard step: `DaysFromCivil` grows by one from the last day of a month to the first
of the next, which is five cases of its March-based months and, from February
into March, leap years by 400, 100 and 4 (`IntoMarch`); from December into
January the year that begins in March does not change. For `OrderIsTime` the
digits shown have to be tied to a number: `Values` is the sequence of prefix values
(each ten times the one before, plus a digit), a part of a second is the value of
the whole (`PartIs`), and `OrderInv` adds to `CountInv` that clock and mark are
what their digits say and that the mark is not after the clock. The first digit in
which two fractions differ decides between the values (`LessValue`), and is what
the code finds once trailing zeros are gone (`TrimmedIs`, `EarlierIs`).

`ProtocolUriProofs` proves `AcceptsTheGrammar` for texts of any length over any
characters: each of the code's scans accepts what its rule derives, and the cuts
at first delimiters are right because what a rule derives holds no character that
ends the piece. Of OpenSSL's IPv6 grammar it takes only that what it accepts is
not empty and holds no delimiter.

`TextProofs` proves, of `Unicode`, `DecodesWellFormed` and `DecodingInvertsEncoding`,
for every sequence of bytes, of any length, and every code point.
For two, three and four bytes the decoder's arithmetic on bits is turned into a
sum (`Sum2`, `Sum3`, `Sum4`), whose bounds are those of the table; encoding takes
the same sum apart. No two sequences are therefore decoded alike, which is why
member names that differ as bytes, and only they, differ once decoded; and what
an escape or a pair of them means is one code point (`EncodingLosesNothing`).

Of `CanonicalText` it proves `StringIsItsText` for strings of any length over any
characters and `NumberIsItsValue` for every number of up to 17 digits that do not
begin or end with a zero, wherever its point stands in the range of a double.
Both are theorems of `SpecLeaf`, the growth of values that have no parts:
`CanonicalJson`, which extends it, is recursive and out of the prover's reach, but
writes strings and numbers with these same definitions. The invariant `LeafKept`
is what a value is while it grows. A string: every escape is read by `UnitAt` as
its character (`Spells`), escapes stand one after another at places that are sums
of their widths (`Spelt`, `Written`), the reader is a recursive function that goes
forward only and so has one value (`ReaderIs`), and steps from one escape to the
next until the quote (`ReadOnward`). A number: each text that `std::to_chars` may
write, and what `Layout` makes of it, is a mantissa that carries the digits at
some place beside its point, and an exponent (`Carries`, `Parts`). The place and
the exponent alone decide what `canonical_number` makes of a text (`SpreadLaid`)
and what a text is worth (`LaidOutReads`); as they add up to the same for every
text of a number, all come out as one, which reads as the number. The proof needs
that no exponent has more than three digits and that 17 digits with the zeros
between them and the point fit the forms of ECMAScript: `TextAssumption`.

`ProtocolBundleProofs` proves all four properties of `ProtocolBundle`, for any
tree, edits and releases. `FindsWhatIsEmbedded`: both orders of
paths are lexicographic over sequences of any length, so both are total. The
script's table puts a file where as many others come before it, which by counting
makes it a sorted list of all of them; where the orders agree it is sorted by
bytes too. The binary search is a recursive function over what is left: the
boundary, moved into the places that are left, satisfies the recursion, and by the
smallest count at which another solution would differ nothing else does.
`VerifiedIsReleased`: the digest of a directory joins path, NUL, bytes, NUL of its
files in order, and a file may hold a NUL and so look like two. Two tables with
one digest and as many files are the same nevertheless, if the files of one, the
release, hold no NUL: read from the left, every file of the other takes up at
least as many separators as one of the release, so none takes up more. A sorted
table of given files is unique, which ties the digest to the tree. `ProfilesHold`:
splitting a path at slashes is injective, and parts that are not empty, `.` or
`..` are walked to themselves, so paths that the code takes for apart lead to
different files. `RunsTheTree`: a search that finds something finds it where it is
(`FoundVector`), in any table, so a run without an error has read the tree's own
bytes; the scan lists every schema, so its catalog is the tree's (`CatalogIs`); and
a path without a backslash whose file is in the tree is one that `safe_relative_path`
lets through, which is about the parts of a path cut off at a slash (`SplitBelow`).

`SignatureTextProofs` proves all three properties of `SignatureText`, for every
prime, curve and size of `EdwardsAssumption` and `Base64Assumption`; Ed25519 and
base64url are one choice of them. Residues are spoken of as integers that P
divides or does not (`Null`), and Fermat's theorem makes them a field. As d is no
square and -1 is one, no sum has a denominator of zero (`Complete`), which is why
the code may add without a case of its own. That the law is associative is the hard
part: multiplied out, the two orders of a sum of three differ by a combination of
the equations of the curve (`SumIsAssociative`). An extended point represents an
affine one; `PointAdd` keeps that and adds (`PointAddIs`), and `ScalarMultiply`,
along the bits of its scalar, reaches the multiple (`ScalarMultiplyIs`): this gives
`AdditionIsAffine` with an invariant that says that the sum is on the curve and is
what the extended coordinates represent. `ValidPointIs`: the power taken for a
square root, corrected by the root of -1, is a root of every square, and of nothing
else; of two roots one has the parity asked for; and bytes are those of one number,
so a point has one encoding. The decoder that encodes again what it decoded takes
one text for any bytes, and takes the text of all (`EncodedReadsBack`). Together
these are `KeysArePrimeOrderPoints` and `SignaturesHaveOneText`.

The library's induction theorems take an operator and cannot be used. Where a
proof needs induction over a number (scans of the URI, prefix values, the search)
it takes the least counterexample, which well-foundedness of the naturals gives
as a set (`LeastNatural`): definitions that recur are therefore functions, and of
sequences and sets only facts that quantify over indices are used.

Model-checked only: `Termination` (liveness); `StrictJson`'s `ScansTheGrammar` and
`SanitizesSurrogates`, `CanonicalJson`'s `PartsInOrder` and `SchemaCatalog`'s
`DecidesAsTheSchema`: they nest to any depth and are written with recursive
operators, which the prover does not take. Every other property of a run is proved.

## 5. Not modelled, and why

* The 38,257 lines of `src/src/embedded_assets.cpp` are the bytes of the bundle's
  files, generated by the script that `ProtocolBundle` models. They are nine
  tenths of the lines of the library, which is why the map covers a small part
  of its lines and most of its code.
* jsoncons: parsing an accepted text into a value, compiling schemas. Its
  validation and its walk are modelled by what they do, for the keywords kept.
* The frame codec beyond what it takes for a frame: strict JSON before, canonical
  form after, without state. The parts of the schemas an identifier does not
  depend on.
* OpenSSL and the standard library: signing and verifying, SHA-256, the IPv6
  grammar, big integers, the digits of a double.
* Repository scripts other than the generator, examples, version: no part in what
  the library does.
* Memory exhaustion and OpenSSL failures: every one of them throws in a stage
  that already may fail.

## 6. Plan

In this order; what is done is marked.

1. `Admission`, `AdmissionLedger`, `AdmissionProofs` - done.
2. `KeyRegistry`, `KeyRegistryProofs` - done.
3. `SignedDocument`, `SignedDocumentProofs` - done.
4. `ProtocolInstant`, `ProtocolInstantProofs` - done.
5. `ProtocolUri`, `ProtocolUriProofs`, `SchemaCatalog` - done.
6. `StrictJson`, `Utf`, `Unicode` - done.
7. `NumberText`, `CanonicalText`, `CanonicalJson`, `TextProofs` - done.
8. `ProtocolBundle`, `ProtocolBundleProofs` - done.
9. `Base64Url`, `Edwards`, `SignatureText`, `SignatureTextProofs` - done.
10. `Admission` composed with the declarations of `KeyRegistry` in the place of
    `RecordStatus`.
