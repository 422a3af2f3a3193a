-------------------------- MODULE MCProtocolBundle --------------------------
(***************************************************************************)
(* Some releases, and edits of them: contents exchanged, content that looks *)
(* like two files, names that the two orders of paths disagree about, pins *)
(* and manifests that are wrong in one respect each.                       *)
(***************************************************************************)
EXTENDS ProtocolBundle

\* Names: letters, ".", "-" and "/" as their codes.
Dot == <<46>>
MCSchemas == <<115, 47>>         \* s/
MCConformance == <<102, 47>>     \* f/
MCCryptography == <<99, 47>>     \* c/
MCAdmission == <<97, 47>>        \* a/
MCJson == <<46, 106>>            \* .j
MCManifestName == <<109>> \o MCJson
MCReadme == <<82>>
MCPinPath == <<80>> \o MCJson

Named(directory, letters) == directory \o letters \o MCJson
One == Named(MCSchemas, <<98>>)              \* s/b.j
Two == Named(MCSchemas, <<98, 98>>)          \* s/bb.j
Deep == Named(MCSchemas, <<98, 47, 97>>)     \* s/b/a.j, after s/b.j by bytes
Beside == Named(MCSchemas, <<98, 45>>)       \* s/b-.j
Vector == Named(MCConformance, <<118>>)
Key == Named(MCCryptography, <<107>>)
Below == Named(MCCryptography, <<107, 47, 97>>)    \* c/k/a.j, after c/k.j by bytes
Fixture == Named(MCAdmission, <<114>>)
Back == Named(MCConformance, <<92, 118>>)         \* a name with a backslash
Escapes == MCCryptography \o <<46, 46, 47, 80>>   \* c/../P

\* Contents of one chunk each.
X == <<<<88>>>>
Y == <<<<89>>>>
V == <<<<86>>>>
Z == <<<<90>>>>
TwoFiles == X \o <<Nul, Two, Nul>> \o Y
Text(letter, variant) == <<<<letter, variant + 1>>>>
PinText(variant) == Text(80, variant)
CryptographyText(variant) == Text(67, variant)
AdmissionText(variant) == Text(65, variant)
VectorsText(variant) == Text(86, variant)

Item(path, content) ==
  [path |-> path, byteLength |-> Len(content), sha256 |-> content]

Sealed(header, artifacts, cases, cryptography) ==
  LET m == [header |-> header, artifacts |-> artifacts, cases |-> cases,
            cryptography |-> cryptography]
  IN [artifactDigest |-> m] @@ m

\* What stands in a cryptography manifest where an admission manifest names it.
NoDigest == [none |-> TRUE]
Keys(artifacts) == Sealed("right", artifacts, <<1, 2>>, NoDigest)
Good == Keys(<<Item(Key, X), Item(One, X)>>)

\* The artifacts a release may list by mistake.
Mistakes ==
  << <<Item(Key, X), Item(Key, X)>>, <<Item(Key, X), Item(Escapes, X)>>,
     <<Item(Key, Y), Item(One, X)>>, <<Item(Vector, X)>>, <<Item(Two, Y)>> >>

MCManifests ==
  (CryptographyText(0) :> Good)
  @@ (CryptographyText(9) :> [Good EXCEPT !.header = "wrong"])
  @@ (CryptographyText(8) :> [Good EXCEPT !.cases = <<3>>])
  @@ [c \in {CryptographyText(v) : v \in DOMAIN Mistakes} |->
        Keys(Mistakes[c[1][2] - 1])]
  @@ (AdmissionText(0) :>
        Sealed("right", <<Item(Fixture, Y)>>, <<1>>, DigestOf(Good)))
  @@ (AdmissionText(1) :>
        Sealed("right", <<Item(Fixture, Y)>>, <<1>>,
               DigestOf(Keys(Mistakes[5]))))

Entry(name, schema, instance, valid) ==
  [name |-> name, schema |-> schema, instance |-> instance, valid |-> valid]

MCVectors ==
  (VectorsText(0) :> <<Entry(1, One, Vector, TRUE), Entry(2, Two, Vector, FALSE)>>)
  @@ (VectorsText(1) :> <<Entry(1, Two, Vector, TRUE)>>)
  @@ (VectorsText(4) :> <<Entry(1, One, Back, TRUE)>>)
  @@ (VectorsText(2) :> <<Entry(1, One, Vector, TRUE), Entry(1, One, Vector, TRUE)>>)
  @@ (VectorsText(3) :> <<Entry(1, One, MCConformance \o <<46, 46, 47>> \o Key, TRUE)>>)

\* X, Y and V are JSON. As schemas X refers to Y, which is at the second path
\* alone: it is the one that defines identifiers.
MCIds ==
  [schema \in ({One, Deep, Beside} \X {X, Y, V}) \cup {<<Two, Y>>} |-> schema[2]]

MCInstances == {X, Y, V}

MCCompiles(catalog, path) == catalog[path] = X => Y \in Range(catalog)

MCValid(catalog, path, instance) == catalog[path] \in {V, instance}

Release(commit, keys, admission, vectors) ==
  (MCPinPath :> PinText(commit)) @@ (One :> X) @@ (Two :> Y) @@ (Vector :> X)
  @@ (MCConformance \o MCManifestName :> VectorsText(vectors))
  @@ (MCCryptography \o MCManifestName :> CryptographyText(keys)) @@ (Key :> X)
  @@ (MCAdmission \o MCManifestName :> AdmissionText(admission))
  @@ (Fixture :> Y)

MCReleases ==
  <<Release(1, 0, 0, 0), Release(2, 1, 0, 1), Release(3, 2, 0, 2),
    Release(4, 3, 0, 3), Release(5, 4, 1, 0), Release(6, 5, 1, 0)>>

\* Text 9 states the constants of none.
MCPins == [c \in {PinText(v) : v \in {1, 2, 3, 4, 5, 6, 9}} |-> c[1][2] - 1]

MCEdits ==
  (One :> {Y, TwoFiles}) @@ (Two :> {X}) @@ (Vector :> {Y, Z}) @@ (Key :> {Y})
  @@ (Deep :> {V, Z}) @@ (Beside :> {X}) @@ (Back :> {X})
  @@ (Below :> {X}) @@ (MCSchemas \o MCReadme :> {X})
  @@ (Fixture :> {X})
  @@ (MCPinPath :> {PinText(9), PinText(1)})
  @@ (MCCryptography \o MCManifestName :> {CryptographyText(v) : v \in {0, 5, 8, 9}})
  @@ (MCAdmission \o MCManifestName :> {AdmissionText(1), X})
  @@ (MCConformance \o MCManifestName :> {VectorsText(1), VectorsText(4)})
=============================================================================
