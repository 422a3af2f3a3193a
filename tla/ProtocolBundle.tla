--------------------------- MODULE ProtocolBundle ---------------------------
(***************************************************************************)
(* The protocol's files inside the library: scripts/generate_embedded_     *)
(* assets.py writes the files of a source tree into a table, bundle.cpp    *)
(* looks files up in it and verifies it against constants compiled in,     *)
(* schema.cpp compiles the schemas it holds, and conformance.cpp runs the  *)
(* vectors it holds.                                                       *)
(*                                                                         *)
(* The tree is edited, a release is pinned or is not, and the table is     *)
(* generated. A path is a sequence of characters, the content of a file a  *)
(* sequence of chunks: a chunk is the separator NUL, or text that has none *)
(* (a path, for one). SHA-256 is ideal: a digest is what was digested. The *)
(* counts that the script tests are edited with the tree.                  *)
(***************************************************************************)
EXTENDS Texts

CONSTANTS
  Releases,   \* what the protocol released: of each, its files' contents
  Edits,      \* what an edit may write, by path
  MaxEdits,   \* bound: how many edits are made
  Pins,       \* the release whose constants a content states, all of them
  Manifests,  \* what the contents that are a profile's manifest say
  Vectors,    \* what the contents that are a list of vectors say
  Ids,        \* of the schemas, each a path with its content, their $id
  Instances,  \* the contents that are strict JSON
  Compiles(_, _),   \* whether the schema at a path compiles in a catalog
  Valid(_, _, _),   \* and, in that catalog, allows an instance
  Schemas, Conformance, Cryptography, Admission,   \* directories, with a slash
  PinPath, ManifestName, Readme, Json              \* names, and the suffix

Slash == 47
Backslash == 92
Nul == <<0>>
Dots == {<<46>>, <<46, 46>>}
Profiles == {Cryptography, Admission}

Components(path) == Split(path, Slash)

\* A file's name has no NUL, and no part that is followed (pathlib).
Paths ==
  {path \in Seq(Nat \ {0}) : \A i \in DOMAIN Components(path) :
                               Components(path)[i] \notin Dots \cup {<<>>}}

Contents == Seq({Nul} \cup Seq(Nat \ {0}))

ASSUME BundleAssumption ==
  /\ MaxEdits \in Nat /\ DOMAIN Releases \subseteq Nat
  /\ DOMAIN Edits \subseteq Paths
  /\ \A p \in DOMAIN Edits : Edits[p] \subseteq Contents
  /\ \A r \in DOMAIN Releases :
       /\ IsFiniteSet(DOMAIN Releases[r]) /\ DOMAIN Releases[r] \subseteq Paths
       /\ \A p \in DOMAIN Releases[r] : Releases[r][p] \in Contents
       /\ \A directory \in Profiles :
            directory \o ManifestName \in DOMAIN Releases[r]

\* The directories are apart, and named in the order the digest expects.
ASSUME DirectoryAssumption ==
  LET directories == {Schemas, Conformance} \cup Profiles IN
  /\ PinPath \in Seq(Nat) /\ ManifestName \in Seq(Nat)
  /\ \A d \in directories :
       /\ d \in Seq(Nat) /\ d # <<>> /\ d[Len(d)] = Slash
       /\ \A e \in (directories \ {d}) \cup {PinPath} : ~IsPrefix(d, e)
  /\ Schemas # Conformance /\ {Schemas, Conformance} \cap Profiles = {}
  /\ LexicallyLess(Conformance, Schemas)

\* What manifests and vectors list: a path is whatever a JSON string may be.
Items == [path: Seq(Nat), byteLength: Nat, sha256: Contents]
Entries == [name: Nat, schema: Seq(Nat), instance: Seq(Nat), valid: BOOLEAN]

ASSUME ListAssumption ==
  /\ \A c \in DOMAIN Manifests : Manifests[c].artifacts \in Seq(Items)
  /\ \A c \in DOMAIN Vectors : Vectors[c] \in Seq(Entries)

Files(release) == DOMAIN Releases[release]

-----------------------------------------------------------------------------
(* The table and find_asset.                                               *)

\* pathlib compares components: the slash is before every other character.
ComponentsLess(a, b) ==
  LET slashFirst(path) ==
        [i \in DOMAIN path |-> IF path[i] = Slash THEN 0 ELSE path[i]]
  IN LexicallyLess(slashFirst(a), slashFirst(b))

AssetPaths(paths) ==
  {path \in paths :
     \/ path = PinPath
     \/ \E d \in {Schemas, Conformance} : IsPrefix(d, path) /\ IsSuffix(Json, path)
     \/ \E d \in Profiles : IsPrefix(d, path)}

Table(files) ==
  LET paths == AssetPaths(DOMAIN files)
      at(i) == CHOOSE p \in paths :
                 Cardinality({q \in paths : ComponentsLess(q, p)}) = i - 1
  IN [i \in 1..Cardinality(paths) |-> [path |-> at(i), bytes |-> files[at(i)]]]

\* What may be left to search: the count places from first on.
Lefts(n) ==
  {left \in (1..(n + 1)) \X (0..n) : left[1] + left[2] <= n + 1}

\* std::lower_bound, which halves what is left.
LowerBound(table, path) ==
  LET bound[left \in Lefts(Len(table))] ==
        LET first == left[1]
            count == left[2]
            half == count \div 2
        IN IF count = 0 THEN first
           ELSE IF LexicallyLess(table[first + half].path, path)
             THEN bound[<<first + half + 1, count - half - 1>>]
           ELSE bound[<<first, half>>]
  IN bound[<<1, Len(table)>>]

\* Mutant: what is at the lower bound is taken for what was looked for.
FoundNear(table, path) == LowerBound(table, path) \in DOMAIN table

Found(table, path) ==
  LET place == LowerBound(table, path)
  IN place \in DOMAIN table /\ table[place].path = path

Bytes(table, path) == table[LowerBound(table, path)].bytes

\* An asset is found, and its text is parsed as one of a kind.
Parses(table, path, kind) ==
  Found(table, path) /\ Bytes(table, path) \in DOMAIN kind

-----------------------------------------------------------------------------
(* verify: trees against the pin.                                          *)

JsonAssets(table, prefix) ==
  LET kept[n \in 0..Len(table)] ==
        IF n = 0 THEN <<>>
        ELSE IF IsPrefix(prefix, table[n].path) /\ IsSuffix(Json, table[n].path)
          THEN Append(kept[n - 1], table[n])
        ELSE kept[n - 1]
  IN kept[Len(table)]

TreeDigest(table) ==
  LET after[n \in 0..Len(table)] ==
        IF n = 0 THEN <<>>
        ELSE after[n - 1] \o (<<table[n].path, Nul>> \o table[n].bytes \o <<Nul>>)
  IN after[Len(table)]

\* The assets of a table, no two of one path, in the order of bytes.
ByPath(table) ==
  LET held == Range(table) IN
  [i \in DOMAIN table |->
     CHOOSE a \in held :
       Cardinality({b \in held : LexicallyLess(b.path, a.path)}) = i - 1]

DigestOf(manifest) ==
  [header |-> manifest.header, artifacts |-> manifest.artifacts,
   cases |-> manifest.cases, cryptography |-> manifest.cryptography]

\* No directory's name goes on, beside it, with a character before the slash.
Agreed(paths) ==
  \A a, b \in paths : \A k \in DOMAIN a \cap DOMAIN b :
    ~(/\ a[k] = Slash /\ b[k] < Slash
      /\ SubSeq(a, 1, k - 1) = SubSeq(b, 1, k - 1))

JsonOf(tree) ==
  Restrict(tree, {path \in DOMAIN tree :
                    \E d \in {Schemas, Conformance} :
                      IsPrefix(d, path) /\ IsSuffix(Json, path)})

\* What a release is: its manifests state their own digest, JSON has no NUL,
\* and its directories are in one order.
ASSUME ReleaseAssumption ==
  \A r \in DOMAIN Releases :
    /\ \A p \in Profiles :
         LET manifest == Manifests[Releases[r][p \o ManifestName]]
         IN manifest.artifactDigest = DigestOf(manifest)
    /\ \A p \in DOMAIN JsonOf(Releases[r]) : ~Contains(Releases[r][p], Nul)
    /\ Agreed(AssetPaths(Files(r)))

\* The constants that are compiled in with a release: embedded_pin.
Pin(release) ==
  LET table == ByPath(Table(Releases[release]))
      tree(prefix) == [files |-> Len(JsonAssets(table, prefix)),
                       sha256 |-> TreeDigest(JsonAssets(table, prefix))]
      manifest(profile) ==
        Manifests[Releases[release][profile \o ManifestName]]
      summary(m) == [header |-> m.header, artifactDigest |-> m.artifactDigest,
                     artifacts |-> Len(m.artifacts), cases |-> Len(m.cases),
                     evaluations |-> FoldLeft(+, 0, m.cases)]
  IN [commit |-> release,
      schemas |-> tree(Schemas), conformance |-> tree(Conformance),
      bundle |-> TreeDigest(JsonAssets(table, Conformance)
                            \o JsonAssets(table, Schemas)),
      profiles |-> [p \in Profiles |-> summary(manifest(p))],
      cryptography |-> manifest(Admission).cryptography]

\* pin(): the embedded text has every field of the constants, and no other.
PinAgrees(table, expected) ==
  Parses(table, PinPath, Pins) /\ Pins[Bytes(table, PinPath)] = expected.commit

\* Mutant: the files are not counted.
VerifyTreeUncounted(table, expected) == TreeDigest(table) = expected.sha256

VerifyTree(table, expected) ==
  Len(table) = expected.files /\ TreeDigest(table) = expected.sha256

Verify(table, expected) ==
  LET schemas == JsonAssets(table, Schemas)
      conformance == JsonAssets(table, Conformance)
  IN /\ PinAgrees(table, expected)
     /\ VerifyTree(schemas, expected.schemas)
     /\ VerifyTree(conformance, expected.conformance)
     /\ TreeDigest(ByPath(conformance \o schemas)) = expected.bundle

-----------------------------------------------------------------------------
(* verify_cryptography and verify_admission: manifests, and what they list *)

LetterOrDigit(c) == (97 <= c /\ c <= 122) \/ (48 <= c /\ c <= 57)

ValidSegment(segment) ==
  /\ segment # <<>>
  /\ \A i \in DOMAIN segment :
       LetterOrDigit(segment[i]) \/ (i > 1 /\ segment[i] \in {45, 46, 95})

\* validate_artifact_path.
ValidPath(path, primary) ==
  /\ path # <<>> /\ Len(path) <= 512
  /\ path[1] # Slash /\ Last(path) # Slash /\ ~Contains(path, Backslash)
  /\ IsPrefix(primary, path) \/ IsPrefix(Schemas, path)
  /\ path \notin {primary \o ManifestName, primary \o Readme}
  /\ \A segment \in Range(Components(path)) : ValidSegment(segment)

\* Mutant: what a path was listed for first is not looked up again.
ListedTwice(table, primary, artifacts) ==
  \A i \in DOMAIN artifacts :
    LET item == artifacts[i] IN
    \/ \E j \in 1..(i - 1) : artifacts[j].path = item.path
    \/ /\ ValidPath(item.path, primary)
       /\ Found(table, item.path)
       /\ Len(Bytes(table, item.path)) = item.byteLength
       /\ Bytes(table, item.path) = item.sha256

\* The loop over the artifacts of a manifest.
Listed(table, primary, artifacts) ==
  \A i \in DOMAIN artifacts :
    LET item == artifacts[i] IN
    /\ ValidPath(item.path, primary)
    /\ \A j \in 1..(i - 1) : artifacts[j].path # item.path
    /\ Found(table, item.path)
    /\ Len(Bytes(table, item.path)) = item.byteLength
    /\ Bytes(table, item.path) = item.sha256

ManifestOf(table, profile) == Manifests[Bytes(table, profile \o ManifestName)]

\* verify_cryptography and, with another digest to compare, verify_admission.
VerifyProfile(table, expected, profile) ==
  LET pinned == expected.profiles[profile] IN
  /\ PinAgrees(table, expected)
  /\ Parses(table, profile \o ManifestName, Manifests)
  /\ LET manifest == ManifestOf(table, profile) IN
     /\ manifest.header = pinned.header
     /\ manifest.artifactDigest = pinned.artifactDigest
     /\ profile = Admission =>
          /\ manifest.cryptography = expected.cryptography
          /\ manifest.cryptography = expected.profiles[Cryptography].artifactDigest
     /\ Len(manifest.artifacts) = pinned.artifacts
     /\ Len(manifest.cases) = pinned.cases
     /\ FoldLeft(+, 0, manifest.cases) = pinned.evaluations
     /\ Listed(table, profile, manifest.artifacts)
     /\ DigestOf(manifest) = pinned.artifactDigest

-----------------------------------------------------------------------------
(* ConformanceRunner::run, and the exit code of its program.               *)

\* safe_relative_path.
SafePath(path, prefix) ==
  LET relative == Drop(path, Len(prefix)) IN
  /\ IsPrefix(prefix, path)
  /\ ~Contains(relative, Backslash)
  /\ \A segment \in Range(Components(relative)) : segment \notin {<<>>, <<46, 46>>}

\* Mutant: a schema that the search misses is left out.
SchemaNamesFound(table) ==
  {path \in {a.path : a \in Range(JsonAssets(table, Schemas))} : Found(table, path)}

\* schema_names, which does not search.
SchemaNames(table) == {a.path : a \in Range(JsonAssets(table, Schemas))}

Catalog(table) == [path \in SchemaNames(table) |-> Bytes(table, path)]

\* Every schema is one, has an $id of its own, and compiles beside the others.
Loads(catalog) ==
  LET id(path) == Ids[<<path, catalog[path]>>] IN
  /\ \A path \in DOMAIN catalog : <<path, catalog[path]>> \in DOMAIN Ids
  /\ \A path, other \in DOMAIN catalog : id(path) = id(other) => path = other
  /\ \A path \in DOMAIN catalog : Compiles(catalog, path)

\* catalog_ is constructed: its constructor does not throw.
Constructs(table) ==
  /\ \A path \in SchemaNames(table) : Found(table, path)
  /\ Loads(Catalog(table))

Runs(table, vectors, i) ==
  LET vector == vectors[i] IN
  /\ \A j \in 1..(i - 1) : vectors[j].name # vector.name
  /\ SafePath(vector.schema, Schemas) /\ SafePath(vector.instance, Conformance)
  /\ Found(table, vector.instance) /\ Bytes(table, vector.instance) \in Instances
  /\ vector.schema \in SchemaNames(table)

Passes(table, vector) ==
  vector.valid
    <=> Valid(Catalog(table), vector.schema, Bytes(table, vector.instance))

\* What is thrown, by the constructor or by run, is answered with 2.
ExitCode(table) ==
  LET vectors == Vectors[Bytes(table, Conformance \o ManifestName)] IN
  IF ~Constructs(table) THEN 2
  ELSE IF ~Parses(table, Conformance \o ManifestName, Vectors) THEN 2
  ELSE IF \E i \in DOMAIN vectors : ~Runs(table, vectors, i) THEN 2
  ELSE IF \E i \in DOMAIN vectors : ~Passes(table, vectors[i]) THEN 1
  ELSE 0

-----------------------------------------------------------------------------
VARIABLES
  files,      \* the source tree: contents by path
  edits,      \* how many edits were made
  pin,        \* the constants of bundle.cpp
  assets      \* the table generated last, none before

vars == <<files, edits, pin, assets>>

Init ==
  /\ files \in {Releases[r] : r \in DOMAIN Releases}
  /\ pin \in {Pin(r) : r \in DOMAIN Releases}
  /\ edits = 0
  /\ assets = <<>>

\* The tree with a file written.
Written(tree, path, content) ==
  [p \in DOMAIN tree \cup {path} |-> IF p = path THEN content ELSE tree[p]]

Edit ==
  /\ assets = <<>> /\ edits < MaxEdits
  /\ edits' = edits + 1
  /\ \/ \E path \in DOMAIN Edits : \E content \in Edits[path] :
          files' = Written(files, path, content)
     \/ \E path \in DOMAIN files :
          files' = Restrict(files, DOMAIN files \ {path})
  /\ UNCHANGED <<pin, assets>>

Generate ==
  /\ assets = <<>>
  /\ assets' = Table(files)
  /\ UNCHANGED <<files, edits, pin>>

Next == Edit \/ Generate

Spec == Init /\ [][Next]_vars
-----------------------------------------------------------------------------
Generated == assets # <<>>

OrdersAgree == Agreed(AssetPaths(DOMAIN files))

\* Where a path leads: ".", ".." and empty segments are followed.
Walk(path) ==
  LET segments == Components(path)
      at[n \in 0..Len(segments)] ==
        IF n = 0 THEN <<>>
        ELSE LET before == at[n - 1] IN
          IF segments[n] \in {<<>>, <<46>>} THEN before
          ELSE IF segments[n] = <<46, 46>>
            THEN (IF before = <<>> THEN before ELSE Front(before))
          ELSE Append(before, segments[n])
  IN at[Len(segments)]

Inside(path, directories) ==
  \E d \in directories : IsStrictPrefix(Walk(d), Walk(path))

\* The script orders paths by their components, the search expects them by
\* their bytes: every file of the tree, and no other, is found with its
\* content, as long as no two directories are ordered differently.
FindsWhatIsEmbedded ==
  Generated /\ OrdersAgree =>
    \A path \in DOMAIN files \cup DOMAIN Edits :
      /\ Found(assets, path) <=> path \in AssetPaths(DOMAIN files)
      /\ Found(assets, path) => Bytes(assets, path) = files[path]

\* verify lets a table pass exactly if its schemas and vectors are those of
\* the release the library was compiled for. The digest of a tree does not
\* say how long a file is: content with separators could pass for two files.
VerifiedIsReleased ==
  Generated =>
    LET same == JsonOf(files) = JsonOf(Releases[pin.commit])
    IN /\ Verify(assets, pin) => same
       /\ OrdersAgree /\ same /\ PinAgrees(assets, pin) => Verify(assets, pin)

\* A profile that was verified is whole, whatever its release says: what its
\* manifest lists stays in its directories, is listed once, and is embedded
\* as the release had it; and an admission profile verified beside a
\* cryptography profile was made for that one.
ProfilesHold ==
  Generated =>
    LET verified == {p \in Profiles : VerifyProfile(assets, pin, p)}
        digest(p) == DigestOf(ManifestOf(assets, p))
    IN /\ \A p \in verified :
            LET listed == digest(p).artifacts
                released == Manifests[Releases[pin.commit][p \o ManifestName]]
            IN /\ digest(p) = DigestOf(released)
               /\ \A i, j \in DOMAIN listed :
                    i # j => Walk(listed[i].path) # Walk(listed[j].path)
               /\ \A i \in DOMAIN listed :
                    /\ Inside(listed[i].path, {p, Schemas})
                    /\ files[listed[i].path] = listed[i].sha256
       /\ verified = Profiles =>
            digest(Admission).cryptography = digest(Cryptography)

\* The JSON of a directory, where it stands in the tree.
JsonIn(tree, d) ==
  Restrict(tree, {path \in DOMAIN tree : IsPrefix(d, path) /\ IsSuffix(Json, path)})

\* A schema and an instance that are there, under names that are one on every
\* system; no path is split for it.
Readable(tree, vector) ==
  /\ vector.schema \in DOMAIN JsonIn(tree, Schemas)
  /\ ~Contains(Drop(vector.schema, Len(Schemas)), Backslash)
  /\ vector.instance \in DOMAIN JsonIn(tree, Conformance)
  /\ ~Contains(Drop(vector.instance, Len(Conformance)), Backslash)
  /\ JsonIn(tree, Conformance)[vector.instance] \in Instances

VectorsIn(tree) == Vectors[JsonIn(tree, Conformance)[Conformance \o ManifestName]]

\* Nothing is wrong with the schemas, the vectors and what they name.
Judged(tree) ==
  /\ Loads(JsonIn(tree, Schemas))
  /\ Conformance \o ManifestName \in DOMAIN JsonIn(tree, Conformance)
  /\ JsonIn(tree, Conformance)[Conformance \o ManifestName] \in DOMAIN Vectors
  /\ \A i, j \in DOMAIN VectorsIn(tree) :
       i # j => VectorsIn(tree)[i].name # VectorsIn(tree)[j].name
  /\ \A i \in DOMAIN VectorsIn(tree) : Readable(tree, VectorsIn(tree)[i])

AsExpected(tree, vector) ==
  vector.valid <=> Valid(JsonIn(tree, Schemas), vector.schema,
                         JsonIn(tree, Conformance)[vector.instance])

\* The exit code of a run that reads the files of the tree, without a table, a
\* search or a test of paths.
TreeCode(tree) ==
  IF ~Judged(tree) THEN 2
  ELSE IF \A i \in DOMAIN VectorsIn(tree) : AsExpected(tree, VectorsIn(tree)[i]) THEN 0
  ELSE 1

\* A run that comes to a verdict, even over a table in which files are missed,
\* has judged every schema and every vector of the tree, by every schema: one
\* that the scan lists and the search misses ends the run, and is not passed
\* over. Where the orders agree nothing is missed, and no path that names a
\* file of the tree is taken for unsafe.
RunsTheTree ==
  Generated =>
    /\ ExitCode(assets) # 2 => ExitCode(assets) = TreeCode(files)
    /\ OrdersAgree => ExitCode(assets) = TreeCode(files)
=============================================================================
