SPECIFICATION Spec
CONSTANTS
  Releases <- MCReleases
  Edits <- MCEdits
  MaxEdits = 2
  Pins <- MCPins
  Manifests <- MCManifests
  Vectors <- MCVectors
  Ids <- MCIds
  Instances <- MCInstances
  Compiles <- MCCompiles
  Valid <- MCValid
  Schemas <- MCSchemas
  Conformance <- MCConformance
  Cryptography <- MCCryptography
  Admission <- MCAdmission
  PinPath <- MCPinPath
  ManifestName <- MCManifestName
  Readme <- MCReadme
  Json <- MCJson
INVARIANTS
  FindsWhatIsEmbedded
  VerifiedIsReleased
  ProfilesHold
  RunsTheTree
CHECK_DEADLOCK FALSE
