SPECIFICATION VerifiersSpec
CONSTANTS
  Attested <- MCAttested
  ServiceLists <- MCServices
  Bodies <- MCBodies
  Events <- MCEvents
  Voices <- MCVoices
  LastKey = 2
  MaxWords = 2
  KeylessEnd = 2
  Witnesses = {"a", "b", "shill"}
  Trusted = {"a", "b"}
  Honest = {"a"}
  Quorum = 2
  Partings = {1}
  MaxEntries = 6
  MaxCosigned = 2
  MaxCosignatures = 4
  Artifacts = {"a", "b"}
  Agents <- MCAgents
  Forms = {"plain", "unknown member"}
  Labels = {"", "draft"}
  Holders <- MCHolders
  MaxChunks = 3
  Successors = {"s", "t"}
  MaxEvents = 2
  MaxFeed = 2
  Strings <- MCStrings
  Participants <- MCParticipants
  Absent <- MCAbsent
  Sha256 <- MCSha256
  Contents <- MCContents
  Statements <- MCStatements
  MaxPublished = 2
  MaxHeads = 1
  MaxStatements = 2
  ContextEnd = 2
  MaxEdits = 2
  Tools = {"t", "u"}
  Arguments = {"a", "b"}
  RequestIds = {"1"}
  Results <- MCResults
  Salts = {"", "salt"}
  Publishers = {"proxy", "stranger"}
  TrustedProxies = {"proxy"}
  MaxBodies = 2
  JsonValues <- MCJson
  Depth = 2
  Nearest <- MCNearest
  ByteStrings <- MCBytes
INVARIANTS
  ReadersAgree
  LessEvidenceNeverClears
  RefusalLasts
  ProofsAreExact
  QuorumMeansOneHistory
  ArtifactsAreExact
  StatusIsUnordered
  MatchMeansSealed
  OnlyPublishedVerifies
  OwnerSetsTheBoundary
  ShapeChecksAgree
  ProvenanceIsExact
  EncodingsAreExact
PROPERTY KeepsWitnessContract
CHECK_DEADLOCK FALSE
