\* A process that restarts while overlapping runs exchange the release of a moved tag.
CONSTANTS
  Proc = {p1, p2}
  Source = {s1}
  SourceList <- OnlyOne
  SourceConfig <- MCSourceConfig
  Manifest = {m1, m1b}
  ManifestData <- MCManifestData
  Artifact = {a2}
  Asset = {a2}
  AssetOf <- MCAssetOf
  Bytes = {b2, b2b}
  SizeOf <- MCSizeOf
  Directory = {d1}
  Remote <- MCRemote
  InitialContents <- MCPresent
  DownloadOptions = {TRUE}
  None = None
  s1 = s1
  s2 = s2
  m1 = m1
  m1b = m1b
  m2 = m2
  mx = mx
  a1 = a1
  a2 = a2
  b1 = b1
  b2 = b2
  b2b = b2b
  d1 = d1
  d2 = d2
  Pinned = {}
  RemoteNames = {"good1", "replaced1"}
  Damaged = FALSE
  Api = {x1}
  Lock <- MCLock
  Required = {x1}
  Accepts <- MCAccepts
  Call = {"first"}
  ApiOf <- MCApiOf
  Dataset = {"r"}
  Version = {"v1", "v2"}
  DatasetOf <- MCDatasetOf
  RankOf <- MCRankOf
  TimeOf <- MCTimeOf
  Slug = {"r"}
  SlugOf <- MCSlugOf
  x1 = x1
  x2 = x2
  x3 = x3
  Full = {}
  Lockless = {}
  Pins = {s1}
  Strict = {}
  Present = {}
SYMMETRY Runs
SPECIFICATION UnfailingSpec
INVARIANTS
  AnswersDeclared
CHECK_DEADLOCK FALSE
