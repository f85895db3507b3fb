\* An image whose schemas are stricter shares the cache with the one before it.
CONSTANTS
  Proc = {p1}
  Source = {s1}
  SourceList <- OnlyOne
  SourceConfig <- MCSourceConfig
  Manifest = {m1}
  ManifestData <- MCManifestData
  Artifact = {a1, a2}
  Asset = {a1, a2}
  AssetOf <- MCAssetOf
  Bytes = {b1, b2, b2b}
  SizeOf <- MCSizeOf
  Directory = {d1}
  Remote <- MCRemote
  InitialContents <- MCPresent
  DownloadOptions = {TRUE}
  None = None
  s1 = s1
  s2 = s2
  m1 = m1
  m1b = m1b
  m2 = m2
  mx = mx
  a1 = a1
  a2 = a2
  b1 = b1
  b2 = b2
  b2b = b2b
  d1 = d1
  d2 = d2
  Pinned = {s1}
  RemoteNames = {"good1"}
  Damaged = FALSE
  Api = {x1, x2}
  Lock <- MCLock
  Required = {x1, x2}
  Accepts <- MCAccepts
  Call = {"first", "second"}
  ApiOf <- MCApiOf
  Dataset = {"r"}
  Version = {"v1", "v2"}
  DatasetOf <- MCDatasetOf
  RankOf <- MCRankOf
  TimeOf <- MCTimeOf
  Slug = {"r"}
  SlugOf <- MCSlugOf
  x1 = x1
  x2 = x2
  x3 = x3
  Full = {}
  Lockless = {}
  Pins = {s1}
  Strict = {x2}
  Present = {m1}
SPECIFICATION UnfailingSpec
INVARIANTS
  AnswersAccepted
CHECK_DEADLOCK FALSE
