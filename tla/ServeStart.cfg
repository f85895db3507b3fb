\* Processes that start and stop, one at a time, while runs of the sync command add v1 and v2, fail or die.
CONSTANTS
  Proc = {p1}
  Source = {s1, s2}
  SourceList <- OneThenTwo
  SourceConfig <- MCSourceConfig
  Manifest = {m1, m2}
  ManifestData <- MCManifestData
  Artifact = {a2}
  Asset = {a2}
  AssetOf <- MCAssetOf
  Bytes = {b2, b2b}
  SizeOf <- MCSizeOf
  Directory = {d1, d2}
  Remote <- MCRemote
  InitialContents <- MCPresent
  DownloadOptions = {TRUE}
  None = None
  s1 = s1
  s2 = s2
  m1 = m1
  m1b = m1b
  m2 = m2
  mx = mx
  a1 = a1
  a2 = a2
  b1 = b1
  b2 = b2
  b2b = b2b
  d1 = d1
  d2 = d2
  Pinned = {s1, s2}
  RemoteNames = {"good1", "good2", "torn1"}
  Damaged = FALSE
  Api = {x1, x2, x3}
  Lock <- MCLock
  Required = {x1}
  Accepts <- MCAccepts
  Call = {"first"}
  ApiOf <- MCApiOf
  Dataset = {"r", "q"}
  Version = {"v1", "v2"}
  DatasetOf <- MCDatasetOf
  RankOf <- MCRankOf
  TimeOf <- MCTimeOf
  Slug = {"r"}
  SlugOf <- MCSlugOf
  x1 = x1
  x2 = x2
  x3 = x3
  Full = {x3}
  Lockless = {x2}
  Pins = {s2}
  Strict = {}
  Present = {m2}
SPECIFICATION ServingSpec
CONSTRAINT OneProcess
INVARIANTS
  ServingTypeOK
  PinsServed
  CallsSucceed
  OneReleaseServed
PROPERTIES
  StartsWhenInPlace
  NeverOlder
CHECK_DEADLOCK FALSE
