\* One run at a time: mutable tags, failures and crashes, no pin.
CONSTANTS
  Proc = {p1}
  Source = {s1, s2}
  SourceList <- OneThenTwo
  SourceConfig <- MCSourceConfig
  Manifest = {m1, m1b, m2, mx}
  ManifestData <- MCManifestData
  Artifact = {a1, a2}
  Asset = {a1, a2}
  AssetOf <- MCAssetOf
  Bytes = {b1, b2, b2b}
  SizeOf <- MCSizeOf
  Directory = {d1, d2}
  Remote <- MCRemote
  InitialContents <- MCInitialContents
  DownloadOptions = {TRUE, FALSE}
  None = None
  s1 = s1
  s2 = s2
  m1 = m1
  m1b = m1b
  m2 = m2
  mx = mx
  a1 = a1
  a2 = a2
  b1 = b1
  b2 = b2
  b2b = b2b
  d1 = d1
  d2 = d2
  Pinned = {}
  RemoteNames = {"good1", "replaced1", "torn1", "bare1", "draft1", "good2", "low2"}
  Damaged = TRUE
SPECIFICATION FairSpec
INVARIANTS
  TypeOK
PROPERTIES
  LiveDirectoryUntouched
  SuccessIsInPlace
  Recovers
CHECK_DEADLOCK FALSE
