\* Two overlapping runs, an unpinned mutable tag: the tag is not immutable.
CONSTANTS
  Proc = {p1, p2}
  Source = {s1}
  SourceList <- OnlyOne
  SourceConfig <- MCSourceConfig
  Manifest = {m1, m1b}
  ManifestData <- MCManifestData
  Artifact = {a1, a2}
  Asset = {a1, a2}
  AssetOf <- MCAssetOf
  Bytes = {b1, b2, b2b}
  SizeOf <- MCSizeOf
  Directory = {d1}
  Remote <- MCRemote
  InitialContents <- MCInitialContents
  DownloadOptions = {TRUE}
  None = None
  s1 = s1
  s2 = s2
  m1 = m1
  m1b = m1b
  m2 = m2
  mx = mx
  a1 = a1
  a2 = a2
  b1 = b1
  b2 = b2
  b2b = b2b
  d1 = d1
  d2 = d2
  Pinned = {}
  RemoteNames = {"good1", "replaced1"}
  Damaged = FALSE
SPECIFICATION FairSpec
PROPERTIES
  TagImmutable
CHECK_DEADLOCK FALSE
