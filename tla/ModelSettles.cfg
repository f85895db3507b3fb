\* One importer that imports two builds of a release in turn: stale answers do not last.
CONSTANTS
  Importer = {i1}
  Request = {p1}
  Release = {r1}
  Build = {b1, b1x}
  ReleaseOf <- MCReleaseOf
  StampOf <- MCStampOf
  Stamp = {1, 2}
  Tables <- MCTables
  Query = {list}
  TableOf <- MCTableOf
  ListQuery = {list}
  Local <- MCLocal
  Database = {p1}
  Store = {"redis"}
  StoreOf <- MCStoreOf
  None = None
  i1 = i1
  i2 = i2
  p1 = p1
  p2 = p2
  r1 = r1
  r2 = r2
  b1 = b1
  b1x = b1x
  b2 = b2
  list = list
  detail = detail
  NoPin = {}
  OfSecond = {}
SPECIFICATION FairSpec
PROPERTIES
  Settles
  ImportsLand
CHECK_DEADLOCK FALSE
