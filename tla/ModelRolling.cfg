\* Two imports, an old and a new image behind one Redis, every failure.
CONSTANTS
  Importer = {i1, i2}
  Request = {p1, p2}
  Release = {r1, r2}
  Build = {b1, b2}
  ReleaseOf <- MCReleaseOf
  StampOf <- MCStampOf
  Stamp = {1, 2}
  Tables <- MCTables
  Query = {list, detail}
  TableOf <- MCTableOf
  ListQuery = {list}
  Local <- MCLocal
  Database = {p1, p2}
  Store = {"redis"}
  StoreOf <- MCStoreOf
  None = None
  i1 = i1
  i2 = i2
  p1 = p1
  p2 = p2
  r1 = r1
  r2 = r2
  b1 = b1
  b1x = b1x
  b2 = b2
  list = list
  detail = detail
  NoPin = {}
  OfSecond = {p2}
SPECIFICATION Spec
INVARIANTS
  TypeOK
  ReleasesComplete
  AnswersPinned
PROPERTIES
  ReleasesRemain
CHECK_DEADLOCK FALSE
