\* A production and a development process, two clients, and the services failing.
CONSTANTS
  MaxAttempts = 3
  Status = {200, 404, 503}
  Api = {x1, x2}
  Env <- MCEnv
  NormalizeOrigin <- MCNormalizeOrigin
  Source = {geography, universities}
  Geography = geography
  Order <- MCOrder
  Manifest <- MCManifest
  Row <- MCRow
  Slot = {1}
  Client = {c1, c2}
  From <- MCFrom
  Request <- MCRequest
  Limit = 1
  UnknownClient = UnknownClient
  None = None
  x1 = x1
  x2 = x2
  c1 = c1
  c2 = c2
  geography = geography
  universities = universities
  site = site
  siteAgain = siteAgain
  other = other
  proxy = proxy
SPECIFICATION FairSpec
CONSTRAINT InOrder
INVARIANTS
  OperationsTypeOK
  RetriesAreDue
  LastAttemptCounts
  CorsAsConfigured
PROPERTIES
  ReadyAnswers
  ReadyFromDatabase
  QuotaKept
  OnlyOwnQuota
  FetchEnds
  BecomesReady
CHECK_DEADLOCK FALSE
