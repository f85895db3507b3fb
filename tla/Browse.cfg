\* One client on every list, two deployments or imports meanwhile; pages of
\* one, two or three records.
CONSTANTS
  None = None
  Broken = Broken
  UnknownId = 99
  PageLimits = {1, 2, 3}
  DefaultLimit = 2
  MaxChanges = 2
  r0 = r0
  r1 = r1
  r2 = r2
  r3 = r3
  r4 = r4
  r5 = r5
  Release = {r0, r1, r2, r3, r4, r5}
  Mentioned <- MCMentioned
  Content <- MCContent
  Queries <- MCQueries

SPECIFICATION FairSpec

INVARIANTS
  BrowsingTypeOK
  WalkIsExact
  LinksLead
  DetailAgrees
  OrderImmaterial
  AllOrNothing
  DiscoveryAgrees

PROPERTIES
  WalkEnds
