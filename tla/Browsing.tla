------------------------------- MODULE Browsing -------------------------------
(***************************************************************************)
(* Clients that browse the endpoints: they ask for a page of a list,       *)
(* follow its links forward to the last page and then back to the first    *)
(* one, and at any time may open a record they see, or the paths that the  *)
(* list of datasets names.  Meanwhile another release may be deployed, or  *)
(* be imported in the database.                                            *)
(***************************************************************************)
EXTENDS GeographyEndpoints, UniversityEndpoints, TransportEndpoints,
        TelecomEndpoints, DiscoveryEndpoints

CONSTANTS
  Release,    \* what a deployment serves: one release of each dataset
  Content,    \* [Release -> [geo, uni, trn, tel]]
  Queries,    \* [Endpoint -> sets of raw queries] that clients ask
  UnknownId,  \* an identifier that no record has
  MaxChanges  \* bound on deployments and imports

VARIABLES
  served,     \* the release that is served
  rows,       \* the releases that are in the database: the manifest of each
  session,    \* the walk of the client: endpoint, query, page and direction
  pages,      \* the last answer to each page of this walk, its release and row
  changes     \* deployments and imports so far

vars == << served, rows, session, pages, changes >>

GeographyEndpoint == {"governorates", "districts", "subdistricts", "localities"}

TransportEndpoint == {"locations", "status-snapshots", "route-snapshots"}

TelecomEndpoint ==
  { "country-numbering-plans", "operators", "fixed-area-codes",
    "mobile-prefixes", "number-ranges" }

DiscoveryEndpoint == {"datasets", "releases"}

\* Those of records, with a detail.
RecordEndpoint ==
  GeographyEndpoint \cup {"universities"} \cup TransportEndpoint \cup TelecomEndpoint

Endpoint == RecordEndpoint \cup DiscoveryEndpoint

Manifests(world) ==
  [ geography |-> world.geo.manifest, universities |-> world.uni.manifest,
    transport |-> world.trn.manifest, telecom |-> world.tel.manifest,
    heritage |-> None ]

World ==
  [geo : GeographyData, uni : UniversitiesData, trn : TransportData, tel : TelecomData]

\* The filters of each list.
FilterOf(e) ==
  CASE e = "governorates" -> GovernorateFilter
    [] e = "districts" -> DistrictFilter
    [] e = "subdistricts" -> SubdistrictFilter
    [] e = "localities" -> LocalityFilter
    [] e = "universities" -> UniversityFilter
    [] e = "locations" -> TransportLocationFilter
    [] e = "status-snapshots" -> TransportStatusSnapshotFilter
    [] e = "route-snapshots" -> TransportRouteSnapshotFilter
    [] e = "country-numbering-plans" -> CountryNumberingPlanFilter
    [] e = "operators" -> OperatorFilter
    [] e = "fixed-area-codes" -> FixedAreaCodeFilter
    [] e = "mobile-prefixes" -> MobilePrefixFilter
    [] e = "number-ranges" -> NumberRangeFilter
    [] e \in DiscoveryEndpoint -> { << >> }

\* A version has one build: those that have several are in ReadModel.
OneBuild(data, other) ==
  (/\ data.manifest # None /\ other.manifest # None
   /\ data.manifest.version = other.manifest.version)
  => \A f \in DOMAIN data \ {"manifest", "row"} : data[f] = other[f]

\* The walk of a client.
Walk ==
  [endpoint : Endpoint, raw : UNION { Queries[e] : e \in Endpoint }, page : Int,
   way : {"forward", "back"}]

ASSUME BrowsingAssumption ==
  /\ Content \in [Release -> World]
  /\ \A r \in Release : \A d \in DOMAIN Content[r] : Complete(Content[r][d])
  /\ \A r, s \in Release :
       \A d \in DOMAIN Content[r] : OneBuild(Content[r][d], Content[s][d])
  /\ DOMAIN Queries = Endpoint
  /\ \A e \in Endpoint : Queries[e] \subseteq RawQuery(FilterOf(e))
  /\ DOMAIN Mentioned = StaticEntry
  /\ None \notin Walk
  /\ MaxChanges \in Nat

-----------------------------------------------------------------------------
(* Requests.                                                               *)

GeographyList(e, raw, geo) ==
  CASE e = "governorates" -> GovernoratesController(raw, geo)
    [] e = "districts" -> DistrictsController(raw, geo)
    [] e = "subdistricts" -> SubdistrictsController(raw, geo)
    [] e = "localities" -> LocalitiesController(raw, geo)

GeographyDetail(e, id, geo) ==
  CASE e = "governorates" -> GovernorateController(id, geo)
    [] e = "districts" -> DistrictController(id, geo)
    [] e = "subdistricts" -> SubdistrictController(id, geo)
    [] e = "localities" -> LocalityController(id, geo)

TransportList(e, raw, trn) ==
  CASE e = "locations" -> LocationsController(raw, trn)
    [] e = "status-snapshots" -> StatusSnapshotsController(raw, trn)
    [] e = "route-snapshots" -> RouteSnapshotsController(raw, trn)

TransportDetail(e, id, trn) ==
  CASE e = "locations" -> LocationController(id, trn)
    [] e = "status-snapshots" -> StatusSnapshotController(id, trn)
    [] e = "route-snapshots" -> RouteSnapshotController(id, trn)

TelecomList(e, raw, tel) ==
  CASE e = "country-numbering-plans" -> CountryNumberingPlansController(raw, tel)
    [] e = "operators" -> OperatorsController(raw, tel)
    [] e = "fixed-area-codes" -> FixedAreaCodesController(raw, tel)
    [] e = "mobile-prefixes" -> MobilePrefixesController(raw, tel)
    [] e = "number-ranges" -> NumberRangesController(raw, tel)

TelecomDetail(e, id, tel) ==
  CASE e = "country-numbering-plans" -> CountryNumberingPlanController(id, tel)
    [] e = "operators" -> OperatorController(id, tel)
    [] e = "fixed-area-codes" -> FixedAreaCodeController(id, tel)
    [] e = "mobile-prefixes" -> MobilePrefixController(id, tel)
    [] e = "number-ranges" -> NumberRangeController(id, tel)

\* A page of discovery is of the manifests that are served, or comes from the
\* cache: of any that have the same key.
DiscoveryList(e, raw, manifests) ==
  CASE e = "datasets" -> DatasetsController(raw, manifests)
    [] e = "releases" -> ReleasesController(raw, manifests)

CachePayload(e, manifests) ==
  CASE e = "datasets" -> DatasetCachePayload(manifests)
    [] e = "releases" -> ReleaseCachePayload(manifests)

OfOneKey(e, manifests) ==
  { m \in { Manifests(Content[r]) : r \in Release } :
      CachePayload(e, m) = CachePayload(e, manifests) }

\* The answers that a list can give: more than one only if the database
\* orders records of one name, or the cache holds a page.
ListAnswers(e, raw, world, row) ==
  CASE e \in GeographyEndpoint ->
         GeographyList(e, raw, [world.geo EXCEPT !.row = row])
    [] e = "universities" -> { UniversitiesController(raw, world.uni) }
    [] e \in TransportEndpoint -> { TransportList(e, raw, world.trn) }
    [] e \in TelecomEndpoint -> { TelecomList(e, raw, world.tel) }
    [] e \in DiscoveryEndpoint ->
         { DiscoveryList(e, raw, m) : m \in OfOneKey(e, Manifests(world)) }

DetailAnswer(e, id, world, row) ==
  CASE e \in GeographyEndpoint ->
         GeographyDetail(e, id, [world.geo EXCEPT !.row = row])
    [] e = "universities" -> UniversityController(id, world.uni)
    [] e \in TransportEndpoint -> TransportDetail(e, id, world.trn)
    [] e \in TelecomEndpoint -> TelecomDetail(e, id, world.tel)

-----------------------------------------------------------------------------
(* The walk.                                                               *)

Init ==
  /\ served \in Release
  /\ rows = {}
  /\ session = None
  /\ pages = << >>
  /\ changes = 0

Succeeded(answer) == answer.status = 200

Pagination(n) == pages[n].answer.data.pagination

Items(n) == pages[n].answer.data.items

\* Rows are found by dataset and version.
RowsOf(r) ==
  { row \in rows : /\ Content[r].geo.manifest # None
                   /\ row.version = Content[r].geo.manifest.version }

\* What an endpoint finds of the release that is served.
RowFound(e) ==
  IF e \in GeographyEndpoint /\ RowsOf(served) # {}
    THEN CHOOSE row \in RowsOf(served) : TRUE
    ELSE None

\* A request for page n of the list, and its answer beside those before.
GetPage(e, raw, n) ==
  \E a \in ListAnswers(e, [raw EXCEPT !.page = n], Content[served], RowFound(e)) :
    pages' = [m \in DOMAIN pages \cup {n} |->
                IF m = n
                  THEN [answer |-> a, release |-> served, row |-> RowFound(e)]
                  ELSE pages[m]]

\* The first request of a client, for any page or none in particular.
Begin(e, raw) ==
  /\ session = None
  /\ session' = [endpoint |-> e, raw |-> raw, page |-> OrElse(raw.page, 1),
                 way |-> "forward"]
  /\ GetPage(e, raw, OrElse(raw.page, 1))
  /\ UNCHANGED << served, rows, changes >>

OnPage == session # None /\ Succeeded(pages[session.page].answer)

Turned == session.way = "back" \/ Pagination(session.page).nextPage = None

\* The link that the client takes: forward to the last page, then back.
NextLink ==
  /\ OnPage /\ ~ Turned
  /\ session' = [session EXCEPT !.page = Pagination(session.page).nextPage]

PreviousLink ==
  /\ OnPage /\ Turned
  /\ Pagination(session.page).previousPage # None
  /\ session' = [session EXCEPT !.page = Pagination(session.page).previousPage,
                                !.way = "back"]

FollowNext ==
  /\ NextLink
  /\ GetPage(session.endpoint, session.raw, Pagination(session.page).nextPage)
  /\ UNCHANGED << served, rows, changes >>

FollowPrevious ==
  /\ PreviousLink
  /\ GetPage(session.endpoint, session.raw, Pagination(session.page).previousPage)
  /\ UNCHANGED << served, rows, changes >>

\* No page, or no link to follow.
Over ==
  /\ session # None
  /\ OnPage => Turned /\ Pagination(session.page).previousPage = None

Leave ==
  /\ Over
  /\ session' = None /\ pages' = << >>
  /\ UNCHANGED << served, rows, changes >>

-----------------------------------------------------------------------------
(* What changes under a walk.                                              *)

\* The processes are replaced by ones that serve another release.
Deploy(r) ==
  /\ changes < MaxChanges
  /\ r # served
  /\ served' = r
  /\ changes' = changes + 1
  /\ UNCHANGED << rows, session, pages >>

\* The row of a version is replaced by that of the release that is imported.
Import(r) ==
  /\ changes < MaxChanges
  /\ Importable(Content[r].geo)
  /\ Content[r].geo.manifest \notin rows
  /\ rows' = (rows \ RowsOf(r)) \cup { Content[r].geo.manifest }
  /\ changes' = changes + 1
  /\ UNCHANGED << served, session, pages >>

Next ==
  \/ \E e \in Endpoint : \E raw \in Queries[e] : Begin(e, raw)
  \/ FollowNext \/ FollowPrevious \/ Leave
  \/ \E r \in Release : Deploy(r) \/ Import(r)

Spec == Init /\ [][Next]_vars

\* A client that has a link follows it.
FairSpec == Spec /\ WF_session(NextLink \/ PreviousLink)

-----------------------------------------------------------------------------
(* What a walk shows.                                                      *)

Records(e, world) ==
  CASE e \in GeographyEndpoint -> DataOf(ReadGeography(world.geo, world.geo[e]))
    [] e = "universities" -> ReadUniversities(world.uni)
    [] e = "locations" -> ReadTransport(world.trn).locations
    [] e = "status-snapshots" -> ReadTransport(world.trn).statusSnapshots
    [] e = "route-snapshots" -> ReadTransport(world.trn).routeSnapshots
    [] e = "country-numbering-plans" -> ReadTelecom(world.tel).plans
    [] e = "operators" -> ReadTelecom(world.tel).operators
    [] e = "fixed-area-codes" -> ReadTelecom(world.tel).areaCodes
    [] e = "mobile-prefixes" -> ReadTelecom(world.tel).prefixes
    [] e = "number-ranges" -> ReadTelecom(world.tel).ranges
    [] e = "datasets" -> DatasetSummaries(Manifests(world))
    [] e = "releases" -> ReleaseSummaries(Manifests(world))

Matching(e, item, query) ==
  CASE e = "governorates" -> FilterGovernorates(item, query)
    [] e = "districts" -> FilterDistricts(item, query)
    [] e = "subdistricts" -> FilterSubdistricts(item, query)
    [] e = "localities" -> FilterLocalities(item, query)
    [] e = "universities" -> FilterUniversities(item, query)
    [] e = "locations" -> MatchesLocationFilters(item, query)
    [] e = "status-snapshots" -> MatchesStatusSnapshotFilters(item, query)
    [] e = "route-snapshots" -> MatchesRouteSnapshotFilters(item, query)
    [] e = "country-numbering-plans" ->
         MatchesCountryNumberingPlanFilters(item, query)
    [] e = "operators" -> MatchesOperatorFilters(item, query)
    [] e = "fixed-area-codes" -> MatchesFixedAreaCodeFilters(item, query)
    [] e = "mobile-prefixes" -> MatchesMobilePrefixFilters(item, query)
    [] e = "number-ranges" -> MatchesNumberRangeFilters(item, query)
    [] e = "datasets" -> MatchesDatasetSearch(item, query)
    [] e = "releases" -> MatchesReleaseSearch(item, query)

SortKey(e, item) ==
  CASE e \in GeographyEndpoint \cup
             {"universities", "locations", "operators", "datasets"} -> item.nameEn
    [] e \in {"status-snapshots", "route-snapshots"} -> item.statusAsOf
    [] e = "country-numbering-plans" -> item.countryCode
    [] e = "fixed-area-codes" -> item.areaCode
    [] e = "mobile-prefixes" -> item.prefix
    [] e = "number-ranges" -> item.id
    [] e = "releases" -> item.rank

Less(e, x, y, order) ==
  IF order = "desc" THEN SortKey(e, x) > SortKey(e, y)
                    ELSE SortKey(e, x) < SortKey(e, y)

DistinctKeys(e, records) ==
  \A i, j \in DOMAIN records :
     i # j => /\ records[i].id # records[j].id
              /\ SortKey(e, records[i]) # SortKey(e, records[j])

\* The fields of a search as the documentation of the query lists them.
DocumentedSearch(e) ==
  LET Common == {"id", "name", "aliases", "externalIds", "sourceIds", "sourceStatus"}
  IN  CASE e = "governorates" -> Common \cup {"iso31662"}
        [] e = "districts" -> Common \cup {"governorateId"}
        [] e = "subdistricts" -> Common \cup {"governorateId", "districtId"}
        [] e = "localities" ->
             Common \cup {"governorateId", "districtId", "subdistrictId", "kind"}

\* The search finds a record by what is documented, if it finds it at all:
\* the artifacts and the tables are searched in different further fields.
FoundAsDocumented(e, records) ==
  \A i \in DOMAIN records :
     records[i].mentions # {} => records[i].mentions \cap DocumentedSearch(e) # {}

\* Artifacts and tables give one list, and so does the cache: manifests of one
\* key have the same entries.
OneList(e, r, raw) ==
  LET records == Records(e, Content[r])
      Same(m) == CASE e = "datasets" -> DatasetSummaries(m) = records
                   [] e = "releases" -> ReleaseSummaries(m) = records
  IN  /\ e \in GeographyEndpoint =>
           /\ DistinctKeys(e, records)
           /\ raw.q # None => FoundAsDocumented(e, records)
      /\ e \in DiscoveryEndpoint =>
           \A m \in OfOneKey(e, Manifests(Content[r])) : Same(m)

\* The pages of the walk that name one release; those of discovery name none,
\* and were answered while one was served.
SameRelease(m, n) ==
  /\ Succeeded(pages[m].answer) /\ Succeeded(pages[n].answer)
  /\ IF session.endpoint \in DiscoveryEndpoint
       THEN pages[m].release = pages[n].release
       ELSE /\ pages[m].answer.data.release # None
            /\ pages[m].answer.data.release = pages[n].answer.data.release

-----------------------------------------------------------------------------
(* Properties.                                                             *)

\* An answer is an error or has the envelope of a page.
PageAnswer(answer) ==
  \/ answer \in { Failure(400), ServerError }
  \/ /\ answer.status = 200
     /\ answer.data.pagination \in OffsetPagination
     /\ Len(answer.data.items) = answer.data.pagination.pageRecords

\* Types of the state of a walk.
BrowsingTypeOK ==
  /\ served \in Release
  /\ rows \subseteq Manifest
  /\ changes \in 0 .. MaxChanges
  /\ session # None => /\ session.endpoint \in Endpoint
                       /\ session.raw \in Queries[session.endpoint]
                       /\ session.page \in DOMAIN pages
                       /\ session.way \in {"forward", "back"}
  /\ session = None => pages = << >>
  /\ \A n \in DOMAIN pages : PageAnswer(pages[n].answer)

\* A walk that started on an existing page and whose pages all name one
\* release has seen every matching record exactly once, in the order asked
\* for, whether it was imported meanwhile or not.
WalkIsExact ==
  (/\ Over
   /\ \A m, n \in DOMAIN pages : SameRelease(m, n)
   /\ OneList(session.endpoint, pages[session.page].release, session.raw)
   /\ session.page = 1)
  => LET e == session.endpoint
         query == ParsedQuery(session.raw)
         records == Records(e, Content[pages[1].release])
         seen == UNION { { <<n, k>> : k \in DOMAIN Items(n) } : n \in DOMAIN pages }
         Item(at) == Items(at[1])[at[2]]
         Before(x, y) == x[1] < y[1] \/ (x[1] = y[1] /\ x[2] < y[2])
     IN  /\ { Item(at) : at \in seen } =
               { records[i] : i \in { j \in DOMAIN records :
                                       Matching(e, records[j], query) } }
         /\ \A x, y \in seen :
              Before(x, y) => /\ Item(x) # Item(y)
                              /\ ~ Less(e, Item(y), Item(x), query.order)

\* A link leads to a page that has records and the same totals, and that
\* links back, while the release is the same.
LinksLead ==
  session # None =>
    \A m, n \in DOMAIN pages :
      (/\ SameRelease(m, n)
       /\ Pagination(m).nextPage = n
       /\ OneList(session.endpoint, pages[m].release, session.raw))
      => /\ Items(n) # << >>
         /\ Pagination(n).totalRecords = Pagination(m).totalRecords
         /\ Pagination(n).totalPages = Pagination(m).totalPages
         /\ Pagination(n).previousPage = m

\* While its release is served, every record of a page opens, with the same
\* data, whether it was imported since or not, and as of the same version; with
\* the same date too, unless another manifest of that version was imported in
\* between (governorates.service.ts:54, 81-86).  One that no record has is not
\* found.
DetailAgrees ==
  OnPage /\ pages[session.page].release = served /\ session.endpoint \in RecordEndpoint =>
    LET page == pages[session.page].answer.data
        DetailOf(id) ==
          DetailAnswer(session.endpoint, id, Content[served],
                       RowFound(session.endpoint))
        sameRow == pages[session.page].row = RowFound(session.endpoint)
    IN  /\ \A i \in DOMAIN page.items :
             LET detail == DetailOf(page.items[i].id)
             IN  /\ Succeeded(detail)
                 /\ detail.data.item = page.items[i]
                 /\ sameRow => detail.data.release = page.release
                 /\ detail.data.release # None /\ page.release # None =>
                      detail.data.release.version = page.release.version
        /\ DetailOf(UnknownId) = NotFound

Reversed(artifact) ==
  IF artifact \in {None, Broken}
    THEN artifact
    ELSE [i \in DOMAIN artifact |-> artifact[Len(artifact) + 1 - i]]

\* A dataset whose artifacts list their records in the opposite order.
Reordered(data) ==
  [f \in DOMAIN data |->
     IF f \in {"manifest", "row"} THEN data[f] ELSE Reversed(data[f])]

\* Where no two records of a list have one identifier or one sort key, an
\* answer depends on what the artifacts contain, not on the order in which
\* they list it: images, rankings and pages come out the same (sortByEnglishName,
\* readUniversities:84-114).  Records whose keys are equal keep the order of the
\* artifact, and lists that have some are not covered.
OrderImmaterial ==
  OnPage =>
    LET page == pages[session.page]
        world == Content[page.release]
        reordered == [d \in DOMAIN world |-> Reordered(world[d])]
    IN  DistinctKeys(session.endpoint, Records(session.endpoint, world))
        => page.answer \in
             ListAnswers(session.endpoint, [session.raw EXCEPT !.page = session.page],
                         reordered, page.row)

\* The artifacts that an endpoint reads.
ReadBy(e, world, row) ==
  CASE e \in GeographyEndpoint -> IF row # None THEN {} ELSE { world.geo[e] }
    [] e = "universities" ->
         {world.uni.universities, world.uni.assets, world.uni.rankings}
    [] e \in TransportEndpoint ->
         {world.trn.locations, world.trn.statusSnapshots, world.trn.routeSnapshots}
    [] e \in TelecomEndpoint ->
         { world.tel.plans, world.tel.operators, world.tel.areaCodes,
           world.tel.prefixes, world.tel.ranges }
    [] e \in DiscoveryEndpoint -> {}

\* An answer that succeeds has read all the artifacts of its endpoint: none is
\* made of those that could be read (readUniversities:84-114, readTransport,
\* readTelecom).
AllOrNothing ==
  \A n \in DOMAIN pages :
    Succeeded(pages[n].answer) =>
      Broken \notin ReadBy(session.endpoint, Content[pages[n].release],
                           pages[n].row)

\* The row of the geography, if there is one, has the status of the manifest
\* that is served: what readiness asks for (health.service.ts:145-153).
RowAsServed ==
  \A row \in RowsOf(served) : row.status = Content[served].geo.manifest.status

\* What discovery tells of a dataset is what its endpoints tell: a version that
\* it names, cached or not, is the one that every path of the dataset answers
\* from, and where it names none, no path names one; the status is the same too,
\* but for a geography that is answered from a row of another status
\* (enrichDatasetFromManifest:165-181, mapManifestToReleaseSummary:153-186,
\* mapReleaseManifest of the query service:500-518).
DiscoveryAgrees ==
  OnPage /\ pages[session.page].release = served /\ session.endpoint \in DiscoveryEndpoint =>
    \A i \in DOMAIN Items(session.page) :
      LET item == Items(session.page)[i]
      IN  \A d \in IF session.endpoint = "datasets" THEN {item.id} ELSE item.datasets :
          \A e \in PublicDatasetEndpoints[d] :
          \A raw \in { x \in Queries[e] : x.page = None /\ x.limit = None } :
          \A a \in ListAnswers(e, raw, Content[served], RowFound(e)) :
             Succeeded(a) =>
               IF item.version = None
                 THEN a.data.release = None
                 ELSE /\ e \notin GeographyEndpoint \/ RowAsServed =>
                           a.data.dataset.status = item.status
                      /\ a.data.release # None => a.data.release.version = item.version

\* A client that follows the links it is given comes to an end, whatever is
\* deployed meanwhile.
WalkEnds == session # None ~> (session = None \/ Over)

=============================================================================
