-------------------------- MODULE DiscoveryEndpoints --------------------------
(***************************************************************************)
(* The lists of datasets and of releases (src/api/datasets,                *)
(* src/api/releases): what the API knows of every dataset, enriched from   *)
(* the manifests that a process serves.  manifests[d] is the manifest of   *)
(* dataset d, or None: the registry selects at most one of each.           *)
(***************************************************************************)
EXTENDS ListQueries

CONSTANT
  Mentioned \* [StaticEntry -> its fields in which the search term occurs]

\* The static list, in its order.
DatasetOrder == << "geography", "universities", "transport", "heritage", "telecom" >>

Datasets == { DatasetOrder[i] : i \in DOMAIN DatasetOrder }

StaticEntry == Datasets \cup {"active-datasets"}

\* The ranks of the English names of the datasets, and those of their slugs:
\* the slug is what the identifiers of releases begin with.
AlphabeticalRank ==
  [geography |-> 1, heritage |-> 2, telecom |-> 3, transport |-> 4, universities |-> 5]

\* The paths of each dataset, one for the list and the detail of a record.
PublicDatasetEndpoints ==
  [ geography |-> {"governorates", "districts", "subdistricts", "localities"},
    universities |-> {"universities"},
    transport |-> {"locations", "status-snapshots", "route-snapshots"},
    heritage |-> {},
    telecom |-> { "country-numbering-plans", "operators", "fixed-area-codes",
                  "mobile-prefixes", "number-ranges" } ]

Released(manifests) == { d \in Datasets : manifests[d] # None }

-----------------------------------------------------------------------------
(* Datasets.                                                               *)

DatasetFields ==
  { "id", "slug", "name", "description", "category", "repository", "status",
    "apiEndpoints", "version", "updatedAt" }

StaticDataset(d) ==
  [ id |-> d, nameEn |-> AlphabeticalRank[d],
    status |-> IF d = "heritage" THEN "planned" ELSE "released",
    apiEndpoints |-> PublicDatasetEndpoints[d], version |-> None,
    updatedAt |-> None, mentions |-> Mentioned[d] ]

\* Where the term occurs in what an entry takes from its manifest.
ManifestMentions(manifest) ==
  LET updatedAt == IF manifest.publishedAt = None THEN "generatedAt" ELSE "publishedAt"
  IN  (manifest.mentions \cap {"status", "version"})
        \cup (IF updatedAt \in manifest.mentions THEN {"updatedAt"} ELSE {})

EnrichDatasetFromManifest(dataset, manifests) ==
  LET manifest == manifests[dataset.id]
  IN  IF manifest = None
        THEN dataset
        ELSE [dataset EXCEPT
                !.status = manifest.status, !.version = manifest.version,
                !.updatedAt = OrElse(manifest.publishedAt, manifest.generatedAt),
                !.mentions = (@ \ {"status"}) \cup ManifestMentions(manifest)]

DatasetSummaries(manifests) ==
  [i \in DOMAIN DatasetOrder |->
     EnrichDatasetFromManifest(StaticDataset(DatasetOrder[i]), manifests)]

\* Mutation: pages are kept by their query only.
NoPayload(manifests) == << >>

\* What the key of a cached page holds of the manifests.  A page in the cache
\* comes from any process that served manifests with the same key.
DatasetCachePayload(manifests) ==
  [d \in Released(manifests) |->
     << manifests[d].generatedAt, manifests[d].status, manifests[d].version,
        manifests[d].publishedAt >>]

MatchesDatasetSearch(item, query) == MatchesSearch(DatasetFields, item, query.q)

-----------------------------------------------------------------------------
(* Releases.                                                               *)

\* What is searched of a manifest: its sources are not.
ReleaseFields ==
  { "dataset", "title", "status", "version", "generatedAt", "publishedAt",
    "artifacts", "notes" }

\* The identifier is made of the slug of the dataset and the version.
ReleaseSummary(d, manifest) ==
  [ id |-> << d, manifest.version >>, rank |-> AlphabeticalRank[d],
    status |-> manifest.status, version |-> manifest.version,
    generatedAt |-> manifest.generatedAt, publishedAt |-> manifest.publishedAt,
    datasets |-> {d}, mentions |-> manifest.mentions ]

\* Without any manifest, one entry that names all datasets.
StaticRelease ==
  [ id |-> << "active-datasets" >>, rank |-> 0, status |-> "released",
    version |-> None, generatedAt |-> None, publishedAt |-> None,
    datasets |-> Datasets, mentions |-> Mentioned["active-datasets"] ]

ReleaseSummaries(manifests) ==
  LET IsReleased(d) == d \in Released(manifests)
      released == Arranged(DatasetOrder, Chosen(DatasetOrder, IsReleased), {})
  IN  IF released = << >>
        THEN << StaticRelease >>
        ELSE [i \in DOMAIN released |-> ReleaseSummary(released[i], manifests[released[i]])]

ReleaseCachePayload(manifests) ==
  [d \in Released(manifests) |->
     << manifests[d].generatedAt, manifests[d].status, manifests[d].version,
        manifests[d].artifacts >>]

MatchesReleaseSearch(item, query) == MatchesSearch(ReleaseFields, item, query.q)

ByReleaseId(x, y) == x.rank < y.rank

-----------------------------------------------------------------------------
(* Lists and controllers.                                                  *)

DiscoveryPage(entries, Passes(_), Less(_, _), query) ==
  LET sorted == SortedBy(entries, Chosen(entries, Passes), Less, query.order)
      items == PaginateOffsetItems(sorted, query.page, query.limit)
  IN  [items |-> items,
       pagination |-> BuildOffsetPagination(Len(sorted), query.page, query.limit,
                                            Len(items))]

ListDatasets(query, manifests) ==
  LET Passes(item) == MatchesDatasetSearch(item, query)
  IN  DiscoveryPage(DatasetSummaries(manifests), Passes, ByName, query)

ListReleases(query, manifests) ==
  LET Passes(item) == MatchesReleaseSearch(item, query)
  IN  DiscoveryPage(ReleaseSummaries(manifests), Passes, ByReleaseId, query)

DatasetsController(raw, manifests) ==
  IF ValidQuery(raw)
    THEN BuildOffsetPaginatedResponse(ListDatasets(ParsedQuery(raw), manifests),
                                      ParsedQuery(raw))
    ELSE Failure(400)

ReleasesController(raw, manifests) ==
  IF ValidQuery(raw)
    THEN BuildOffsetPaginatedResponse(ListReleases(ParsedQuery(raw), manifests),
                                      ParsedQuery(raw))
    ELSE Failure(400)

=============================================================================
