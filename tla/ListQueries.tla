----------------------------- MODULE ListQueries -----------------------------
(***************************************************************************)
(* What the list and detail endpoints of the API share: the query of a     *)
(* list, search, sorting and pages, the reading of an artifact and the     *)
(* envelope of an answer (common/helpers, common/schemas).  Identifiers,   *)
(* names and dates are numbers, their ranks in the order of localeCompare; *)
(* of a text only the fields in which the one search term occurs are kept. *)
(***************************************************************************)
EXTENDS Integers, Sequences, FiniteSets

CONSTANTS
  None,         \* an absent, null or omitted value
  Broken,       \* an artifact that cannot be read: not listed, damaged, rejected
  PageLimits,   \* PAGE_LIMIT_VALUES
  DefaultLimit  \* DEFAULT_PAGE_LIMIT

ASSUME ListAssumption ==
  /\ None \notin Int /\ None # Broken
  /\ PageLimits \subseteq Nat \ {0}
  /\ DefaultLimit \in PageLimits

Optional(S) == S \cup {None}

Rank == Nat

Text == Nat

SortOrders == {"asc", "desc"}

RecordSourceStatuses == {"pending_release", "seed", "released", "deprecated"}

-----------------------------------------------------------------------------
(* Queries.                                                                *)

\* The parameters of any list as they are in the URL, and with its filters
\* those of one list.
RawQuery(Filters) ==
  [page : Optional(Int), limit : Optional(PageLimits), q : Optional({"term"}),
   order : Optional(SortOrders), filter : Filters]

ListQuery(Filters) ==
  [page : Nat \ {0}, limit : PageLimits, q : Optional({"term"}),
   order : SortOrders, filter : Filters]

ValidQuery(raw) == raw.page # None => raw.page > 0

OrElse(value, default) == IF value = None THEN default ELSE value

ParsedQuery(raw) ==
  [raw EXCEPT !.page = OrElse(@, 1),
              !.limit = OrElse(@, DefaultLimit),
              !.order = OrElse(@, "asc")]

\* A filter that is not given, or names the value.
Wanted(filter, value) == filter \in {None, value}

\* A filter that is not given, or names one of the values.
WantedIn(filter, values) == filter = None \/ filter \in values

\* Whether the term of the query occurs in one of the fields.
MatchesSearch(fields, item, q) == q = None \/ fields \cap item.mentions # {}

-----------------------------------------------------------------------------
(* Sorting and pages.                                                      *)

\* The positions of the items that pass a filter.
Chosen(items, Passes(_)) == { i \in DOMAIN items : Passes(items[i]) }

\* The pairs of positions whose items a comparison tells apart.
Compared(items, Precedes(_, _)) ==
  { p \in (DOMAIN items) \X (DOMAIN items) : Precedes(items[p[1]], items[p[2]]) }

\* What is sorted first: of two that the comparison does not tell apart, the
\* one that was first.
ComesBefore(compared, i, j) ==
  << i, j >> \in compared \/ (<< j, i >> \notin compared /\ i < j)

\* The position of the item that is sorted to place k.
SortedTo(chosen, compared, k) ==
  CHOOSE i \in chosen :
    Cardinality({ j \in chosen : ComesBefore(compared, j, i) }) = k - 1

\* sort of the items at the chosen positions.
Arranged(items, chosen, compared) ==
  [k \in 1 .. Cardinality(chosen) |-> items[SortedTo(chosen, compared, k)]]

\* Descending is the same comparison with its sign reversed.
SortedBy(items, chosen, Less(_, _), order) ==
  LET Precedes(x, y) == IF order = "asc" THEN Less(x, y) ELSE Less(y, x)
  IN  Arranged(items, chosen, Compared(items, Precedes))

ByName(x, y) == x.nameEn < y.nameEn

\* slice(start, start + limit).
PaginateOffsetItems(items, page, limit) ==
  SubSeq(items, (page - 1) * limit + 1,
         IF page * limit < Len(items) THEN page * limit ELSE Len(items))

TotalPages(total, limit) == (total + limit - 1) \div limit

\* Mutation: a full last page is taken for one that has a next page.
PaginationPastEnd(total, page, limit, count) ==
  [limit |-> limit, currentPage |-> page, pageRecords |-> count,
   totalRecords |-> total, totalPages |-> TotalPages(total, limit),
   nextPage |-> IF page * limit <= total THEN page + 1 ELSE None,
   previousPage |-> IF page > 1 /\ page <= TotalPages(total, limit)
                      THEN page - 1 ELSE None]

\* Mutation: any page of a list that is not empty names a next one, the last
\* one itself.
PaginationWithoutEnd(total, page, limit, count) ==
  [limit |-> limit, currentPage |-> page, pageRecords |-> count,
   totalRecords |-> total, totalPages |-> TotalPages(total, limit),
   nextPage |-> IF total = 0 THEN None
                ELSE IF page < TotalPages(total, limit) THEN page + 1
                ELSE TotalPages(total, limit),
   previousPage |-> IF page > 1 /\ page <= TotalPages(total, limit)
                      THEN page - 1 ELSE None]

BuildOffsetPagination(total, page, limit, count) ==
  [limit |-> limit, currentPage |-> page, pageRecords |-> count,
   totalRecords |-> total, totalPages |-> TotalPages(total, limit),
   nextPage |-> IF page < TotalPages(total, limit) THEN page + 1 ELSE None,
   previousPage |-> IF page > 1 /\ page <= TotalPages(total, limit)
                      THEN page - 1 ELSE None]

OffsetPagination ==
  [limit : PageLimits, currentPage : Nat \ {0}, pageRecords : Nat,
   totalRecords : Nat, totalPages : Nat,
   nextPage : Optional(Nat \ {0}), previousPage : Optional(Nat \ {0})]

-----------------------------------------------------------------------------
(* Releases and answers.                                                   *)

DatasetStatuses == {"planned", "seed", "released", "deprecated"}

\* "artifacts" stands for their names, paths, digests and counts.
Manifest ==
  [version : Text, status : DatasetStatuses, generatedAt : Rank,
   publishedAt : Optional(Rank), artifacts : Text, sources : Text,
   mentions : SUBSET { "dataset", "title", "status", "version", "generatedAt",
                       "publishedAt", "artifacts", "notes", "sources" }]

\* What a release has of a dataset: a manifest and every artifact, or nothing.
Complete(data) ==
  \/ \A f \in DOMAIN data \ {"row"} : data[f] # None
  \/ \A f \in DOMAIN data \ {"row"} : data[f] = None

\* readJsonArtifact: nothing without a manifest, an error for what is broken.
ReadJsonArtifact(manifest, artifact) ==
  IF manifest = None THEN None ELSE artifact

DataOf(artifact) == IF artifact = None THEN << >> ELSE artifact

\* The context of a dataset and of its release in an answer.
DatasetContext(dataset, manifest) ==
  [id |-> dataset,
   status |-> IF manifest = None THEN "pending_release" ELSE manifest.status]

ReleaseContext(manifest) ==
  IF manifest = None \/ manifest.publishedAt = None
    THEN None
    ELSE [version |-> manifest.version, releasedAt |-> manifest.publishedAt]

Sources(manifest) == IF manifest = None THEN None ELSE manifest.sources

\* What every endpoint of a dataset puts around its data.
Context(dataset, manifest) ==
  [dataset |-> DatasetContext(dataset, manifest),
   release |-> ReleaseContext(manifest),
   sources |-> Sources(manifest)]

Failure(status) == [status |-> status]

NotFound == Failure(404)

ServerError == Failure(500)

\* A list: what passes the filters, sorted, cut into pages.
Listed(records, Passes(_), Less(_, _), query, context) ==
  LET sorted == SortedBy(records, Chosen(records, Passes), Less, query.order)
      items == PaginateOffsetItems(sorted, query.page, query.limit)
  IN  [items |-> items,
       pagination |-> BuildOffsetPagination(Len(sorted), query.page, query.limit,
                                            Len(items)),
       dataset |-> context.dataset, release |-> context.release]

\* A detail: the first record with the identifier.
Detail(items, id, context) ==
  LET positions == { i \in DOMAIN items : items[i].id = id }
  IN  IF positions = {}
        THEN NotFound
        ELSE [item |-> items[CHOOSE i \in positions : \A j \in positions : i <= j],
              dataset |-> context.dataset, release |-> context.release,
              sources |-> context.sources]

Refused(answer) == "status" \in DOMAIN answer

BuildResponse(answer) ==
  IF Refused(answer) THEN answer ELSE [status |-> 200, data |-> answer]

\* Mutation: the records of a page are counted by its limit.
ResponseOfFullPages(answer, query) ==
  IF Refused(answer)
    THEN answer
    ELSE [status |-> 200,
          data |-> [answer EXCEPT !.pagination =
                      BuildOffsetPagination(@.totalRecords, query.page, query.limit,
                                            query.limit)]]

\* buildOffsetPaginatedResponse: the pages are counted again from the query
\* and the total.
BuildOffsetPaginatedResponse(answer, query) ==
  IF Refused(answer)
    THEN answer
    ELSE [status |-> 200,
          data |-> [answer EXCEPT !.pagination =
                      BuildOffsetPagination(@.totalRecords, query.page, query.limit,
                                            Len(answer.items))]]

=============================================================================
