---------------------------- MODULE BrowsingProofs ----------------------------
(***************************************************************************)
(* Theorems about Browsing: what an answer is made of, that none is made   *)
(* of the artifacts that could be read, and what clients see that follow   *)
(* the links of a list.                                                    *)
(***************************************************************************)
EXTENDS Browsing, ListQueriesProofs

-----------------------------------------------------------------------------
(* What an answer is made of.                                              *)

\* A list shows the chosen records, each once, and none before one that is
\* less.
Shows(s, e, records, chosen, order) ==
  IsFiniteSet(chosen) /\
  \E f \in [1 .. Cardinality(chosen) -> chosen] :
    /\ s = [k \in 1 .. Cardinality(chosen) |-> records[f[k]]]
    /\ \A i \in chosen : \E k \in 1 .. Cardinality(chosen) : f[k] = i
    /\ \A k, l \in 1 .. Cardinality(chosen) :
         k < l => f[k] # f[l] /\ ~ Less(e, records[f[l]], records[f[k]], order)

\* What an item is sorted by among those with the same key.
TieKey(e, item) == IF e \in TransportEndpoint THEN item.id ELSE 0

Ahead(e, x, y) ==
  \/ SortKey(e, x) < SortKey(e, y)
  \/ SortKey(e, x) = SortKey(e, y) /\ TieKey(e, x) < TieKey(e, y)

\* The comparison by which the items of artifacts are sorted.
Ordering(e, records, order) ==
  { p \in (DOMAIN records) \X (DOMAIN records) :
      IF order = "asc" THEN Ahead(e, records[p[1]], records[p[2]])
                       ELSE Ahead(e, records[p[2]], records[p[1]]) }

\* A page of a list in its envelope.
PageOf(s, query, context) ==
  LET items == PaginateOffsetItems(s, query.page, query.limit)
  IN  [items |-> items,
       pagination |-> BuildOffsetPagination(Len(s), query.page, query.limit, Len(items)),
       dataset |-> context.dataset, release |-> context.release]

\* What is told of a release: that of the tables by its row.
ContextOf(e, world, row) ==
  CASE e \in GeographyEndpoint ->
         Context("opensyria-geography", IF row # None THEN row ELSE world.geo.manifest)
    [] e = "universities" -> UniversitiesContext(world.uni)
    [] e \in TransportEndpoint -> TransportContext(world.trn)
    [] e \in TelecomEndpoint -> TelecomContext(world.tel)

Matches(e, records, query) ==
  { i \in DOMAIN records : Matching(e, records[i], query) }

\* The rows of a table that a where clause selects.
Rows(e, records, query) ==
  { i \in DOMAIN records :
      CASE e = "governorates" -> GovernorateWhere(records[i], query)
        [] e = "districts" -> DistrictWhere(records[i], query)
        [] e = "subdistricts" -> SubdistrictWhere(records[i], query)
        [] e = "localities" -> LocalityWhere(records[i], query) }

\* What stands for an absent value or a damaged artifact is no function, so
\* neither a list nor a record.
MarksApart == \A S, T : None \notin [S -> T] /\ Broken \notin [S -> T]

\* An answer of records: an error, or a page of those that match.
RecordAnswer(e, raw, world, row, a) ==
  \/ a = Failure(400) /\ ~ ValidQuery(raw)
  \/ a = ServerError /\ (MarksApart => Broken \in ReadBy(e, world, row))
  \/ /\ ValidQuery(raw)
     /\ Broken \notin ReadBy(e, world, row)
     /\ \E s :
          /\ Shows(s, e, Records(e, world),
                   IF row # None THEN Rows(e, Records(e, world), ParsedQuery(raw))
                                 ELSE Matches(e, Records(e, world), ParsedQuery(raw)),
                   ParsedQuery(raw).order)
          /\ row # None
             \/ s = Arranged(Records(e, world),
                             Matches(e, Records(e, world), ParsedQuery(raw)),
                             Ordering(e, Records(e, world), ParsedQuery(raw).order))
          /\ a = [status |-> 200,
                  data |-> PageOf(s, ParsedQuery(raw), ContextOf(e, world, row))]

LEMMA ResponseOfPage ==
  ASSUME NEW s, NEW query, NEW context
  PROVE  BuildOffsetPaginatedResponse(PageOf(s, query, context), query)
           = [status |-> 200, data |-> PageOf(s, query, context)]
<1> DEFINE items == PaginateOffsetItems(s, query.page, query.limit)
           total == Len(s)
           P(count) == BuildOffsetPagination(total, query.page, query.limit, count)
<1>1. P(Len(items)).totalRecords = total
  BY DEF BuildOffsetPagination
<1> HIDE DEF total, items
<1>2. QED BY <1>1 DEF PageOf, BuildOffsetPaginatedResponse, Refused, items, total

LEMMA ResponseOfError ==
  ASSUME NEW query
  PROVE  BuildOffsetPaginatedResponse(ServerError, query) = ServerError
BY DEF BuildOffsetPaginatedResponse, Refused, ServerError, Failure

\* What is arranged by an order that the keys of an endpoint agree with.
LEMMA ArrangedShows ==
  ASSUME NEW S, NEW records \in Seq(S), NEW chosen \in SUBSET (DOMAIN records),
         NEW compared, WeakOrder(chosen, compared), NEW e, NEW order,
         \A i, j \in chosen :
           Less(e, records[i], records[j], order) => << i, j >> \in compared
  PROVE  Shows(Arranged(records, chosen, compared), e, records, chosen, order)
<1> DEFINE n == Cardinality(chosen)
           f == [k \in 1 .. n |-> SortedTo(chosen, compared, k)]
<1>1. chosen \in SUBSET Nat /\ IsFiniteSet(chosen)
  BY ChosenIsFinite
<1>2. /\ n \in Nat
      /\ \A k \in 1 .. n : SortedTo(chosen, compared, k) \in chosen
      /\ \A i \in chosen : \E k \in 1 .. n : SortedTo(chosen, compared, k) = i
      /\ \A k, l \in 1 .. n :
           k < l => ComesBefore(compared, SortedTo(chosen, compared, k),
                                          SortedTo(chosen, compared, l))
  BY <1>1, SortedPositions
<1>3. f \in [1 .. n -> chosen] /\ \A k \in 1 .. n : f[k] = SortedTo(chosen, compared, k)
  BY <1>2
<1>4. Arranged(records, chosen, compared) = [k \in 1 .. n |-> records[f[k]]]
  BY DEF Arranged
<1>5. ASSUME NEW k \in 1 .. n, NEW l \in 1 .. n, k < l
      PROVE  f[k] # f[l] /\ ~ Less(e, records[f[l]], records[f[k]], order)
  <2>1. f[k] \in chosen /\ f[l] \in chosen /\ ComesBefore(compared, f[k], f[l])
    BY <1>2, <1>3, <1>5
  <2>2. f[k] # f[l]
    BY <1>1, <2>1, ComesBeforeIsTotal
  <2>3. << f[l], f[k] >> \notin compared
    BY <2>1 DEF ComesBefore, WeakOrder
  <2>4. QED BY <2>1, <2>2, <2>3
<1>6. \A i \in chosen : \E k \in 1 .. n : f[k] = i
  BY <1>2, <1>3
<1> HIDE DEF f
<1>7. QED BY <1>1, <1>3, <1>4, <1>5, <1>6 DEF Shows

\* The rows of a table in an order by name.
LEMMA TableShows ==
  ASSUME NEW S, NEW records \in Seq(S), \A i \in DOMAIN records : records[i].nameEn \in Nat,
         NEW chosen \in SUBSET (DOMAIN records), NEW e \in GeographyEndpoint,
         NEW order \in SortOrders, NEW s \in DatabaseOrders(records, chosen, order)
  PROVE  Shows(s, e, records, chosen, order)
<1> DEFINE n == Cardinality(chosen)
<1>1. PICK f \in [1 .. n -> chosen] :
        /\ \A k, l \in DOMAIN f :
             k < l => /\ f[k] # f[l]
                      /\ IF order = "asc" THEN records[f[k]].nameEn <= records[f[l]].nameEn
                                          ELSE records[f[k]].nameEn >= records[f[l]].nameEn
        /\ s = [k \in DOMAIN f |-> records[f[k]]]
  BY DEF DatabaseOrders
<1>2. chosen \in SUBSET Nat /\ IsFiniteSet(chosen) /\ n \in Nat
  BY ChosenIsFinite
<1>3. \A k, l \in 1 .. n : f[k] = f[l] => k = l
  BY <1>1, <1>2
<1>4. \A i \in chosen : \E k \in 1 .. n : f[k] = i
  <2>1. f \in Injection(1 .. n, chosen)
    BY <1>3, Fun_IsInj
  <2>2. Cardinality(1 .. n) = n
    <3>1. 1 \in Int /\ n \in Int /\ (1 > n => n = 0)
      BY <1>2
    <3>2. QED BY <1>2, <3>1, FS_Interval
  <2>3. f \in Surjection(1 .. n, chosen)
    BY <1>2, <2>1, <2>2, FS_Injection
  <2>4. QED BY <2>3 DEF Surjection
<1>5. ASSUME NEW k \in 1 .. n, NEW l \in 1 .. n, k < l
      PROVE  f[k] # f[l] /\ ~ Less(e, records[f[l]], records[f[k]], order)
  <2>1. records[f[k]].nameEn \in Nat /\ records[f[l]].nameEn \in Nat
    OBVIOUS
  <2>2. \A x : SortKey(e, x) = x.nameEn
    BY DEF SortKey, GeographyEndpoint
  <2>3. QED BY <1>1, <1>5, <2>1, <2>2 DEF Less, SortOrders
<1>6. QED BY <1>1, <1>2, <1>4, <1>5 DEF Shows

-----------------------------------------------------------------------------
(* Artifacts.                                                              *)

\* The kinds of endpoints have none in common.
LEMMA KindsOfEndpoints ==
  /\ \A e \in GeographyEndpoint :
       /\ e # "universities" /\ e \notin TransportEndpoint
       /\ e \notin TelecomEndpoint /\ e \notin DiscoveryEndpoint
  /\ \A e \in TransportEndpoint :
       /\ e # "universities" /\ e \notin GeographyEndpoint
       /\ e \notin TelecomEndpoint /\ e \notin DiscoveryEndpoint
  /\ \A e \in TelecomEndpoint :
       /\ e # "universities" /\ e \notin GeographyEndpoint
       /\ e \notin TransportEndpoint /\ e \notin DiscoveryEndpoint
  /\ \A e \in DiscoveryEndpoint :
       /\ e # "universities" /\ e \notin GeographyEndpoint
       /\ e \notin TransportEndpoint /\ e \notin TelecomEndpoint
  /\ "universities" \notin GeographyEndpoint \cup TransportEndpoint
                            \cup TelecomEndpoint \cup DiscoveryEndpoint
BY DEF GeographyEndpoint, TransportEndpoint, TelecomEndpoint, DiscoveryEndpoint

\* A record of several lists is no mark.
LEMMA MarkOfArtifact ==
  ASSUME MarksApart
  PROVE  /\ \A manifest, artifact : ReadJsonArtifact(manifest, artifact) = Broken
                                   => artifact = Broken
         /\ \A f : f = [x \in DOMAIN f |-> f[x]] => f # Broken
<1>1. ASSUME NEW f, f = [x \in DOMAIN f |-> f[x]] PROVE f # Broken
  <2>1. f \in [DOMAIN f -> { f[x] : x \in DOMAIN f }]
    BY <1>1
  <2>2. QED BY <2>1 DEF MarksApart
<1>2. None # Broken
  BY ListAssumption
<1>3. QED BY <1>1, <1>2 DEF ReadJsonArtifact

LEMMA TransportBroken ==
  ASSUME NEW world, NEW e \in TransportEndpoint, ReadTransport(world.trn) = Broken, MarksApart
  PROVE  Broken \in ReadBy(e, world, None)
<1> DEFINE trn == world.trn
           Read(artifact) == ReadJsonArtifact(trn.manifest, artifact)
<1>1. \A x, y, z : [locations |-> x, statusSnapshots |-> y, routeSnapshots |-> z] # Broken
  BY MarkOfArtifact
<1>2. Broken \in {Read(trn.locations), Read(trn.statusSnapshots), Read(trn.routeSnapshots)}
  BY <1>1, Zenon DEF ReadTransport
<1>3. Broken \in {trn.locations, trn.statusSnapshots, trn.routeSnapshots}
  BY <1>2, MarkOfArtifact
<1>4. QED BY <1>3, KindsOfEndpoints DEF ReadBy

LEMMA TransportRead ==
  ASSUME NEW world \in World, Complete(world.trn), NEW e \in TransportEndpoint,
         ReadTransport(world.trn) # Broken
  PROVE  /\ Broken \notin ReadBy(e, world, None)
         /\ ReadTransport(world.trn).locations \in Seq(TransportLocation)
         /\ ReadTransport(world.trn).statusSnapshots \in Seq(TransportStatusSnapshot)
         /\ ReadTransport(world.trn).routeSnapshots \in Seq(TransportRouteSnapshot)
<1> DEFINE trn == world.trn
<1>1. trn \in TransportData
  BY DEF World
<1>2. \A artifact \in {trn.locations, trn.statusSnapshots, trn.routeSnapshots} :
        ReadJsonArtifact(trn.manifest, artifact) = artifact
  BY <1>1 DEF Complete, ReadJsonArtifact, TransportData
<1>3. /\ trn.locations # Broken /\ trn.statusSnapshots # Broken
      /\ trn.routeSnapshots # Broken
  BY <1>2 DEF ReadTransport
<1>4. Broken \notin ReadBy(e, world, None)
  BY <1>3, KindsOfEndpoints DEF ReadBy
<1>5. ReadTransport(trn) =
              [locations |-> DataOf(trn.locations),
               statusSnapshots |-> DataOf(trn.statusSnapshots),
               routeSnapshots |-> DataOf(trn.routeSnapshots)]
  BY <1>2, <1>3 DEF ReadTransport
<1>6. /\ DataOf(trn.locations) \in Seq(TransportLocation)
      /\ DataOf(trn.statusSnapshots) \in Seq(TransportStatusSnapshot)
      /\ DataOf(trn.routeSnapshots) \in Seq(TransportRouteSnapshot)
  BY <1>1, <1>3, EmptySeq DEF TransportData, Optional, TransportArtifact, DataOf
<1>7. /\ ReadTransport(trn).locations = DataOf(trn.locations)
      /\ ReadTransport(trn).statusSnapshots = DataOf(trn.statusSnapshots)
      /\ ReadTransport(trn).routeSnapshots = DataOf(trn.routeSnapshots)
  BY <1>5
<1>8. QED BY <1>4, <1>6, <1>7

LEMMA ParsedQueryType ==
  ASSUME NEW Filters, NEW raw \in RawQuery(Filters), ValidQuery(raw)
  PROVE  /\ ParsedQuery(raw).page \in Nat \ {0}
         /\ raw.page # None => ParsedQuery(raw).page = raw.page
         /\ ParsedQuery(raw).limit \in PageLimits
         /\ ParsedQuery(raw).order \in SortOrders
         /\ ParsedQuery(raw).q = raw.q
         /\ ParsedQuery(raw).filter = raw.filter
<1>1. /\ ParsedQuery(raw).page = OrElse(raw.page, 1)
      /\ ParsedQuery(raw).limit = OrElse(raw.limit, DefaultLimit)
      /\ ParsedQuery(raw).order = OrElse(raw.order, "asc")
      /\ ParsedQuery(raw).q = raw.q /\ ParsedQuery(raw).filter = raw.filter
  <2>1. DOMAIN raw = {"page", "limit", "q", "order", "filter"}
    BY DEF RawQuery
  <2>2. QED BY <2>1 DEF ParsedQuery
<1>2. /\ OrElse(raw.page, 1) \in Nat \ {0}
      /\ raw.page # None => OrElse(raw.page, 1) = raw.page
  BY DEF RawQuery, ValidQuery, OrElse, Optional
<1>3. OrElse(raw.limit, DefaultLimit) \in PageLimits
  BY LimitFacts DEF RawQuery, OrElse, Optional
<1>4. OrElse(raw.order, "asc") \in SortOrders
  BY DEF RawQuery, OrElse, Optional, SortOrders
<1>5. QED BY <1>1, <1>2, <1>3, <1>4

\* The comparison of an endpoint, of numbers.
IsOrdering(e, records, order, compared) ==
  /\ compared = Ordering(e, records, order)
  /\ \A i \in DOMAIN records : SortKey(e, records[i]) \in Int /\ TieKey(e, records[i]) \in Int

\* A comparison of numbers that are the keys of an endpoint is its own.
LEMMA OrderingOfKeys ==
  ASSUME NEW e, NEW records, NEW order, NEW compared, NEW key, NEW tie,
         NumberOrder(compared, DOMAIN records, key, tie, order),
         compared \subseteq (DOMAIN records) \X (DOMAIN records),
         \A i \in DOMAIN records :
           SortKey(e, records[i]) = key[i] /\ TieKey(e, records[i]) = tie[i]
  PROVE  IsOrdering(e, records, order, compared)
<1>1. ASSUME NEW i \in DOMAIN records, NEW j \in DOMAIN records
      PROVE  << i, j >> \in compared <=> << i, j >> \in Ordering(e, records, order)
  <2>1. << i, j >> \in Ordering(e, records, order)
        <=> IF order = "asc" THEN Ahead(e, records[i], records[j])
                             ELSE Ahead(e, records[j], records[i])
    BY DEF Ordering
  <2>2. Ahead(e, records[i], records[j])
        <=> key[i] < key[j] \/ (key[i] = key[j] /\ tie[i] < tie[j])
    BY DEF Ahead
  <2>3. Ahead(e, records[j], records[i])
        <=> key[j] < key[i] \/ (key[j] = key[i] /\ tie[j] < tie[i])
    BY DEF Ahead
  <2>4. QED BY <2>1, <2>2, <2>3 DEF NumberOrder
<1>2. Ordering(e, records, order) \subseteq (DOMAIN records) \X (DOMAIN records)
  BY DEF Ordering
<1>3. compared = Ordering(e, records, order)
  BY <1>1, <1>2
<1>4. \A i \in DOMAIN records : SortKey(e, records[i]) \in Int /\ TieKey(e, records[i]) \in Int
  BY DEF NumberOrder
<1>5. QED BY <1>3, <1>4 DEF IsOrdering

\* Keys and ties make a weak order, which the sorting by keys agrees with.
LEMMA OrderingIsWeak ==
  ASSUME NEW e, NEW records, NEW order \in SortOrders, NEW compared,
         IsOrdering(e, records, order, compared), NEW chosen \in SUBSET (DOMAIN records)
  PROVE  /\ WeakOrder(chosen, compared)
         /\ \A i, j \in chosen :
              Less(e, records[i], records[j], order) => << i, j >> \in compared
<1> DEFINE key == [i \in DOMAIN records |-> SortKey(e, records[i])]
           tie == [i \in DOMAIN records |-> TieKey(e, records[i])]
<1>1. \A i, j \in DOMAIN records :
        << i, j >> \in compared
        <=> IF order = "asc" THEN Ahead(e, records[i], records[j])
                             ELSE Ahead(e, records[j], records[i])
  BY DEF IsOrdering, Ordering
<1>2. NumberOrder(compared, DOMAIN records, key, tie, order)
  BY <1>1 DEF NumberOrder, IsOrdering, Ahead
<1>3. WeakOrder(chosen, compared)
  <2> HIDE DEF key, tie
  <2>1. QED BY <1>2, NumbersSort
<1>4. ASSUME NEW i \in chosen, NEW j \in chosen, Less(e, records[i], records[j], order)
      PROVE  << i, j >> \in compared
  BY <1>1, <1>4 DEF Less, Ahead, SortOrders, IsOrdering
<1>5. QED BY <1>3, <1>4

\* A page of the records that match, sorted by their key and a second number.
LEMMA PageAnswers ==
  ASSUME NEW e, NEW raw, ValidQuery(raw), ParsedQuery(raw).order \in SortOrders,
         NEW world, Broken \notin ReadBy(e, world, None),
         NEW records, records = Records(e, world), NEW S, records \in Seq(S),
         NEW compared,
         IsOrdering(e, records, ParsedQuery(raw).order, compared),
         NEW a,
         a = BuildOffsetPaginatedResponse(
               PageOf(Arranged(records, Matches(e, records, ParsedQuery(raw)), compared),
                      ParsedQuery(raw), ContextOf(e, world, None)),
               ParsedQuery(raw))
  PROVE  RecordAnswer(e, raw, world, None, a)
<1> DEFINE query == ParsedQuery(raw)
           chosen == Matches(e, records, query)
           s == Arranged(records, chosen, compared)
<1>1. chosen \in SUBSET (DOMAIN records)
  BY DEF Matches
<1> HIDE DEF chosen
<1>2. /\ WeakOrder(chosen, compared)
      /\ \A i, j \in chosen :
           Less(e, records[i], records[j], query.order) => << i, j >> \in compared
  BY <1>1, OrderingIsWeak
<1>3. Shows(s, e, records, chosen, query.order)
  BY <1>1, <1>2, ArrangedShows
<1>4. a = [status |-> 200, data |-> PageOf(s, query, ContextOf(e, world, None))]
  BY ResponseOfPage DEF chosen
<1>5. s = Arranged(records, chosen, Ordering(e, records, query.order))
  BY DEF IsOrdering
<1>6. QED BY <1>3, <1>4, <1>5 DEF RecordAnswer, chosen

-----------------------------------------------------------------------------
(* Lists of transport.                                                     *)

LEMMA LocationsAnswer ==
  ASSUME NEW world \in World, Complete(world.trn),
         NEW raw \in RawQuery(TransportLocationFilter)
  PROVE  RecordAnswer("locations", raw, world, None,
                      LocationsController(raw, world.trn))
<1> DEFINE query == ParsedQuery(raw)
           trn == world.trn
           records == ReadTransport(trn).locations
           Precedes(x, y) == IF query.order = "asc" THEN SortByName(x, y)
                                                    ELSE SortByName(y, x)
           compared == Compared(records, Precedes)
           s == Arranged(records, Matches("locations", records, query), compared)
           a == LocationsController(raw, trn)
           key == [i \in DOMAIN records |-> records[i].nameEn]
           tie == [i \in DOMAIN records |-> records[i].id]
<1>1. CASE ~ ValidQuery(raw)
  BY <1>1 DEF RecordAnswer, LocationsController, TransportPages
<1>2. CASE ReadTransport(trn) = Broken
  BY <1>1, <1>2, ResponseOfError, TransportBroken
  DEF TransportEndpoint, RecordAnswer, LocationsController, TransportPages, ListLocations
<1>3. CASE ValidQuery(raw) /\ ReadTransport(trn) # Broken
  <2>1. "locations" \in TransportEndpoint
    BY DEF TransportEndpoint
  <2>2. /\ Broken \notin ReadBy("locations", world, None)
        /\ records \in Seq(TransportLocation)
    BY <1>3, <2>1, TransportRead
  <2>3. records = Records("locations", world) /\ ContextOf("locations", world, None) = TransportContext(trn)
    <3>1. records = Records("locations", world)
      BY <2>1, KindsOfEndpoints DEF Records
    <3>2. ContextOf("locations", world, None) = TransportContext(trn)
      BY <2>1, KindsOfEndpoints DEF ContextOf
    <3>3. QED BY <3>1, <3>2
  <2>4. Matches("locations", records, query)
          = { i \in DOMAIN records : MatchesLocationFilters(records[i], query) }
    BY DEF Matches, Matching, GeographyEndpoint
  <2>5. a = BuildOffsetPaginatedResponse(PageOf(s, query, TransportContext(trn)), query)
    BY <1>3, <2>4, Zenon DEF LocationsController, TransportPages, ListLocations, Listed,
       SortedBy, PageOf, Chosen, Compared
  <2>6. query.order \in SortOrders
    BY <1>3, ParsedQueryType
  <2> HIDE DEF records, query
  <2>7. \A i \in DOMAIN records : records[i] \in TransportLocation
    BY <2>2, ElementsOfSeq
  <2>8. \A i \in DOMAIN records : records[i].nameEn \in Int /\ records[i].id \in Int
    BY <2>7 DEF TransportLocation, Rank
  <2>9. /\ NumberOrder(compared, DOMAIN records, key, tie, query.order)
        /\ compared \subseteq (DOMAIN records) \X (DOMAIN records)
    BY <2>8 DEF NumberOrder, Compared, SortByName
  <2>10. \A i \in DOMAIN records :
          /\ SortKey("locations", records[i]) = key[i]
          /\ TieKey("locations", records[i]) = tie[i]
    BY <2>1, KindsOfEndpoints DEF SortKey, TieKey
  <2> HIDE DEF key, tie, compared
  <2>11. IsOrdering("locations", records, query.order, compared)
    BY <2>9, <2>10, OrderingOfKeys
  <2>12. QED BY <1>3, <2>2, <2>3, <2>5, <2>6, <2>11, PageAnswers DEF query
<1>4. QED BY <1>1, <1>2, <1>3

LEMMA StatusSnapshotsAnswer ==
  ASSUME NEW world \in World, Complete(world.trn),
         NEW raw \in RawQuery(TransportStatusSnapshotFilter)
  PROVE  RecordAnswer("status-snapshots", raw, world, None,
                      StatusSnapshotsController(raw, world.trn))
<1> DEFINE query == ParsedQuery(raw)
           trn == world.trn
           records == ReadTransport(trn).statusSnapshots
           Precedes(x, y) == IF query.order = "asc" THEN SortByStatusDate(x, y)
                                                    ELSE SortByStatusDate(y, x)
           compared == Compared(records, Precedes)
           s == Arranged(records, Matches("status-snapshots", records, query), compared)
           a == StatusSnapshotsController(raw, trn)
           key == [i \in DOMAIN records |-> records[i].statusAsOf]
           tie == [i \in DOMAIN records |-> records[i].id]
<1>1. CASE ~ ValidQuery(raw)
  BY <1>1 DEF RecordAnswer, StatusSnapshotsController, TransportPages
<1>2. CASE ReadTransport(trn) = Broken
  BY <1>1, <1>2, ResponseOfError, TransportBroken
  DEF TransportEndpoint, RecordAnswer, StatusSnapshotsController, TransportPages, ListStatusSnapshots
<1>3. CASE ValidQuery(raw) /\ ReadTransport(trn) # Broken
  <2>1. "status-snapshots" \in TransportEndpoint
    BY DEF TransportEndpoint
  <2>2. /\ Broken \notin ReadBy("status-snapshots", world, None)
        /\ records \in Seq(TransportStatusSnapshot)
    BY <1>3, <2>1, TransportRead
  <2>3. records = Records("status-snapshots", world) /\ ContextOf("status-snapshots", world, None) = TransportContext(trn)
    <3>1. records = Records("status-snapshots", world)
      BY <2>1, KindsOfEndpoints DEF Records
    <3>2. ContextOf("status-snapshots", world, None) = TransportContext(trn)
      BY <2>1, KindsOfEndpoints DEF ContextOf
    <3>3. QED BY <3>1, <3>2
  <2>4. Matches("status-snapshots", records, query)
          = { i \in DOMAIN records : MatchesStatusSnapshotFilters(records[i], query) }
    BY DEF Matches, Matching, GeographyEndpoint
  <2>5. a = BuildOffsetPaginatedResponse(PageOf(s, query, TransportContext(trn)), query)
    BY <1>3, <2>4, Zenon DEF StatusSnapshotsController, TransportPages, ListStatusSnapshots, Listed,
       SortedBy, PageOf, Chosen, Compared
  <2>6. query.order \in SortOrders
    BY <1>3, ParsedQueryType
  <2> HIDE DEF records, query
  <2>7. \A i \in DOMAIN records : records[i] \in TransportStatusSnapshot
    BY <2>2, ElementsOfSeq
  <2>8. \A i \in DOMAIN records : records[i].statusAsOf \in Int /\ records[i].id \in Int
    BY <2>7 DEF TransportStatusSnapshot, Rank
  <2>9. /\ NumberOrder(compared, DOMAIN records, key, tie, query.order)
        /\ compared \subseteq (DOMAIN records) \X (DOMAIN records)
    BY <2>8 DEF NumberOrder, Compared, SortByStatusDate
  <2>10. \A i \in DOMAIN records :
          /\ SortKey("status-snapshots", records[i]) = key[i]
          /\ TieKey("status-snapshots", records[i]) = tie[i]
    BY <2>1, KindsOfEndpoints DEF SortKey, TieKey
  <2> HIDE DEF key, tie, compared
  <2>11. IsOrdering("status-snapshots", records, query.order, compared)
    BY <2>9, <2>10, OrderingOfKeys
  <2>12. QED BY <1>3, <2>2, <2>3, <2>5, <2>6, <2>11, PageAnswers DEF query
<1>4. QED BY <1>1, <1>2, <1>3

LEMMA RouteSnapshotsAnswer ==
  ASSUME NEW world \in World, Complete(world.trn),
         NEW raw \in RawQuery(TransportRouteSnapshotFilter)
  PROVE  RecordAnswer("route-snapshots", raw, world, None,
                      RouteSnapshotsController(raw, world.trn))
<1> DEFINE query == ParsedQuery(raw)
           trn == world.trn
           records == ReadTransport(trn).routeSnapshots
           Precedes(x, y) == IF query.order = "asc" THEN SortByStatusDate(x, y)
                                                    ELSE SortByStatusDate(y, x)
           compared == Compared(records, Precedes)
           s == Arranged(records, Matches("route-snapshots", records, query), compared)
           a == RouteSnapshotsController(raw, trn)
           key == [i \in DOMAIN records |-> records[i].statusAsOf]
           tie == [i \in DOMAIN records |-> records[i].id]
<1>1. CASE ~ ValidQuery(raw)
  BY <1>1 DEF RecordAnswer, RouteSnapshotsController, TransportPages
<1>2. CASE ReadTransport(trn) = Broken
  BY <1>1, <1>2, ResponseOfError, TransportBroken
  DEF TransportEndpoint, RecordAnswer, RouteSnapshotsController, TransportPages, ListRouteSnapshots
<1>3. CASE ValidQuery(raw) /\ ReadTransport(trn) # Broken
  <2>1. "route-snapshots" \in TransportEndpoint
    BY DEF TransportEndpoint
  <2>2. /\ Broken \notin ReadBy("route-snapshots", world, None)
        /\ records \in Seq(TransportRouteSnapshot)
    BY <1>3, <2>1, TransportRead
  <2>3. records = Records("route-snapshots", world) /\ ContextOf("route-snapshots", world, None) = TransportContext(trn)
    <3>1. records = Records("route-snapshots", world)
      BY <2>1, KindsOfEndpoints DEF Records
    <3>2. ContextOf("route-snapshots", world, None) = TransportContext(trn)
      BY <2>1, KindsOfEndpoints DEF ContextOf
    <3>3. QED BY <3>1, <3>2
  <2>4. Matches("route-snapshots", records, query)
          = { i \in DOMAIN records : MatchesRouteSnapshotFilters(records[i], query) }
    BY DEF Matches, Matching, GeographyEndpoint
  <2>5. a = BuildOffsetPaginatedResponse(PageOf(s, query, TransportContext(trn)), query)
    BY <1>3, <2>4, Zenon DEF RouteSnapshotsController, TransportPages, ListRouteSnapshots, Listed,
       SortedBy, PageOf, Chosen, Compared
  <2>6. query.order \in SortOrders
    BY <1>3, ParsedQueryType
  <2> HIDE DEF records, query
  <2>7. \A i \in DOMAIN records : records[i] \in TransportRouteSnapshot
    BY <2>2, ElementsOfSeq
  <2>8. \A i \in DOMAIN records : records[i].statusAsOf \in Int /\ records[i].id \in Int
    BY <2>7 DEF TransportRouteSnapshot, Rank
  <2>9. /\ NumberOrder(compared, DOMAIN records, key, tie, query.order)
        /\ compared \subseteq (DOMAIN records) \X (DOMAIN records)
    BY <2>8 DEF NumberOrder, Compared, SortByStatusDate
  <2>10. \A i \in DOMAIN records :
          /\ SortKey("route-snapshots", records[i]) = key[i]
          /\ TieKey("route-snapshots", records[i]) = tie[i]
    BY <2>1, KindsOfEndpoints DEF SortKey, TieKey
  <2> HIDE DEF key, tie, compared
  <2>11. IsOrdering("route-snapshots", records, query.order, compared)
    BY <2>9, <2>10, OrderingOfKeys
  <2>12. QED BY <1>3, <2>2, <2>3, <2>5, <2>6, <2>11, PageAnswers DEF query
<1>4. QED BY <1>1, <1>2, <1>3

-----------------------------------------------------------------------------
(* Lists of telecom numbering.                                              *)

LEMMA TelecomBroken ==
  ASSUME NEW world, NEW e \in TelecomEndpoint, ReadTelecom(world.tel) = Broken, MarksApart
  PROVE  Broken \in ReadBy(e, world, None)
<1> DEFINE tel == world.tel
           Read(artifact) == ReadJsonArtifact(tel.manifest, artifact)
<1>1. \A v, w, x, y, z : [plans |-> v, operators |-> w, areaCodes |-> x, prefixes |-> y,
                          ranges |-> z] # Broken
  BY MarkOfArtifact
<1>2. Broken \in { Read(tel.plans), Read(tel.operators), Read(tel.areaCodes),
                   Read(tel.prefixes), Read(tel.ranges) }
  BY <1>1, Zenon DEF ReadTelecom
<1>3. Broken \in {tel.plans, tel.operators, tel.areaCodes, tel.prefixes, tel.ranges}
  BY <1>2, MarkOfArtifact
<1>4. QED BY <1>3, KindsOfEndpoints DEF ReadBy

LEMMA TelecomRead ==
  ASSUME NEW world \in World, Complete(world.tel), NEW e \in TelecomEndpoint,
         ReadTelecom(world.tel) # Broken
  PROVE  /\ Broken \notin ReadBy(e, world, None)
         /\ ReadTelecom(world.tel).plans \in Seq(CountryNumberingPlan)
         /\ ReadTelecom(world.tel).operators \in Seq(TelecomOperator)
         /\ ReadTelecom(world.tel).areaCodes \in Seq(FixedAreaCode)
         /\ ReadTelecom(world.tel).prefixes \in Seq(MobilePrefix)
         /\ ReadTelecom(world.tel).ranges \in Seq(NumberRange)
<1> DEFINE tel == world.tel
           Read(artifact) == ReadJsonArtifact(tel.manifest, artifact)
<1>1. tel \in TelecomData
  BY DEF World
<1>2. /\ Read(tel.plans) = tel.plans /\ Read(tel.operators) = tel.operators
      /\ Read(tel.areaCodes) = tel.areaCodes /\ Read(tel.prefixes) = tel.prefixes
      /\ Read(tel.ranges) = tel.ranges
  BY <1>1 DEF Complete, ReadJsonArtifact, TelecomData
<1>3. /\ tel.plans # Broken /\ tel.operators # Broken /\ tel.areaCodes # Broken
      /\ tel.prefixes # Broken /\ tel.ranges # Broken
  BY <1>2 DEF ReadTelecom
<1>4. Broken \notin ReadBy(e, world, None)
  BY <1>3, KindsOfEndpoints DEF ReadBy
<1>5. /\ ReadTelecom(tel).plans = DataOf(tel.plans)
      /\ ReadTelecom(tel).operators = DataOf(tel.operators)
      /\ ReadTelecom(tel).areaCodes = DataOf(tel.areaCodes)
      /\ ReadTelecom(tel).prefixes = DataOf(tel.prefixes)
      /\ ReadTelecom(tel).ranges = DataOf(tel.ranges)
  BY <1>2, <1>3 DEF ReadTelecom
<1>6. /\ DataOf(tel.plans) \in Seq(CountryNumberingPlan)
      /\ DataOf(tel.operators) \in Seq(TelecomOperator)
      /\ DataOf(tel.areaCodes) \in Seq(FixedAreaCode)
      /\ DataOf(tel.prefixes) \in Seq(MobilePrefix)
      /\ DataOf(tel.ranges) \in Seq(NumberRange)
  BY <1>1, <1>3, EmptySeq DEF TelecomData, Optional, TelecomArtifact, DataOf
<1>7. QED BY <1>4, <1>5, <1>6

LEMMA CountryNumberingPlansAnswer ==
  ASSUME NEW world \in World, Complete(world.tel),
         NEW raw \in RawQuery(CountryNumberingPlanFilter)
  PROVE  RecordAnswer("country-numbering-plans", raw, world, None,
                      CountryNumberingPlansController(raw, world.tel))
<1> DEFINE query == ParsedQuery(raw)
           tel == world.tel
           records == ReadTelecom(tel).plans
           Precedes(x, y) == IF query.order = "asc" THEN ByCountryCode(x, y)
                                                    ELSE ByCountryCode(y, x)
           compared == Compared(records, Precedes)
           s == Arranged(records, Matches("country-numbering-plans", records, query), compared)
           a == CountryNumberingPlansController(raw, tel)
           key == [i \in DOMAIN records |-> records[i].countryCode]
           tie == [i \in DOMAIN records |-> 0]
<1>1. CASE ~ ValidQuery(raw)
  BY <1>1 DEF RecordAnswer, CountryNumberingPlansController, TelecomPages
<1>2. CASE ReadTelecom(tel) = Broken
  BY <1>1, <1>2, ResponseOfError, TelecomBroken
  DEF TelecomEndpoint, RecordAnswer, CountryNumberingPlansController, TelecomPages, ListCountryNumberingPlans
<1>3. CASE ValidQuery(raw) /\ ReadTelecom(tel) # Broken
  <2>1. "country-numbering-plans" \in TelecomEndpoint
    BY DEF TelecomEndpoint
  <2>2. /\ Broken \notin ReadBy("country-numbering-plans", world, None)
        /\ records \in Seq(CountryNumberingPlan)
    BY <1>3, <2>1, TelecomRead
  <2>3. records = Records("country-numbering-plans", world) /\ ContextOf("country-numbering-plans", world, None) = TelecomContext(tel)
    <3>1. records = Records("country-numbering-plans", world)
      BY <2>1, KindsOfEndpoints DEF Records
    <3>2. ContextOf("country-numbering-plans", world, None) = TelecomContext(tel)
      BY <2>1, KindsOfEndpoints DEF ContextOf
    <3>3. QED BY <3>1, <3>2
  <2>4. Matches("country-numbering-plans", records, query)
          = { i \in DOMAIN records : MatchesCountryNumberingPlanFilters(records[i], query) }
    BY DEF Matches, Matching, GeographyEndpoint
  <2>5. a = BuildOffsetPaginatedResponse(PageOf(s, query, TelecomContext(tel)), query)
    BY <1>3, <2>4, Zenon DEF CountryNumberingPlansController, TelecomPages, ListCountryNumberingPlans, Listed,
       SortedBy, PageOf, Chosen, Compared
  <2>6. query.order \in SortOrders
    BY <1>3, ParsedQueryType
  <2> HIDE DEF records, query
  <2>7. \A i \in DOMAIN records : records[i] \in CountryNumberingPlan
    BY <2>2, ElementsOfSeq
  <2>8. \A i \in DOMAIN records : records[i].countryCode \in Int
    BY <2>7 DEF CountryNumberingPlan, Rank
  <2>9. /\ NumberOrder(compared, DOMAIN records, key, tie, query.order)
        /\ compared \subseteq (DOMAIN records) \X (DOMAIN records)
    BY <2>8 DEF NumberOrder, Compared, ByCountryCode
  <2>10. \A i \in DOMAIN records :
          /\ SortKey("country-numbering-plans", records[i]) = key[i]
          /\ TieKey("country-numbering-plans", records[i]) = tie[i]
    BY <2>1, KindsOfEndpoints DEF SortKey, TieKey
  <2> HIDE DEF key, tie, compared
  <2>11. IsOrdering("country-numbering-plans", records, query.order, compared)
    BY <2>9, <2>10, OrderingOfKeys
  <2>12. QED BY <1>3, <2>2, <2>3, <2>5, <2>6, <2>11, PageAnswers DEF query
<1>4. QED BY <1>1, <1>2, <1>3

LEMMA OperatorsAnswer ==
  ASSUME NEW world \in World, Complete(world.tel),
         NEW raw \in RawQuery(OperatorFilter)
  PROVE  RecordAnswer("operators", raw, world, None,
                      OperatorsController(raw, world.tel))
<1> DEFINE query == ParsedQuery(raw)
           tel == world.tel
           records == ReadTelecom(tel).operators
           Precedes(x, y) == IF query.order = "asc" THEN ByName(x, y)
                                                    ELSE ByName(y, x)
           compared == Compared(records, Precedes)
           s == Arranged(records, Matches("operators", records, query), compared)
           a == OperatorsController(raw, tel)
           key == [i \in DOMAIN records |-> records[i].nameEn]
           tie == [i \in DOMAIN records |-> 0]
<1>1. CASE ~ ValidQuery(raw)
  BY <1>1 DEF RecordAnswer, OperatorsController, TelecomPages
<1>2. CASE ReadTelecom(tel) = Broken
  BY <1>1, <1>2, ResponseOfError, TelecomBroken
  DEF TelecomEndpoint, RecordAnswer, OperatorsController, TelecomPages, ListOperators
<1>3. CASE ValidQuery(raw) /\ ReadTelecom(tel) # Broken
  <2>1. "operators" \in TelecomEndpoint
    BY DEF TelecomEndpoint
  <2>2. /\ Broken \notin ReadBy("operators", world, None)
        /\ records \in Seq(TelecomOperator)
    BY <1>3, <2>1, TelecomRead
  <2>3. records = Records("operators", world) /\ ContextOf("operators", world, None) = TelecomContext(tel)
    <3>1. records = Records("operators", world)
      BY <2>1, KindsOfEndpoints DEF Records
    <3>2. ContextOf("operators", world, None) = TelecomContext(tel)
      BY <2>1, KindsOfEndpoints DEF ContextOf
    <3>3. QED BY <3>1, <3>2
  <2>4. Matches("operators", records, query)
          = { i \in DOMAIN records : MatchesOperatorFilters(records[i], query) }
    BY DEF Matches, Matching, GeographyEndpoint
  <2>5. a = BuildOffsetPaginatedResponse(PageOf(s, query, TelecomContext(tel)), query)
    BY <1>3, <2>4, Zenon DEF OperatorsController, TelecomPages, ListOperators, Listed,
       SortedBy, PageOf, Chosen, Compared
  <2>6. query.order \in SortOrders
    BY <1>3, ParsedQueryType
  <2> HIDE DEF records, query
  <2>7. \A i \in DOMAIN records : records[i] \in TelecomOperator
    BY <2>2, ElementsOfSeq
  <2>8. \A i \in DOMAIN records : records[i].nameEn \in Int
    BY <2>7 DEF TelecomOperator, Rank
  <2>9. /\ NumberOrder(compared, DOMAIN records, key, tie, query.order)
        /\ compared \subseteq (DOMAIN records) \X (DOMAIN records)
    BY <2>8 DEF NumberOrder, Compared, ByName
  <2>10. \A i \in DOMAIN records :
          /\ SortKey("operators", records[i]) = key[i]
          /\ TieKey("operators", records[i]) = tie[i]
    BY <2>1, KindsOfEndpoints DEF SortKey, TieKey
  <2> HIDE DEF key, tie, compared
  <2>11. IsOrdering("operators", records, query.order, compared)
    BY <2>9, <2>10, OrderingOfKeys
  <2>12. QED BY <1>3, <2>2, <2>3, <2>5, <2>6, <2>11, PageAnswers DEF query
<1>4. QED BY <1>1, <1>2, <1>3

LEMMA FixedAreaCodesAnswer ==
  ASSUME NEW world \in World, Complete(world.tel),
         NEW raw \in RawQuery(FixedAreaCodeFilter)
  PROVE  RecordAnswer("fixed-area-codes", raw, world, None,
                      FixedAreaCodesController(raw, world.tel))
<1> DEFINE query == ParsedQuery(raw)
           tel == world.tel
           records == ReadTelecom(tel).areaCodes
           Precedes(x, y) == IF query.order = "asc" THEN ByAreaCode(x, y)
                                                    ELSE ByAreaCode(y, x)
           compared == Compared(records, Precedes)
           s == Arranged(records, Matches("fixed-area-codes", records, query), compared)
           a == FixedAreaCodesController(raw, tel)
           key == [i \in DOMAIN records |-> records[i].areaCode]
           tie == [i \in DOMAIN records |-> 0]
<1>1. CASE ~ ValidQuery(raw)
  BY <1>1 DEF RecordAnswer, FixedAreaCodesController, TelecomPages
<1>2. CASE ReadTelecom(tel) = Broken
  BY <1>1, <1>2, ResponseOfError, TelecomBroken
  DEF TelecomEndpoint, RecordAnswer, FixedAreaCodesController, TelecomPages, ListFixedAreaCodes
<1>3. CASE ValidQuery(raw) /\ ReadTelecom(tel) # Broken
  <2>1. "fixed-area-codes" \in TelecomEndpoint
    BY DEF TelecomEndpoint
  <2>2. /\ Broken \notin ReadBy("fixed-area-codes", world, None)
        /\ records \in Seq(FixedAreaCode)
    BY <1>3, <2>1, TelecomRead
  <2>3. records = Records("fixed-area-codes", world) /\ ContextOf("fixed-area-codes", world, None) = TelecomContext(tel)
    <3>1. records = Records("fixed-area-codes", world)
      BY <2>1, KindsOfEndpoints DEF Records
    <3>2. ContextOf("fixed-area-codes", world, None) = TelecomContext(tel)
      BY <2>1, KindsOfEndpoints DEF ContextOf
    <3>3. QED BY <3>1, <3>2
  <2>4. Matches("fixed-area-codes", records, query)
          = { i \in DOMAIN records : MatchesFixedAreaCodeFilters(records[i], query) }
    BY DEF Matches, Matching, GeographyEndpoint
  <2>5. a = BuildOffsetPaginatedResponse(PageOf(s, query, TelecomContext(tel)), query)
    BY <1>3, <2>4, Zenon DEF FixedAreaCodesController, TelecomPages, ListFixedAreaCodes, Listed,
       SortedBy, PageOf, Chosen, Compared
  <2>6. query.order \in SortOrders
    BY <1>3, ParsedQueryType
  <2> HIDE DEF records, query
  <2>7. \A i \in DOMAIN records : records[i] \in FixedAreaCode
    BY <2>2, ElementsOfSeq
  <2>8. \A i \in DOMAIN records : records[i].areaCode \in Int
    BY <2>7 DEF FixedAreaCode, Rank
  <2>9. /\ NumberOrder(compared, DOMAIN records, key, tie, query.order)
        /\ compared \subseteq (DOMAIN records) \X (DOMAIN records)
    BY <2>8 DEF NumberOrder, Compared, ByAreaCode
  <2>10. \A i \in DOMAIN records :
          /\ SortKey("fixed-area-codes", records[i]) = key[i]
          /\ TieKey("fixed-area-codes", records[i]) = tie[i]
    BY <2>1, KindsOfEndpoints DEF SortKey, TieKey
  <2> HIDE DEF key, tie, compared
  <2>11. IsOrdering("fixed-area-codes", records, query.order, compared)
    BY <2>9, <2>10, OrderingOfKeys
  <2>12. QED BY <1>3, <2>2, <2>3, <2>5, <2>6, <2>11, PageAnswers DEF query
<1>4. QED BY <1>1, <1>2, <1>3

LEMMA MobilePrefixesAnswer ==
  ASSUME NEW world \in World, Complete(world.tel),
         NEW raw \in RawQuery(MobilePrefixFilter)
  PROVE  RecordAnswer("mobile-prefixes", raw, world, None,
                      MobilePrefixesController(raw, world.tel))
<1> DEFINE query == ParsedQuery(raw)
           tel == world.tel
           records == ReadTelecom(tel).prefixes
           Precedes(x, y) == IF query.order = "asc" THEN ByPrefix(x, y)
                                                    ELSE ByPrefix(y, x)
           compared == Compared(records, Precedes)
           s == Arranged(records, Matches("mobile-prefixes", records, query), compared)
           a == MobilePrefixesController(raw, tel)
           key == [i \in DOMAIN records |-> records[i].prefix]
           tie == [i \in DOMAIN records |-> 0]
<1>1. CASE ~ ValidQuery(raw)
  BY <1>1 DEF RecordAnswer, MobilePrefixesController, TelecomPages
<1>2. CASE ReadTelecom(tel) = Broken
  BY <1>1, <1>2, ResponseOfError, TelecomBroken
  DEF TelecomEndpoint, RecordAnswer, MobilePrefixesController, TelecomPages, ListMobilePrefixes
<1>3. CASE ValidQuery(raw) /\ ReadTelecom(tel) # Broken
  <2>1. "mobile-prefixes" \in TelecomEndpoint
    BY DEF TelecomEndpoint
  <2>2. /\ Broken \notin ReadBy("mobile-prefixes", world, None)
        /\ records \in Seq(MobilePrefix)
    BY <1>3, <2>1, TelecomRead
  <2>3. records = Records("mobile-prefixes", world) /\ ContextOf("mobile-prefixes", world, None) = TelecomContext(tel)
    <3>1. records = Records("mobile-prefixes", world)
      BY <2>1, KindsOfEndpoints DEF Records
    <3>2. ContextOf("mobile-prefixes", world, None) = TelecomContext(tel)
      BY <2>1, KindsOfEndpoints DEF ContextOf
    <3>3. QED BY <3>1, <3>2
  <2>4. Matches("mobile-prefixes", records, query)
          = { i \in DOMAIN records : MatchesMobilePrefixFilters(records[i], query) }
    BY DEF Matches, Matching, GeographyEndpoint
  <2>5. a = BuildOffsetPaginatedResponse(PageOf(s, query, TelecomContext(tel)), query)
    BY <1>3, <2>4, Zenon DEF MobilePrefixesController, TelecomPages, ListMobilePrefixes, Listed,
       SortedBy, PageOf, Chosen, Compared
  <2>6. query.order \in SortOrders
    BY <1>3, ParsedQueryType
  <2> HIDE DEF records, query
  <2>7. \A i \in DOMAIN records : records[i] \in MobilePrefix
    BY <2>2, ElementsOfSeq
  <2>8. \A i \in DOMAIN records : records[i].prefix \in Int
    BY <2>7 DEF MobilePrefix, Rank
  <2>9. /\ NumberOrder(compared, DOMAIN records, key, tie, query.order)
        /\ compared \subseteq (DOMAIN records) \X (DOMAIN records)
    BY <2>8 DEF NumberOrder, Compared, ByPrefix
  <2>10. \A i \in DOMAIN records :
          /\ SortKey("mobile-prefixes", records[i]) = key[i]
          /\ TieKey("mobile-prefixes", records[i]) = tie[i]
    BY <2>1, KindsOfEndpoints DEF SortKey, TieKey
  <2> HIDE DEF key, tie, compared
  <2>11. IsOrdering("mobile-prefixes", records, query.order, compared)
    BY <2>9, <2>10, OrderingOfKeys
  <2>12. QED BY <1>3, <2>2, <2>3, <2>5, <2>6, <2>11, PageAnswers DEF query
<1>4. QED BY <1>1, <1>2, <1>3

LEMMA NumberRangesAnswer ==
  ASSUME NEW world \in World, Complete(world.tel),
         NEW raw \in RawQuery(NumberRangeFilter)
  PROVE  RecordAnswer("number-ranges", raw, world, None,
                      NumberRangesController(raw, world.tel))
<1> DEFINE query == ParsedQuery(raw)
           tel == world.tel
           records == ReadTelecom(tel).ranges
           Precedes(x, y) == IF query.order = "asc" THEN ById(x, y)
                                                    ELSE ById(y, x)
           compared == Compared(records, Precedes)
           s == Arranged(records, Matches("number-ranges", records, query), compared)
           a == NumberRangesController(raw, tel)
           key == [i \in DOMAIN records |-> records[i].id]
           tie == [i \in DOMAIN records |-> 0]
<1>1. CASE ~ ValidQuery(raw)
  BY <1>1 DEF RecordAnswer, NumberRangesController, TelecomPages
<1>2. CASE ReadTelecom(tel) = Broken
  BY <1>1, <1>2, ResponseOfError, TelecomBroken
  DEF TelecomEndpoint, RecordAnswer, NumberRangesController, TelecomPages, ListNumberRanges
<1>3. CASE ValidQuery(raw) /\ ReadTelecom(tel) # Broken
  <2>1. "number-ranges" \in TelecomEndpoint
    BY DEF TelecomEndpoint
  <2>2. /\ Broken \notin ReadBy("number-ranges", world, None)
        /\ records \in Seq(NumberRange)
    BY <1>3, <2>1, TelecomRead
  <2>3. records = Records("number-ranges", world) /\ ContextOf("number-ranges", world, None) = TelecomContext(tel)
    <3>1. records = Records("number-ranges", world)
      BY <2>1, KindsOfEndpoints DEF Records
    <3>2. ContextOf("number-ranges", world, None) = TelecomContext(tel)
      BY <2>1, KindsOfEndpoints DEF ContextOf
    <3>3. QED BY <3>1, <3>2
  <2>4. Matches("number-ranges", records, query)
          = { i \in DOMAIN records : MatchesNumberRangeFilters(records[i], query) }
    BY DEF Matches, Matching, GeographyEndpoint
  <2>5. a = BuildOffsetPaginatedResponse(PageOf(s, query, TelecomContext(tel)), query)
    BY <1>3, <2>4, Zenon DEF NumberRangesController, TelecomPages, ListNumberRanges, Listed,
       SortedBy, PageOf, Chosen, Compared
  <2>6. query.order \in SortOrders
    BY <1>3, ParsedQueryType
  <2> HIDE DEF records, query
  <2>7. \A i \in DOMAIN records : records[i] \in NumberRange
    BY <2>2, ElementsOfSeq
  <2>8. \A i \in DOMAIN records : records[i].id \in Int
    BY <2>7 DEF NumberRange, Rank
  <2>9. /\ NumberOrder(compared, DOMAIN records, key, tie, query.order)
        /\ compared \subseteq (DOMAIN records) \X (DOMAIN records)
    BY <2>8 DEF NumberOrder, Compared, ById
  <2>10. \A i \in DOMAIN records :
          /\ SortKey("number-ranges", records[i]) = key[i]
          /\ TieKey("number-ranges", records[i]) = tie[i]
    BY <2>1, KindsOfEndpoints DEF SortKey, TieKey
  <2> HIDE DEF key, tie, compared
  <2>11. IsOrdering("number-ranges", records, query.order, compared)
    BY <2>9, <2>10, OrderingOfKeys
  <2>12. QED BY <1>3, <2>2, <2>3, <2>5, <2>6, <2>11, PageAnswers DEF query
<1>4. QED BY <1>1, <1>2, <1>3

-----------------------------------------------------------------------------
(* Lists of universities.                                                  *)

\* The records of universities as they are listed.
EnrichedUniversity(uni) ==
  { EnrichUniversity(u, DataOf(uni.assets), DataOf(uni.rankings)) : u \in UniversityRecord }

LEMMA UniversitiesBroken ==
  ASSUME NEW world, ReadUniversities(world.uni) = Broken, MarksApart
  PROVE  Broken \in ReadBy("universities", world, None)
<1> DEFINE uni == world.uni
           Read(artifact) == ReadJsonArtifact(uni.manifest, artifact)
           enriched == [i \in DOMAIN DataOf(Read(uni.universities)) |->
                          EnrichUniversity(DataOf(Read(uni.universities))[i],
                                           DataOf(Read(uni.assets)),
                                           DataOf(Read(uni.rankings)))]
<1>1. enriched # Broken
  <2>1. enriched = [i \in DOMAIN enriched |-> enriched[i]]
    OBVIOUS
  <2> HIDE DEF enriched
  <2>2. QED BY <2>1, MarkOfArtifact
<1>2. ReadUniversities(uni) =
        IF Read(uni.universities) = Broken \/ Read(uni.assets) = Broken
             \/ Read(uni.rankings) = Broken
          THEN Broken ELSE enriched
  BY Zenon DEF ReadUniversities
<1> HIDE DEF enriched
<1>3. Broken \in {Read(uni.universities), Read(uni.assets), Read(uni.rankings)}
  BY <1>1, <1>2
<1>4. Broken \in {uni.universities, uni.assets, uni.rankings}
  BY <1>3, MarkOfArtifact
<1>5. QED BY <1>4, KindsOfEndpoints DEF ReadBy

LEMMA UniversitiesRead ==
  ASSUME NEW world \in World, Complete(world.uni), ReadUniversities(world.uni) # Broken
  PROVE  /\ Broken \notin ReadBy("universities", world, None)
         /\ ReadUniversities(world.uni) \in Seq(EnrichedUniversity(world.uni))
<1> DEFINE uni == world.uni
           data == DataOf(uni.universities)
           listed == [i \in DOMAIN data |->
                        EnrichUniversity(data[i], DataOf(uni.assets), DataOf(uni.rankings))]
<1>1. uni \in UniversitiesData
  BY DEF World
<1>2. \A artifact \in {uni.universities, uni.assets, uni.rankings} :
        ReadJsonArtifact(uni.manifest, artifact) = artifact
  BY <1>1 DEF Complete, ReadJsonArtifact, UniversitiesData
<1>3. uni.universities # Broken /\ uni.assets # Broken /\ uni.rankings # Broken
  BY <1>2 DEF ReadUniversities
<1>4. Broken \notin ReadBy("universities", world, None)
  BY <1>3, KindsOfEndpoints DEF ReadBy
<1>5. ReadUniversities(uni) = listed
  BY <1>2, <1>3 DEF ReadUniversities
<1>6. data \in Seq(UniversityRecord)
  BY <1>1, <1>3, EmptySeq DEF UniversitiesData, Optional, UniversityArtifact, DataOf
<1>7. listed \in Seq(EnrichedUniversity(uni))
  <2> HIDE DEF data
  <2>1. \A i \in DOMAIN data : data[i] \in UniversityRecord
    BY <1>6, ElementsOfSeq
  <2>2. Len(data) \in Nat /\ DOMAIN data = 1 .. Len(data)
    BY <1>6, LenProperties
  <2>3. listed \in [1 .. Len(data) -> EnrichedUniversity(uni)]
    BY <2>1, <2>2 DEF EnrichedUniversity
  <2> HIDE DEF listed
  <2>4. QED BY <2>2, <2>3, SeqDef
<1>8. QED BY <1>4, <1>5, <1>7

LEMMA UniversitiesAnswer ==
  ASSUME NEW world \in World, Complete(world.uni),
         NEW raw \in RawQuery(UniversityFilter)
  PROVE  RecordAnswer("universities", raw, world, None,
                      UniversitiesController(raw, world.uni))
<1> DEFINE query == ParsedQuery(raw)
           uni == world.uni
           records == ReadUniversities(uni)
           Precedes(x, y) == IF query.order = "asc" THEN ByName(x, y)
                                                    ELSE ByName(y, x)
           compared == Compared(records, Precedes)
           s == Arranged(records, Matches("universities", records, query), compared)
           a == UniversitiesController(raw, uni)
           key == [i \in DOMAIN records |-> records[i].nameEn]
           tie == [i \in DOMAIN records |-> 0]
<1>1. CASE ~ ValidQuery(raw)
  BY <1>1 DEF RecordAnswer, UniversitiesController
<1>2. CASE ReadUniversities(uni) = Broken
  BY <1>1, <1>2, ResponseOfError, UniversitiesBroken
  DEF RecordAnswer, UniversitiesController, ListUniversities
<1>3. CASE ValidQuery(raw) /\ ReadUniversities(uni) # Broken
  <2>2. /\ Broken \notin ReadBy("universities", world, None)
        /\ records \in Seq(EnrichedUniversity(uni))
    BY <1>3, UniversitiesRead
  <2>3. records = Records("universities", world) /\ ContextOf("universities", world, None) = UniversitiesContext(uni)
    <3>1. records = Records("universities", world)
      BY KindsOfEndpoints DEF Records
    <3>2. ContextOf("universities", world, None) = UniversitiesContext(uni)
      BY KindsOfEndpoints DEF ContextOf
    <3>3. QED BY <3>1, <3>2
  <2>4. Matches("universities", records, query)
          = { i \in DOMAIN records : FilterUniversities(records[i], query) }
    BY DEF Matches, Matching, GeographyEndpoint
  <2>5. a = BuildOffsetPaginatedResponse(PageOf(s, query, UniversitiesContext(uni)), query)
    BY <1>3, <2>4, Zenon DEF UniversitiesController, ListUniversities, Listed,
       SortedBy, PageOf, Chosen, Compared
  <2>6. query.order \in SortOrders
    BY <1>3, ParsedQueryType
  <2> HIDE DEF records, query
  <2>7. \A i \in DOMAIN records : records[i] \in EnrichedUniversity(uni)
    BY <2>2, ElementsOfSeq
  <2>8. \A i \in DOMAIN records : records[i].nameEn \in Int
    BY <2>7 DEF EnrichedUniversity, EnrichUniversity, UniversityRecord, Rank
  <2>9. /\ NumberOrder(compared, DOMAIN records, key, tie, query.order)
        /\ compared \subseteq (DOMAIN records) \X (DOMAIN records)
    BY <2>8 DEF NumberOrder, Compared, ByName
  <2>10. \A i \in DOMAIN records :
          /\ SortKey("universities", records[i]) = key[i]
          /\ TieKey("universities", records[i]) = tie[i]
    BY KindsOfEndpoints DEF SortKey, TieKey
  <2> HIDE DEF key, tie, compared
  <2>11. IsOrdering("universities", records, query.order, compared)
    BY <2>9, <2>10, OrderingOfKeys
  <2>12. QED BY <1>3, <2>2, <2>3, <2>5, <2>6, <2>11, PageAnswers DEF query
<1>4. QED BY <1>1, <1>2, <1>3

-----------------------------------------------------------------------------
(* Lists of geography, from artifacts and from tables.                     *)

GeographyRecord ==
  GovernorateRecord \cup DistrictRecord \cup SubdistrictRecord \cup LocalityRecord

LEMMA ReadOfGeography ==
  ASSUME NEW e \in GeographyEndpoint, NEW world
  PROVE  ReadBy(e, world, None) = { world.geo[e] }
BY KindsOfEndpoints DEF ReadBy

LEMMA GeographyRead ==
  ASSUME NEW world \in World, Complete(world.geo), NEW e \in GeographyEndpoint
  PROVE  /\ ReadGeography(world.geo, world.geo[e]) = world.geo[e]
         /\ Records(e, world) = DataOf(world.geo[e])
         /\ world.geo[e] # Broken =>
              /\ Broken \notin ReadBy(e, world, None)
              /\ Records(e, world) \in Seq(GeographyRecord)
         /\ Importable(world.geo) =>
              /\ world.geo[e] # Broken
              /\ Records(e, world) = world.geo[e]
<1> DEFINE geo == world.geo
<1>1. geo \in GeographyData
  BY DEF World
<1>2. e \in DOMAIN geo /\ e # "row"
  BY <1>1 DEF GeographyData, GeographyEndpoint
<1>3. "manifest" \in DOMAIN geo /\ DOMAIN geo \ {"row"} # {}
  BY <1>1 DEF GeographyData
<1>4. ReadGeography(geo, geo[e]) = geo[e]
  BY <1>2, <1>3 DEF Complete, ReadGeography, ReadJsonArtifact
<1>5. Records(e, world) = DataOf(geo[e])
  <2>1. e \notin TransportEndpoint \cup TelecomEndpoint \cup DiscoveryEndpoint
                 \cup {"universities"}
    BY KindsOfEndpoints
  <2>2. QED BY <1>4, <2>1 DEF Records, TransportEndpoint, TelecomEndpoint, DiscoveryEndpoint
<1>6. ASSUME geo[e] # Broken
      PROVE  /\ Broken \notin ReadBy(e, world, None)
             /\ DataOf(geo[e]) \in Seq(GeographyRecord)
  <2>1. Broken \notin ReadBy(e, world, None)
    BY <1>6, KindsOfEndpoints DEF ReadBy
  <2>2. \/ geo[e] = None
        \/ geo[e] \in Seq(GovernorateRecord) \/ geo[e] \in Seq(DistrictRecord)
        \/ geo[e] \in Seq(SubdistrictRecord) \/ geo[e] \in Seq(LocalityRecord)
    BY <1>1, <1>6 DEF GeographyData, GeographyEndpoint, Optional, GeographyArtifact
  <2>3. geo[e] # None => geo[e] \in Seq(GeographyRecord)
    BY <2>2, SeqMonotonic DEF GeographyRecord
  <2>4. QED BY <2>1, <2>3, EmptySeq DEF DataOf
<1>7. ASSUME Importable(geo)
      PROVE  geo[e] # Broken /\ DataOf(geo[e]) = geo[e]
  <2>1. geo[e] # Broken
    BY <1>7 DEF Importable, GeographyEndpoint
  <2>2. geo[e] # None
    BY <1>2, <1>3, <1>7 DEF Complete, Importable
  <2>3. QED BY <2>1, <2>2 DEF DataOf
<1>8. QED BY <1>4, <1>5, <1>6, <1>7

IsMarked(geo, world, row) ==
  /\ geo.row = row
  /\ geo.manifest = world.geo.manifest
  /\ \A e \in GeographyEndpoint : geo[e] = world.geo[e]
  /\ GeographyContext(geo) =
       Context("opensyria-geography", IF row # None THEN row ELSE world.geo.manifest)

\* The row in the database changes what is told of the release, and nothing else.
LEMMA MarkedImported ==
  ASSUME NEW world \in World, NEW row
  PROVE  IsMarked([world.geo EXCEPT !.row = row], world, row)
<1> DEFINE geo == [world.geo EXCEPT !.row = row]
<1>1. /\ geo.row = row /\ geo.manifest = world.geo.manifest
      /\ \A e \in GeographyEndpoint : geo[e] = world.geo[e]
  BY DEF World, GeographyData, GeographyEndpoint
<1> HIDE DEF geo
<1>2. GeographyContext(geo) =
        Context("opensyria-geography", IF row # None THEN row ELSE world.geo.manifest)
  BY <1>1 DEF GeographyContext, Imported
<1>3. QED BY <1>1, <1>2 DEF geo, IsMarked

LEMMA TableAnswers ==
  ASSUME NEW e \in GeographyEndpoint, NEW raw, ValidQuery(raw),
         ParsedQuery(raw).order \in SortOrders, NEW world, NEW records,
         records = Records(e, world), records \in Seq(GeographyRecord),
         NEW s \in DatabaseOrders(records, Rows(e, records, ParsedQuery(raw)),
                                  ParsedQuery(raw).order),
         NEW row, row # None, NEW a,
         a = BuildOffsetPaginatedResponse(
               PageOf(s, ParsedQuery(raw), ContextOf(e, world, row)), ParsedQuery(raw))
  PROVE  RecordAnswer(e, raw, world, row, a)
<1> DEFINE query == ParsedQuery(raw)
           chosen == Rows(e, records, query)
<1>1. chosen \in SUBSET (DOMAIN records)
  BY DEF Rows
<1>2. \A i \in DOMAIN records : records[i] \in GeographyRecord
  BY ElementsOfSeq
<1>3. \A i \in DOMAIN records : records[i].nameEn \in Nat
  BY <1>2 DEF GeographyRecord, GovernorateRecord, DistrictRecord, SubdistrictRecord,
     LocalityRecord, Rank
<1>4. Broken \notin ReadBy(e, world, row)
  BY KindsOfEndpoints DEF ReadBy
<1> HIDE DEF chosen, query
<1>5. Shows(s, e, records, chosen, query.order)
  BY <1>1, <1>3, TableShows DEF query, chosen
<1>6. a = [status |-> 200, data |-> PageOf(s, query, ContextOf(e, world, row))]
  BY ResponseOfPage DEF query
<1>7. QED BY <1>4, <1>5, <1>6 DEF RecordAnswer, query, chosen

LEMMA GovernoratesAnswer ==
  ASSUME NEW world \in World, Complete(world.geo), NEW row,
         row # None => Importable(world.geo), NEW geo, IsMarked(geo, world, row),
         NEW raw \in RawQuery(GovernorateFilter), NEW a \in GovernoratesController(raw, geo)
  PROVE  RecordAnswer("governorates", raw, world, row, a)
<1> DEFINE query == ParsedQuery(raw)
           records == geo.governorates
           Precedes(x, y) == IF query.order = "asc" THEN ByName(x, y) ELSE ByName(y, x)
<1>1. "governorates" \in GeographyEndpoint
  BY DEF GeographyEndpoint
<1>2. /\ geo.row = row /\ geo.manifest = world.geo.manifest
      /\ records = world.geo["governorates"]
      /\ GeographyContext(geo) = ContextOf("governorates", world, row)
  <2>1. ContextOf("governorates", world, row) =
          Context("opensyria-geography", IF row # None THEN row ELSE world.geo.manifest)
    BY <1>1, KindsOfEndpoints DEF ContextOf
  <2>2. QED BY <1>1, <2>1 DEF IsMarked
<1>3. /\ ReadGeography(geo, records) = records
      /\ records # Broken =>
           Broken \notin ReadBy("governorates", world, None)
           /\ Records("governorates", world) \in Seq(GeographyRecord)
      /\ Records("governorates", world) = DataOf(records)
      /\ row # None => records # Broken /\ Records("governorates", world) = records
  BY <1>1, <1>2, GeographyRead DEF ReadGeography
<1>4. CASE ~ ValidQuery(raw)
  BY <1>4 DEF RecordAnswer, GovernoratesController, GeographyPages
<1>5. CASE ValidQuery(raw) /\ row # None
  <2>1. Rows("governorates", records, query)
          = { i \in DOMAIN records : GovernorateWhere(records[i], query) }
    BY DEF Rows
  <2>2. ListGovernorates(query, geo) =
          { PageOf(s, query, GeographyContext(geo)) :
              s \in DatabaseOrders(records, Rows("governorates", records, query), query.order) }
    BY <1>2, <1>5, <2>1, Zenon DEF ListGovernorates, Imported, FindMany, PageOf, Chosen
  <2>3. PICK s \in DatabaseOrders(records, Rows("governorates", records, query), query.order) :
          a = BuildOffsetPaginatedResponse(
                PageOf(s, query, ContextOf("governorates", world, row)), query)
    <3>1. PICK x \in ListGovernorates(query, geo) : a = BuildOffsetPaginatedResponse(x, query)
      BY <1>5 DEF GovernoratesController, GeographyPages
    <3>2. PICK s \in DatabaseOrders(records, Rows("governorates", records, query), query.order) :
            x = PageOf(s, query, GeographyContext(geo))
      BY <2>2, <3>1
    <3>3. QED BY <1>2, <3>1, <3>2
  <2>4. query.order \in SortOrders
    BY <1>5, ParsedQueryType
  <2> HIDE DEF records, query
  <2>5. RecordAnswer("governorates", raw, world, row, a)
    BY <1>1, <1>3, <1>5, <2>3, <2>4, TableAnswers DEF query
  <2>6. QED BY <1>5, <2>5
<1>6. ASSUME ValidQuery(raw), row = None
      PROVE  a = BuildOffsetPaginatedResponse(
                   ListFromArtifact(geo, records, LAMBDA item : FilterGovernorates(item, query), query),
                   query)
  <2>1. ListGovernorates(query, geo) =
          { ListFromArtifact(geo, records, LAMBDA item : FilterGovernorates(item, query), query) }
    BY <1>2, <1>6, Zenon DEF ListGovernorates, Imported
  <2>2. PICK x \in ListGovernorates(query, geo) : a = BuildOffsetPaginatedResponse(x, query)
    BY <1>6 DEF GovernoratesController, GeographyPages
  <2>3. QED BY <2>1, <2>2
<1>9. CASE ValidQuery(raw) /\ row = None /\ records = Broken
  <2>1. a = ServerError
    BY <1>3, <1>6, <1>9, ResponseOfError DEF ListFromArtifact
  <2>2. Broken \in ReadBy("governorates", world, None)
    BY <1>1, <1>2, <1>9, ReadOfGeography
  <2>3. QED BY <1>9, <2>1, <2>2 DEF RecordAnswer
<1>7. CASE ValidQuery(raw) /\ row = None /\ records # Broken
  <2> DEFINE data == DataOf(records)
             compared == Compared(data, Precedes)
             s == Arranged(data, Matches("governorates", data, query), compared)
             key == [i \in DOMAIN data |-> data[i].nameEn]
             tie == [i \in DOMAIN data |-> 0]
  <2>1. Matches("governorates", data, query)
          = { i \in DOMAIN data : FilterGovernorates(data[i], query) }
    BY DEF Matches, Matching
  <2>3. a = BuildOffsetPaginatedResponse(PageOf(s, query, ContextOf("governorates", world, row)), query)
    BY <1>2, <1>3, <1>6, <1>7, <2>1, Zenon
    DEF ListFromArtifact, Listed, SortedBy, PageOf, Chosen, Compared
  <2>4. query.order \in SortOrders
    BY <1>7, ParsedQueryType
  <2>5. data = Records("governorates", world) /\ data \in Seq(GeographyRecord)
    BY <1>3, <1>7
  <2> HIDE DEF data, query, records
  <2>6. \A i \in DOMAIN data : data[i] \in GeographyRecord
    BY <2>5, ElementsOfSeq
  <2>7. \A i \in DOMAIN data : data[i].nameEn \in Int
    BY <2>6 DEF GeographyRecord, GovernorateRecord, DistrictRecord, SubdistrictRecord,
       LocalityRecord, Rank
  <2>8. /\ NumberOrder(compared, DOMAIN data, key, tie, query.order)
        /\ compared \subseteq (DOMAIN data) \X (DOMAIN data)
    BY <2>7 DEF NumberOrder, Compared, ByName
  <2>9. \A i \in DOMAIN data :
          /\ SortKey("governorates", data[i]) = key[i]
          /\ TieKey("governorates", data[i]) = tie[i]
    BY <1>1, KindsOfEndpoints DEF SortKey, TieKey
  <2> HIDE DEF key, tie, compared
  <2>10. IsOrdering("governorates", data, query.order, compared)
    BY <2>8, <2>9, OrderingOfKeys
  <2>11. RecordAnswer("governorates", raw, world, None, a)
    BY <1>3, <1>7, <2>3, <2>4, <2>5, <2>10, PageAnswers DEF query
  <2>12. QED BY <1>7, <2>11
<1>8. QED BY <1>4, <1>5, <1>7, <1>9

LEMMA DistrictsAnswer ==
  ASSUME NEW world \in World, Complete(world.geo), NEW row,
         row # None => Importable(world.geo), NEW geo, IsMarked(geo, world, row),
         NEW raw \in RawQuery(DistrictFilter), NEW a \in DistrictsController(raw, geo)
  PROVE  RecordAnswer("districts", raw, world, row, a)
<1> DEFINE query == ParsedQuery(raw)
           records == geo.districts
           Precedes(x, y) == IF query.order = "asc" THEN ByName(x, y) ELSE ByName(y, x)
<1>1. "districts" \in GeographyEndpoint
  BY DEF GeographyEndpoint
<1>2. /\ geo.row = row /\ geo.manifest = world.geo.manifest
      /\ records = world.geo["districts"]
      /\ GeographyContext(geo) = ContextOf("districts", world, row)
  <2>1. ContextOf("districts", world, row) =
          Context("opensyria-geography", IF row # None THEN row ELSE world.geo.manifest)
    BY <1>1, KindsOfEndpoints DEF ContextOf
  <2>2. QED BY <1>1, <2>1 DEF IsMarked
<1>3. /\ ReadGeography(geo, records) = records
      /\ records # Broken =>
           Broken \notin ReadBy("districts", world, None)
           /\ Records("districts", world) \in Seq(GeographyRecord)
      /\ Records("districts", world) = DataOf(records)
      /\ row # None => records # Broken /\ Records("districts", world) = records
  BY <1>1, <1>2, GeographyRead DEF ReadGeography
<1>4. CASE ~ ValidQuery(raw)
  BY <1>4 DEF RecordAnswer, DistrictsController, GeographyPages
<1>5. CASE ValidQuery(raw) /\ row # None
  <2>1. Rows("districts", records, query)
          = { i \in DOMAIN records : DistrictWhere(records[i], query) }
    BY DEF Rows
  <2>2. ListDistricts(query, geo) =
          { PageOf(s, query, GeographyContext(geo)) :
              s \in DatabaseOrders(records, Rows("districts", records, query), query.order) }
    BY <1>2, <1>5, <2>1, Zenon DEF ListDistricts, Imported, FindMany, PageOf, Chosen
  <2>3. PICK s \in DatabaseOrders(records, Rows("districts", records, query), query.order) :
          a = BuildOffsetPaginatedResponse(
                PageOf(s, query, ContextOf("districts", world, row)), query)
    <3>1. PICK x \in ListDistricts(query, geo) : a = BuildOffsetPaginatedResponse(x, query)
      BY <1>5 DEF DistrictsController, GeographyPages
    <3>2. PICK s \in DatabaseOrders(records, Rows("districts", records, query), query.order) :
            x = PageOf(s, query, GeographyContext(geo))
      BY <2>2, <3>1
    <3>3. QED BY <1>2, <3>1, <3>2
  <2>4. query.order \in SortOrders
    BY <1>5, ParsedQueryType
  <2> HIDE DEF records, query
  <2>5. RecordAnswer("districts", raw, world, row, a)
    BY <1>1, <1>3, <1>5, <2>3, <2>4, TableAnswers DEF query
  <2>6. QED BY <1>5, <2>5
<1>6. ASSUME ValidQuery(raw), row = None
      PROVE  a = BuildOffsetPaginatedResponse(
                   ListFromArtifact(geo, records, LAMBDA item : FilterDistricts(item, query), query),
                   query)
  <2>1. ListDistricts(query, geo) =
          { ListFromArtifact(geo, records, LAMBDA item : FilterDistricts(item, query), query) }
    BY <1>2, <1>6, Zenon DEF ListDistricts, Imported
  <2>2. PICK x \in ListDistricts(query, geo) : a = BuildOffsetPaginatedResponse(x, query)
    BY <1>6 DEF DistrictsController, GeographyPages
  <2>3. QED BY <2>1, <2>2
<1>9. CASE ValidQuery(raw) /\ row = None /\ records = Broken
  <2>1. a = ServerError
    BY <1>3, <1>6, <1>9, ResponseOfError DEF ListFromArtifact
  <2>2. Broken \in ReadBy("districts", world, None)
    BY <1>1, <1>2, <1>9, ReadOfGeography
  <2>3. QED BY <1>9, <2>1, <2>2 DEF RecordAnswer
<1>7. CASE ValidQuery(raw) /\ row = None /\ records # Broken
  <2> DEFINE data == DataOf(records)
             compared == Compared(data, Precedes)
             s == Arranged(data, Matches("districts", data, query), compared)
             key == [i \in DOMAIN data |-> data[i].nameEn]
             tie == [i \in DOMAIN data |-> 0]
  <2>1. Matches("districts", data, query)
          = { i \in DOMAIN data : FilterDistricts(data[i], query) }
    BY DEF Matches, Matching
  <2>3. a = BuildOffsetPaginatedResponse(PageOf(s, query, ContextOf("districts", world, row)), query)
    BY <1>2, <1>3, <1>6, <1>7, <2>1, Zenon
    DEF ListFromArtifact, Listed, SortedBy, PageOf, Chosen, Compared
  <2>4. query.order \in SortOrders
    BY <1>7, ParsedQueryType
  <2>5. data = Records("districts", world) /\ data \in Seq(GeographyRecord)
    BY <1>3, <1>7
  <2> HIDE DEF data, query, records
  <2>6. \A i \in DOMAIN data : data[i] \in GeographyRecord
    BY <2>5, ElementsOfSeq
  <2>7. \A i \in DOMAIN data : data[i].nameEn \in Int
    BY <2>6 DEF GeographyRecord, GovernorateRecord, DistrictRecord, SubdistrictRecord,
       LocalityRecord, Rank
  <2>8. /\ NumberOrder(compared, DOMAIN data, key, tie, query.order)
        /\ compared \subseteq (DOMAIN data) \X (DOMAIN data)
    BY <2>7 DEF NumberOrder, Compared, ByName
  <2>9. \A i \in DOMAIN data :
          /\ SortKey("districts", data[i]) = key[i]
          /\ TieKey("districts", data[i]) = tie[i]
    BY <1>1, KindsOfEndpoints DEF SortKey, TieKey
  <2> HIDE DEF key, tie, compared
  <2>10. IsOrdering("districts", data, query.order, compared)
    BY <2>8, <2>9, OrderingOfKeys
  <2>11. RecordAnswer("districts", raw, world, None, a)
    BY <1>3, <1>7, <2>3, <2>4, <2>5, <2>10, PageAnswers DEF query
  <2>12. QED BY <1>7, <2>11
<1>8. QED BY <1>4, <1>5, <1>7, <1>9

LEMMA SubdistrictsAnswer ==
  ASSUME NEW world \in World, Complete(world.geo), NEW row,
         row # None => Importable(world.geo), NEW geo, IsMarked(geo, world, row),
         NEW raw \in RawQuery(SubdistrictFilter), NEW a \in SubdistrictsController(raw, geo)
  PROVE  RecordAnswer("subdistricts", raw, world, row, a)
<1> DEFINE query == ParsedQuery(raw)
           records == geo.subdistricts
           Precedes(x, y) == IF query.order = "asc" THEN ByName(x, y) ELSE ByName(y, x)
<1>1. "subdistricts" \in GeographyEndpoint
  BY DEF GeographyEndpoint
<1>2. /\ geo.row = row /\ geo.manifest = world.geo.manifest
      /\ records = world.geo["subdistricts"]
      /\ GeographyContext(geo) = ContextOf("subdistricts", world, row)
  <2>1. ContextOf("subdistricts", world, row) =
          Context("opensyria-geography", IF row # None THEN row ELSE world.geo.manifest)
    BY <1>1, KindsOfEndpoints DEF ContextOf
  <2>2. QED BY <1>1, <2>1 DEF IsMarked
<1>3. /\ ReadGeography(geo, records) = records
      /\ records # Broken =>
           Broken \notin ReadBy("subdistricts", world, None)
           /\ Records("subdistricts", world) \in Seq(GeographyRecord)
      /\ Records("subdistricts", world) = DataOf(records)
      /\ row # None => records # Broken /\ Records("subdistricts", world) = records
  BY <1>1, <1>2, GeographyRead DEF ReadGeography
<1>4. CASE ~ ValidQuery(raw)
  BY <1>4 DEF RecordAnswer, SubdistrictsController, GeographyPages
<1>5. CASE ValidQuery(raw) /\ row # None
  <2>1. Rows("subdistricts", records, query)
          = { i \in DOMAIN records : SubdistrictWhere(records[i], query) }
    BY DEF Rows
  <2>2. ListSubdistricts(query, geo) =
          { PageOf(s, query, GeographyContext(geo)) :
              s \in DatabaseOrders(records, Rows("subdistricts", records, query), query.order) }
    BY <1>2, <1>5, <2>1, Zenon DEF ListSubdistricts, Imported, FindMany, PageOf, Chosen
  <2>3. PICK s \in DatabaseOrders(records, Rows("subdistricts", records, query), query.order) :
          a = BuildOffsetPaginatedResponse(
                PageOf(s, query, ContextOf("subdistricts", world, row)), query)
    <3>1. PICK x \in ListSubdistricts(query, geo) : a = BuildOffsetPaginatedResponse(x, query)
      BY <1>5 DEF SubdistrictsController, GeographyPages
    <3>2. PICK s \in DatabaseOrders(records, Rows("subdistricts", records, query), query.order) :
            x = PageOf(s, query, GeographyContext(geo))
      BY <2>2, <3>1
    <3>3. QED BY <1>2, <3>1, <3>2
  <2>4. query.order \in SortOrders
    BY <1>5, ParsedQueryType
  <2> HIDE DEF records, query
  <2>5. RecordAnswer("subdistricts", raw, world, row, a)
    BY <1>1, <1>3, <1>5, <2>3, <2>4, TableAnswers DEF query
  <2>6. QED BY <1>5, <2>5
<1>6. ASSUME ValidQuery(raw), row = None
      PROVE  a = BuildOffsetPaginatedResponse(
                   ListFromArtifact(geo, records, LAMBDA item : FilterSubdistricts(item, query), query),
                   query)
  <2>1. ListSubdistricts(query, geo) =
          { ListFromArtifact(geo, records, LAMBDA item : FilterSubdistricts(item, query), query) }
    BY <1>2, <1>6, Zenon DEF ListSubdistricts, Imported
  <2>2. PICK x \in ListSubdistricts(query, geo) : a = BuildOffsetPaginatedResponse(x, query)
    BY <1>6 DEF SubdistrictsController, GeographyPages
  <2>3. QED BY <2>1, <2>2
<1>9. CASE ValidQuery(raw) /\ row = None /\ records = Broken
  <2>1. a = ServerError
    BY <1>3, <1>6, <1>9, ResponseOfError DEF ListFromArtifact
  <2>2. Broken \in ReadBy("subdistricts", world, None)
    BY <1>1, <1>2, <1>9, ReadOfGeography
  <2>3. QED BY <1>9, <2>1, <2>2 DEF RecordAnswer
<1>7. CASE ValidQuery(raw) /\ row = None /\ records # Broken
  <2> DEFINE data == DataOf(records)
             compared == Compared(data, Precedes)
             s == Arranged(data, Matches("subdistricts", data, query), compared)
             key == [i \in DOMAIN data |-> data[i].nameEn]
             tie == [i \in DOMAIN data |-> 0]
  <2>1. Matches("subdistricts", data, query)
          = { i \in DOMAIN data : FilterSubdistricts(data[i], query) }
    BY DEF Matches, Matching
  <2>3. a = BuildOffsetPaginatedResponse(PageOf(s, query, ContextOf("subdistricts", world, row)), query)
    BY <1>2, <1>3, <1>6, <1>7, <2>1, Zenon
    DEF ListFromArtifact, Listed, SortedBy, PageOf, Chosen, Compared
  <2>4. query.order \in SortOrders
    BY <1>7, ParsedQueryType
  <2>5. data = Records("subdistricts", world) /\ data \in Seq(GeographyRecord)
    BY <1>3, <1>7
  <2> HIDE DEF data, query, records
  <2>6. \A i \in DOMAIN data : data[i] \in GeographyRecord
    BY <2>5, ElementsOfSeq
  <2>7. \A i \in DOMAIN data : data[i].nameEn \in Int
    BY <2>6 DEF GeographyRecord, GovernorateRecord, DistrictRecord, SubdistrictRecord,
       LocalityRecord, Rank
  <2>8. /\ NumberOrder(compared, DOMAIN data, key, tie, query.order)
        /\ compared \subseteq (DOMAIN data) \X (DOMAIN data)
    BY <2>7 DEF NumberOrder, Compared, ByName
  <2>9. \A i \in DOMAIN data :
          /\ SortKey("subdistricts", data[i]) = key[i]
          /\ TieKey("subdistricts", data[i]) = tie[i]
    BY <1>1, KindsOfEndpoints DEF SortKey, TieKey
  <2> HIDE DEF key, tie, compared
  <2>10. IsOrdering("subdistricts", data, query.order, compared)
    BY <2>8, <2>9, OrderingOfKeys
  <2>11. RecordAnswer("subdistricts", raw, world, None, a)
    BY <1>3, <1>7, <2>3, <2>4, <2>5, <2>10, PageAnswers DEF query
  <2>12. QED BY <1>7, <2>11
<1>8. QED BY <1>4, <1>5, <1>7, <1>9

LEMMA LocalitiesAnswer ==
  ASSUME NEW world \in World, Complete(world.geo), NEW row,
         row # None => Importable(world.geo), NEW geo, IsMarked(geo, world, row),
         NEW raw \in RawQuery(LocalityFilter), NEW a \in LocalitiesController(raw, geo)
  PROVE  RecordAnswer("localities", raw, world, row, a)
<1> DEFINE query == ParsedQuery(raw)
           records == geo.localities
           Precedes(x, y) == IF query.order = "asc" THEN ByName(x, y) ELSE ByName(y, x)
<1>1. "localities" \in GeographyEndpoint
  BY DEF GeographyEndpoint
<1>2. /\ geo.row = row /\ geo.manifest = world.geo.manifest
      /\ records = world.geo["localities"]
      /\ GeographyContext(geo) = ContextOf("localities", world, row)
  <2>1. ContextOf("localities", world, row) =
          Context("opensyria-geography", IF row # None THEN row ELSE world.geo.manifest)
    BY <1>1, KindsOfEndpoints DEF ContextOf
  <2>2. QED BY <1>1, <2>1 DEF IsMarked
<1>3. /\ ReadGeography(geo, records) = records
      /\ records # Broken =>
           Broken \notin ReadBy("localities", world, None)
           /\ Records("localities", world) \in Seq(GeographyRecord)
      /\ Records("localities", world) = DataOf(records)
      /\ row # None => records # Broken /\ Records("localities", world) = records
  BY <1>1, <1>2, GeographyRead DEF ReadGeography
<1>4. CASE ~ ValidQuery(raw)
  BY <1>4 DEF RecordAnswer, LocalitiesController, GeographyPages
<1>5. CASE ValidQuery(raw) /\ row # None
  <2>1. Rows("localities", records, query)
          = { i \in DOMAIN records : LocalityWhere(records[i], query) }
    BY DEF Rows
  <2>2. ListLocalities(query, geo) =
          { PageOf(s, query, GeographyContext(geo)) :
              s \in DatabaseOrders(records, Rows("localities", records, query), query.order) }
    BY <1>2, <1>5, <2>1, Zenon DEF ListLocalities, Imported, FindMany, PageOf, Chosen
  <2>3. PICK s \in DatabaseOrders(records, Rows("localities", records, query), query.order) :
          a = BuildOffsetPaginatedResponse(
                PageOf(s, query, ContextOf("localities", world, row)), query)
    <3>1. PICK x \in ListLocalities(query, geo) : a = BuildOffsetPaginatedResponse(x, query)
      BY <1>5 DEF LocalitiesController, GeographyPages
    <3>2. PICK s \in DatabaseOrders(records, Rows("localities", records, query), query.order) :
            x = PageOf(s, query, GeographyContext(geo))
      BY <2>2, <3>1
    <3>3. QED BY <1>2, <3>1, <3>2
  <2>4. query.order \in SortOrders
    BY <1>5, ParsedQueryType
  <2> HIDE DEF records, query
  <2>5. RecordAnswer("localities", raw, world, row, a)
    BY <1>1, <1>3, <1>5, <2>3, <2>4, TableAnswers DEF query
  <2>6. QED BY <1>5, <2>5
<1>6. ASSUME ValidQuery(raw), row = None
      PROVE  a = BuildOffsetPaginatedResponse(
                   ListFromArtifact(geo, records, LAMBDA item : FilterLocalities(item, query), query),
                   query)
  <2>1. ListLocalities(query, geo) =
          { ListFromArtifact(geo, records, LAMBDA item : FilterLocalities(item, query), query) }
    BY <1>2, <1>6, Zenon DEF ListLocalities, Imported
  <2>2. PICK x \in ListLocalities(query, geo) : a = BuildOffsetPaginatedResponse(x, query)
    BY <1>6 DEF LocalitiesController, GeographyPages
  <2>3. QED BY <2>1, <2>2
<1>9. CASE ValidQuery(raw) /\ row = None /\ records = Broken
  <2>1. a = ServerError
    BY <1>3, <1>6, <1>9, ResponseOfError DEF ListFromArtifact
  <2>2. Broken \in ReadBy("localities", world, None)
    BY <1>1, <1>2, <1>9, ReadOfGeography
  <2>3. QED BY <1>9, <2>1, <2>2 DEF RecordAnswer
<1>7. CASE ValidQuery(raw) /\ row = None /\ records # Broken
  <2> DEFINE data == DataOf(records)
             compared == Compared(data, Precedes)
             s == Arranged(data, Matches("localities", data, query), compared)
             key == [i \in DOMAIN data |-> data[i].nameEn]
             tie == [i \in DOMAIN data |-> 0]
  <2>1. Matches("localities", data, query)
          = { i \in DOMAIN data : FilterLocalities(data[i], query) }
    BY DEF Matches, Matching
  <2>3. a = BuildOffsetPaginatedResponse(PageOf(s, query, ContextOf("localities", world, row)), query)
    BY <1>2, <1>3, <1>6, <1>7, <2>1, Zenon
    DEF ListFromArtifact, Listed, SortedBy, PageOf, Chosen, Compared
  <2>4. query.order \in SortOrders
    BY <1>7, ParsedQueryType
  <2>5. data = Records("localities", world) /\ data \in Seq(GeographyRecord)
    BY <1>3, <1>7
  <2> HIDE DEF data, query, records
  <2>6. \A i \in DOMAIN data : data[i] \in GeographyRecord
    BY <2>5, ElementsOfSeq
  <2>7. \A i \in DOMAIN data : data[i].nameEn \in Int
    BY <2>6 DEF GeographyRecord, GovernorateRecord, DistrictRecord, SubdistrictRecord,
       LocalityRecord, Rank
  <2>8. /\ NumberOrder(compared, DOMAIN data, key, tie, query.order)
        /\ compared \subseteq (DOMAIN data) \X (DOMAIN data)
    BY <2>7 DEF NumberOrder, Compared, ByName
  <2>9. \A i \in DOMAIN data :
          /\ SortKey("localities", data[i]) = key[i]
          /\ TieKey("localities", data[i]) = tie[i]
    BY <1>1, KindsOfEndpoints DEF SortKey, TieKey
  <2> HIDE DEF key, tie, compared
  <2>10. IsOrdering("localities", data, query.order, compared)
    BY <2>8, <2>9, OrderingOfKeys
  <2>11. RecordAnswer("localities", raw, world, None, a)
    BY <1>3, <1>7, <2>3, <2>4, <2>5, <2>10, PageAnswers DEF query
  <2>12. QED BY <1>7, <2>11
<1>8. QED BY <1>4, <1>5, <1>7, <1>9

-----------------------------------------------------------------------------
(* Lists of discovery.                                                     *)

Summaries(e, manifests) ==
  IF e = "datasets" THEN DatasetSummaries(manifests) ELSE ReleaseSummaries(manifests)

\* The datasets that have a release, in the order of the static list.
ReleasedInOrder(manifests) ==
  Arranged(DatasetOrder, { i \in DOMAIN DatasetOrder : DatasetOrder[i] \in Released(manifests) },
           {})

\* A page of them in its envelope.
EntriesOf(s, query) ==
  LET items == PaginateOffsetItems(s, query.page, query.limit)
  IN  [items |-> items,
       pagination |-> BuildOffsetPagination(Len(s), query.page, query.limit, Len(items))]

DiscoveryAnswer(e, raw, manifests, a) ==
  \/ a = Failure(400) /\ ~ ValidQuery(raw)
  \/ /\ ValidQuery(raw)
     /\ \E s :
          /\ Shows(s, e, Summaries(e, manifests),
                   Matches(e, Summaries(e, manifests), ParsedQuery(raw)),
                   ParsedQuery(raw).order)
          /\ s = Arranged(Summaries(e, manifests),
                          Matches(e, Summaries(e, manifests), ParsedQuery(raw)),
                          Ordering(e, Summaries(e, manifests), ParsedQuery(raw).order))
          /\ a = [status |-> 200, data |-> EntriesOf(s, ParsedQuery(raw))]

LEMMA DatasetOrderFacts ==
  /\ DatasetOrder \in Seq(Datasets)
  /\ DOMAIN DatasetOrder = 1 .. 5
  /\ Datasets = {"geography", "universities", "transport", "heritage", "telecom"}
  /\ \A d \in Datasets : AlphabeticalRank[d] \in Nat
<1>1. Datasets = {"geography", "universities", "transport", "heritage", "telecom"}
  BY DEF Datasets, DatasetOrder
<1>2. DatasetOrder \in Seq(Datasets) /\ DOMAIN DatasetOrder = 1 .. 5
  BY <1>1 DEF DatasetOrder
<1>3. \A d \in Datasets : AlphabeticalRank[d] \in Nat
  BY <1>1 DEF AlphabeticalRank
<1>4. QED BY <1>1, <1>2, <1>3

LEMMA ReleasedInOrderFacts ==
  ASSUME NEW manifests
  PROVE  LET released == ReleasedInOrder(manifests)
         IN  /\ Len(released) \in Nat /\ DOMAIN released = 1 .. Len(released)
             /\ \A i \in DOMAIN released : released[i] \in Released(manifests)
             /\ \A d \in Released(manifests) : \E i \in DOMAIN released : released[i] = d
<1> DEFINE chosen == { i \in DOMAIN DatasetOrder : DatasetOrder[i] \in Released(manifests) }
           n == Cardinality(chosen)
           f == [k \in 1 .. n |-> SortedTo(chosen, {}, k)]
           released == ReleasedInOrder(manifests)
<1>1. chosen \in SUBSET (DOMAIN DatasetOrder)
  OBVIOUS
<1>2. chosen \in SUBSET Nat /\ IsFiniteSet(chosen) /\ n \in Nat
  BY <1>1, DatasetOrderFacts, ChosenIsFinite
<1>3. WeakOrder(chosen, {})
  BY DEF WeakOrder
<1>4. /\ \A k \in 1 .. n : SortedTo(chosen, {}, k) \in chosen
      /\ \A i \in chosen : \E k \in 1 .. n : SortedTo(chosen, {}, k) = i
  <2> HIDE DEF chosen
  <2>1. QED BY <1>2, <1>3, SortedPositions
<1>5. f \in [1 .. n -> DOMAIN DatasetOrder]
  BY <1>4
<1>6. released = [k \in 1 .. n |-> DatasetOrder[f[k]]]
  BY DEF ReleasedInOrder, Arranged
<1>7. Len(released) = n /\ DOMAIN released = 1 .. n
  <2> HIDE DEF f, n, released
  <2>1. QED BY <1>2, <1>5, <1>6, DatasetOrderFacts, ListOfPlaces
<1>8. \A i \in 1 .. n : released[i] = DatasetOrder[f[i]] /\ f[i] \in chosen
  BY <1>4, <1>6
<1>9. ASSUME NEW d \in Released(manifests)
      PROVE  \E i \in 1 .. n : released[i] = d
  <2>1. PICK j \in DOMAIN DatasetOrder : DatasetOrder[j] = d
    BY DEF Released, Datasets
  <2>2. j \in chosen
    BY <2>1
  <2>3. QED BY <1>4, <1>8, <2>1, <2>2
<1>10. QED BY <1>2, <1>7, <1>8, <1>9

\* What an entry of discovery tells, and of which datasets.
LEMMA SummariesOfManifests ==
  ASSUME NEW manifests
  PROVE  /\ \E S : DatasetSummaries(manifests) \in Seq(S)
         /\ \E S : ReleaseSummaries(manifests) \in Seq(S)
         /\ \A i \in DOMAIN DatasetSummaries(manifests) :
              DatasetSummaries(manifests)[i].nameEn \in Int
         /\ \A i \in DOMAIN ReleaseSummaries(manifests) :
              ReleaseSummaries(manifests)[i].rank \in Int
<1> DEFINE datasets == DatasetSummaries(manifests)
           released == ReleasedInOrder(manifests)
           releases == ReleaseSummaries(manifests)
<1>1. datasets \in [1 .. 5 -> { datasets[i] : i \in 1 .. 5 }]
  BY DatasetOrderFacts DEF DatasetSummaries
<1>2. datasets \in Seq({ datasets[i] : i \in 1 .. 5 })
  <2> HIDE DEF datasets
  <2>1. QED BY <1>1, SeqDef
<1>3. \A i \in DOMAIN datasets : datasets[i].nameEn \in Int
  <2>1. ASSUME NEW d \in Datasets
        PROVE  EnrichDatasetFromManifest(StaticDataset(d), manifests).nameEn = AlphabeticalRank[d]
    BY DEF EnrichDatasetFromManifest, StaticDataset
  <2>2. \A i \in DOMAIN DatasetOrder : DatasetOrder[i] \in Datasets
    BY DatasetOrderFacts, ElementsOfSeq
  <2>3. /\ DOMAIN datasets = DOMAIN DatasetOrder
        /\ \A i \in DOMAIN datasets :
             datasets[i] = EnrichDatasetFromManifest(StaticDataset(DatasetOrder[i]), manifests)
    BY DEF DatasetSummaries
  <2>4. \A d \in Datasets :
          EnrichDatasetFromManifest(StaticDataset(d), manifests).nameEn = AlphabeticalRank[d]
    BY <2>1
  <2> HIDE DEF datasets
  <2>5. \A i \in DOMAIN datasets :
          DatasetOrder[i] \in Datasets /\ datasets[i].nameEn = AlphabeticalRank[DatasetOrder[i]]
    BY <2>2, <2>3, <2>4
  <2>6. QED BY <2>5, DatasetOrderFacts
<1>4. releases = IF released = << >> THEN << StaticRelease >>
                 ELSE [i \in DOMAIN released |-> ReleaseSummary(released[i], manifests[released[i]])]
  BY Zenon DEF ReleaseSummaries, ReleasedInOrder, Chosen
<1>5. CASE released = << >>
  <2>1. releases = << StaticRelease >>
    BY <1>4, <1>5
  <2>2. releases \in Seq({StaticRelease})
    BY <2>1
  <2>3. \A i \in DOMAIN releases : releases[i].rank \in Int
    BY <2>1 DEF StaticRelease
  <2>4. QED BY <1>2, <1>3, <2>2, <2>3
<1>6. CASE released # << >>
  <2>1. releases = [i \in DOMAIN released |-> ReleaseSummary(released[i], manifests[released[i]])]
    BY <1>4, <1>6
  <2>2. Len(released) \in Nat /\ DOMAIN released = 1 .. Len(released)
        /\ \A i \in DOMAIN released : released[i] \in Datasets
    BY ReleasedInOrderFacts DEF Released
  <2> HIDE DEF released, releases
  <2>3. releases \in [1 .. Len(released) -> { releases[i] : i \in 1 .. Len(released) }]
    BY <2>1, <2>2
  <2>4. releases \in Seq({ releases[i] : i \in 1 .. Len(released) })
    BY <2>2, <2>3, SeqDef
  <2>5. \A i \in DOMAIN releases : releases[i].rank \in Int
    <3>1. \A d, m : ReleaseSummary(d, m).rank = AlphabeticalRank[d]
      BY DEF ReleaseSummary
    <3>2. /\ DOMAIN releases = DOMAIN released
          /\ \A i \in DOMAIN released :
               releases[i] = ReleaseSummary(released[i], manifests[released[i]])
      BY <2>1
    <3>3. \A i \in DOMAIN releases :
            released[i] \in Datasets /\ releases[i].rank = AlphabeticalRank[released[i]]
      BY <2>2, <3>1, <3>2
    <3>4. QED BY <3>3, DatasetOrderFacts
  <2>6. QED BY <1>2, <1>3, <2>4, <2>5 DEF releases
<1>7. QED BY <1>5, <1>6

LEMMA ResponseOfEntries ==
  ASSUME NEW s, NEW query
  PROVE  BuildOffsetPaginatedResponse(EntriesOf(s, query), query)
           = [status |-> 200, data |-> EntriesOf(s, query)]
<1> DEFINE items == PaginateOffsetItems(s, query.page, query.limit)
           total == Len(s)
           P(count) == BuildOffsetPagination(total, query.page, query.limit, count)
<1>1. P(Len(items)).totalRecords = total
  BY DEF BuildOffsetPagination
<1> HIDE DEF total, items
<1>2. QED BY <1>1 DEF EntriesOf, BuildOffsetPaginatedResponse, Refused, items, total

\* A page of the entries that match, sorted by a number.
LEMMA EntriesAnswer ==
  ASSUME NEW e, NEW raw, ValidQuery(raw), ParsedQuery(raw).order \in SortOrders,
         NEW manifests,
         NEW records, records = Summaries(e, manifests), \E S : records \in Seq(S),
         NEW compared,
         IsOrdering(e, records, ParsedQuery(raw).order, compared),
         NEW a,
         a = BuildOffsetPaginatedResponse(
               EntriesOf(Arranged(records, Matches(e, records, ParsedQuery(raw)), compared),
                         ParsedQuery(raw)),
               ParsedQuery(raw))
  PROVE  DiscoveryAnswer(e, raw, manifests, a)
<1> DEFINE query == ParsedQuery(raw)
           chosen == Matches(e, records, query)
           s == Arranged(records, chosen, compared)
<1>1. chosen \in SUBSET (DOMAIN records)
  BY DEF Matches
<1> HIDE DEF chosen
<1>2. /\ WeakOrder(chosen, compared)
      /\ \A i, j \in chosen :
           Less(e, records[i], records[j], query.order) => << i, j >> \in compared
  BY <1>1, OrderingIsWeak
<1>3. Shows(s, e, records, chosen, query.order)
  <2>1. PICK S : records \in Seq(S)
    OBVIOUS
  <2>2. QED BY <1>1, <1>2, <2>1, ArrangedShows
<1>4. a = [status |-> 200, data |-> EntriesOf(s, query)]
  BY ResponseOfEntries DEF chosen
<1>5. s = Arranged(records, chosen, Ordering(e, records, query.order))
  BY DEF IsOrdering
<1>6. QED BY <1>3, <1>4, <1>5 DEF DiscoveryAnswer, chosen

LEMMA DatasetsAnswer ==
  ASSUME NEW manifests, NEW raw \in RawQuery({ << >> })
  PROVE  DiscoveryAnswer("datasets", raw, manifests, DatasetsController(raw, manifests))
<1> DEFINE query == ParsedQuery(raw)
           records == DatasetSummaries(manifests)
           Precedes(x, y) == IF query.order = "asc" THEN ByName(x, y) ELSE ByName(y, x)
           compared == Compared(records, Precedes)
           s == Arranged(records, Matches("datasets", records, query), compared)
           a == DatasetsController(raw, manifests)
           key == [i \in DOMAIN records |-> records[i].nameEn]
           tie == [i \in DOMAIN records |-> 0]
<1>1. CASE ~ ValidQuery(raw)
  BY <1>1 DEF DiscoveryAnswer, DatasetsController
<1>2. CASE ValidQuery(raw)
  <2>1. Matches("datasets", records, query)
          = { i \in DOMAIN records : MatchesDatasetSearch(records[i], query) }
    BY DEF Matches, Matching
  <2>2. a = BuildOffsetPaginatedResponse(EntriesOf(s, query), query)
    BY <1>2, <2>1, Zenon DEF DatasetsController, ListDatasets, DiscoveryPage,
       SortedBy, EntriesOf, Chosen, Compared
  <2>3. query.order \in SortOrders
    BY <1>2, ParsedQueryType
  <2>4. records = Summaries("datasets", manifests)
    BY DEF Summaries
  <2>5. /\ \E S : records \in Seq(S)
        /\ \A i \in DOMAIN records : records[i].nameEn \in Int
    BY SummariesOfManifests
  <2> HIDE DEF records, query
  <2>6. /\ NumberOrder(compared, DOMAIN records, key, tie, query.order)
        /\ compared \subseteq (DOMAIN records) \X (DOMAIN records)
    BY <2>5 DEF NumberOrder, Compared, ByName
  <2>7. \A i \in DOMAIN records :
          /\ SortKey("datasets", records[i]) = key[i]
          /\ TieKey("datasets", records[i]) = tie[i]
    <3>1. "datasets" \in DiscoveryEndpoint
      BY DEF DiscoveryEndpoint
    <3>2. QED BY <3>1, KindsOfEndpoints DEF SortKey, TieKey
  <2> HIDE DEF key, tie, compared
  <2>8. IsOrdering("datasets", records, query.order, compared)
    BY <2>6, <2>7, OrderingOfKeys
  <2>9. QED BY <1>2, <2>2, <2>3, <2>4, <2>5, <2>8, EntriesAnswer DEF query
<1>3. QED BY <1>1, <1>2

LEMMA ReleasesAnswer ==
  ASSUME NEW manifests, NEW raw \in RawQuery({ << >> })
  PROVE  DiscoveryAnswer("releases", raw, manifests, ReleasesController(raw, manifests))
<1> DEFINE query == ParsedQuery(raw)
           records == ReleaseSummaries(manifests)
           Precedes(x, y) == IF query.order = "asc" THEN ByReleaseId(x, y)
                                                    ELSE ByReleaseId(y, x)
           compared == Compared(records, Precedes)
           s == Arranged(records, Matches("releases", records, query), compared)
           a == ReleasesController(raw, manifests)
           key == [i \in DOMAIN records |-> records[i].rank]
           tie == [i \in DOMAIN records |-> 0]
<1>1. CASE ~ ValidQuery(raw)
  BY <1>1 DEF DiscoveryAnswer, ReleasesController
<1>2. CASE ValidQuery(raw)
  <2>1. Matches("releases", records, query)
          = { i \in DOMAIN records : MatchesReleaseSearch(records[i], query) }
    BY DEF Matches, Matching
  <2>2. a = BuildOffsetPaginatedResponse(EntriesOf(s, query), query)
    BY <1>2, <2>1, Zenon DEF ReleasesController, ListReleases, DiscoveryPage,
       SortedBy, EntriesOf, Chosen, Compared
  <2>3. query.order \in SortOrders
    BY <1>2, ParsedQueryType
  <2>4. records = Summaries("releases", manifests)
    BY DEF Summaries
  <2>5. /\ \E S : records \in Seq(S)
        /\ \A i \in DOMAIN records : records[i].rank \in Int
    BY SummariesOfManifests
  <2> HIDE DEF records, query
  <2>6. /\ NumberOrder(compared, DOMAIN records, key, tie, query.order)
        /\ compared \subseteq (DOMAIN records) \X (DOMAIN records)
    BY <2>5 DEF NumberOrder, Compared, ByReleaseId
  <2>7. \A i \in DOMAIN records :
          /\ SortKey("releases", records[i]) = key[i]
          /\ TieKey("releases", records[i]) = tie[i]
    <3>1. "releases" \in DiscoveryEndpoint
      BY DEF DiscoveryEndpoint
    <3>2. QED BY <3>1, KindsOfEndpoints DEF SortKey, TieKey
  <2> HIDE DEF key, tie, compared
  <2>8. IsOrdering("releases", records, query.order, compared)
    BY <2>6, <2>7, OrderingOfKeys
  <2>9. QED BY <1>2, <2>2, <2>3, <2>4, <2>5, <2>8, EntriesAnswer DEF query
<1>3. QED BY <1>1, <1>2

-----------------------------------------------------------------------------
(* Any list.                                                               *)

LEMMA EndpointFilters ==
  /\ FilterOf("governorates") = GovernorateFilter
  /\ FilterOf("districts") = DistrictFilter
  /\ FilterOf("subdistricts") = SubdistrictFilter
  /\ FilterOf("localities") = LocalityFilter
  /\ FilterOf("universities") = UniversityFilter
  /\ FilterOf("locations") = TransportLocationFilter
  /\ FilterOf("status-snapshots") = TransportStatusSnapshotFilter
  /\ FilterOf("route-snapshots") = TransportRouteSnapshotFilter
  /\ FilterOf("country-numbering-plans") = CountryNumberingPlanFilter
  /\ FilterOf("operators") = OperatorFilter
  /\ FilterOf("fixed-area-codes") = FixedAreaCodeFilter
  /\ FilterOf("mobile-prefixes") = MobilePrefixFilter
  /\ FilterOf("number-ranges") = NumberRangeFilter
  /\ FilterOf("datasets") = { << >> }
  /\ FilterOf("releases") = { << >> }
BY DEF FilterOf, DiscoveryEndpoint

LEMMA CompleteWorld ==
  ASSUME NEW world \in World, \A d \in DOMAIN world : Complete(world[d])
  PROVE  /\ Complete(world.geo) /\ Complete(world.uni)
         /\ Complete(world.trn) /\ Complete(world.tel)
<1>1. DOMAIN world = {"geo", "uni", "trn", "tel"}
  BY DEF World
<1>2. QED BY <1>1

LEMMA GeographyLists ==
  ASSUME NEW world \in World, Complete(world.geo), NEW row,
         row # None => Importable(world.geo), NEW e \in GeographyEndpoint,
         NEW raw \in RawQuery(FilterOf(e)),
         NEW a \in GeographyList(e, raw, [world.geo EXCEPT !.row = row])
  PROVE  RecordAnswer(e, raw, world, row, a)
<1> DEFINE geo == [world.geo EXCEPT !.row = row]
<1>1. IsMarked(geo, world, row)
  BY MarkedImported
<1> HIDE DEF geo
<1>2. CASE e = "governorates"
  <2>1. a \in GovernoratesController(raw, geo)
    BY <1>2 DEF GeographyList, geo
  <2>2. QED BY <1>1, <1>2, <2>1, EndpointFilters, GovernoratesAnswer
<1>3. CASE e = "districts"
  <2>1. a \in DistrictsController(raw, geo)
    BY <1>3 DEF GeographyList, geo
  <2>2. QED BY <1>1, <1>3, <2>1, EndpointFilters, DistrictsAnswer
<1>4. CASE e = "subdistricts"
  <2>1. a \in SubdistrictsController(raw, geo)
    BY <1>4 DEF GeographyList, geo
  <2>2. QED BY <1>1, <1>4, <2>1, EndpointFilters, SubdistrictsAnswer
<1>5. CASE e = "localities"
  <2>1. a \in LocalitiesController(raw, geo)
    BY <1>5 DEF GeographyList, geo
  <2>2. QED BY <1>1, <1>5, <2>1, EndpointFilters, LocalitiesAnswer
<1>6. QED BY <1>2, <1>3, <1>4, <1>5 DEF GeographyEndpoint

LEMMA TransportLists ==
  ASSUME NEW world \in World, Complete(world.trn), NEW e \in TransportEndpoint,
         NEW raw \in RawQuery(FilterOf(e))
  PROVE  RecordAnswer(e, raw, world, None, TransportList(e, raw, world.trn))
<1>1. CASE e = "locations"
  <2>1. TransportList(e, raw, world.trn) = LocationsController(raw, world.trn)
    BY <1>1 DEF TransportList
  <2>2. QED BY <1>1, <2>1, EndpointFilters, LocationsAnswer
<1>2. CASE e = "status-snapshots"
  <2>1. TransportList(e, raw, world.trn) = StatusSnapshotsController(raw, world.trn)
    BY <1>2 DEF TransportList
  <2>2. QED BY <1>2, <2>1, EndpointFilters, StatusSnapshotsAnswer
<1>3. CASE e = "route-snapshots"
  <2>1. TransportList(e, raw, world.trn) = RouteSnapshotsController(raw, world.trn)
    BY <1>3 DEF TransportList
  <2>2. QED BY <1>3, <2>1, EndpointFilters, RouteSnapshotsAnswer
<1>4. QED BY <1>1, <1>2, <1>3 DEF TransportEndpoint

LEMMA TelecomLists ==
  ASSUME NEW world \in World, Complete(world.tel), NEW e \in TelecomEndpoint,
         NEW raw \in RawQuery(FilterOf(e))
  PROVE  RecordAnswer(e, raw, world, None, TelecomList(e, raw, world.tel))
<1>1. CASE e = "country-numbering-plans"
  <2>1. TelecomList(e, raw, world.tel) = CountryNumberingPlansController(raw, world.tel)
    BY <1>1 DEF TelecomList
  <2>2. QED BY <1>1, <2>1, EndpointFilters, CountryNumberingPlansAnswer
<1>2. CASE e = "operators"
  <2>1. TelecomList(e, raw, world.tel) = OperatorsController(raw, world.tel)
    BY <1>2 DEF TelecomList
  <2>2. QED BY <1>2, <2>1, EndpointFilters, OperatorsAnswer
<1>3. CASE e = "fixed-area-codes"
  <2>1. TelecomList(e, raw, world.tel) = FixedAreaCodesController(raw, world.tel)
    BY <1>3 DEF TelecomList
  <2>2. QED BY <1>3, <2>1, EndpointFilters, FixedAreaCodesAnswer
<1>4. CASE e = "mobile-prefixes"
  <2>1. TelecomList(e, raw, world.tel) = MobilePrefixesController(raw, world.tel)
    BY <1>4 DEF TelecomList
  <2>2. QED BY <1>4, <2>1, EndpointFilters, MobilePrefixesAnswer
<1>5. CASE e = "number-ranges"
  <2>1. TelecomList(e, raw, world.tel) = NumberRangesController(raw, world.tel)
    BY <1>5 DEF TelecomList
  <2>2. QED BY <1>5, <2>1, EndpointFilters, NumberRangesAnswer
<1>6. QED BY <1>1, <1>2, <1>3, <1>4, <1>5 DEF TelecomEndpoint

\* The form of what a list of records answers.
LEMMA RecordLists ==
  ASSUME NEW world \in World, \A d \in DOMAIN world : Complete(world[d]),
         NEW e \in RecordEndpoint, NEW raw \in RawQuery(FilterOf(e)),
         NEW row, row # None => e \in GeographyEndpoint /\ Importable(world.geo),
         NEW a \in ListAnswers(e, raw, world, row)
  PROVE  RecordAnswer(e, raw, world, row, a)
<1>1. CASE e \in GeographyEndpoint
  <2>1. a \in GeographyList(e, raw, [world.geo EXCEPT !.row = row])
    BY <1>1, KindsOfEndpoints DEF ListAnswers
  <2>2. RecordAnswer(e, raw, world, row, a)
    BY <1>1, <2>1, CompleteWorld, GeographyLists
  <2>3. QED BY <2>2
<1>2. CASE e \notin GeographyEndpoint
  <2>1. row = None
    BY <1>2
  <2>2. CASE e = "universities"
    <3>1. a = UniversitiesController(raw, world.uni)
      BY <1>2, <2>2, KindsOfEndpoints DEF ListAnswers
    <3>2. QED BY <2>1, <2>2, <3>1, CompleteWorld, EndpointFilters, UniversitiesAnswer
  <2>3. CASE e \in TransportEndpoint
    <3>1. a = TransportList(e, raw, world.trn)
      BY <2>3, KindsOfEndpoints DEF ListAnswers
    <3>2. QED BY <2>1, <2>3, <3>1, CompleteWorld, TransportLists
  <2>4. CASE e \in TelecomEndpoint
    <3>1. a = TelecomList(e, raw, world.tel)
      BY <2>4, KindsOfEndpoints DEF ListAnswers
    <3>2. QED BY <2>1, <2>4, <3>1, CompleteWorld, TelecomLists
  <2>5. QED BY <1>2, <2>2, <2>3, <2>4 DEF RecordEndpoint
<1>3. QED BY <1>1, <1>2

\* The form of what a list of discovery answers.
LEMMA DiscoveryLists ==
  ASSUME NEW world, NEW row, NEW e \in DiscoveryEndpoint,
         NEW raw \in RawQuery(FilterOf(e)), NEW a \in ListAnswers(e, raw, world, row)
  PROVE  \E m \in OfOneKey(e, Manifests(world)) : DiscoveryAnswer(e, raw, m, a)
<1>1. PICK m \in OfOneKey(e, Manifests(world)) : a = DiscoveryList(e, raw, m)
  BY KindsOfEndpoints DEF ListAnswers
<1>2. CASE e = "datasets"
  <2>1. a = DatasetsController(raw, m)
    BY <1>1, <1>2 DEF DiscoveryList
  <2>2. QED BY <1>2, <2>1, EndpointFilters, DatasetsAnswer
<1>3. CASE e = "releases"
  <2>1. a = ReleasesController(raw, m)
    BY <1>1, <1>3 DEF DiscoveryList
  <2>2. QED BY <1>3, <2>1, EndpointFilters, ReleasesAnswer
<1>4. QED BY <1>2, <1>3 DEF DiscoveryEndpoint

-----------------------------------------------------------------------------
(* Answers.                                                                *)

\* What a list answers.
IsAnswer(e, raw, world, row, a) ==
  \/ e \in RecordEndpoint /\ RecordAnswer(e, raw, world, row, a)
  \/ /\ e \in DiscoveryEndpoint
     /\ \E m \in OfOneKey(e, Manifests(world)) : DiscoveryAnswer(e, raw, m, a)

LEMMA ListsAnswer ==
  ASSUME NEW world \in World, \A d \in DOMAIN world : Complete(world[d]),
         NEW e \in Endpoint, NEW raw \in RawQuery(FilterOf(e)),
         NEW row, row # None => e \in GeographyEndpoint /\ Importable(world.geo),
         NEW a \in ListAnswers(e, raw, world, row)
  PROVE  IsAnswer(e, raw, world, row, a)
BY RecordLists, DiscoveryLists DEF IsAnswer, Endpoint

\* The page of a list that a successful answer holds.
IsPageOf(s, query, data) ==
  /\ data.items = PaginateOffsetItems(s, query.page, query.limit)
  /\ data.pagination =
       BuildOffsetPagination(Len(s), query.page, query.limit, Len(data.items))

LEMMA ShownSequence ==
  ASSUME NEW s, NEW e, NEW records, NEW chosen, NEW order, Shows(s, e, records, chosen, order)
  PROVE  /\ s \in Seq({ records[i] : i \in chosen })
         /\ Cardinality(chosen) \in Nat
         /\ Len(s) = Cardinality(chosen) /\ DOMAIN s = 1 .. Cardinality(chosen)
<1> DEFINE n == Cardinality(chosen)
           S == { records[i] : i \in chosen }
<1>1. n \in Nat
  BY FS_CardinalityType DEF Shows
<1>2. PICK f \in [1 .. n -> chosen] : s = [k \in 1 .. n |-> records[f[k]]]
  BY DEF Shows
<1>3. s \in [1 .. n -> S]
  BY <1>2
<1> HIDE DEF n, S
<1>4. s \in Seq(S)
  BY <1>1, <1>3, SeqDef
<1>5. DOMAIN s = 1 .. n /\ DOMAIN s = 1 .. Len(s) /\ Len(s) \in Nat
  BY <1>3, <1>4, LenProperties
<1>6. Len(s) = n
  BY <1>1, <1>5
<1>7. QED BY <1>1, <1>4, <1>5, <1>6 DEF n, S

\* A page of a list has the envelope of a page.
LEMMA PageEnvelope ==
  ASSUME NEW S, NEW s \in Seq(S), NEW query, query.page \in Nat \ {0},
         query.limit \in PageLimits, NEW data, IsPageOf(s, query, data)
  PROVE  /\ data.pagination \in OffsetPagination
         /\ Len(data.items) = data.pagination.pageRecords
<1>1. query.limit \in Nat \ {0} /\ Len(s) \in Nat
  BY LimitFacts, LenProperties
<1>2. data.items \in Seq(S)
  <2>1. PaginateOffsetItems(s, query.page, query.limit) \in Seq(S)
    BY <1>1, PageContents
  <2>2. QED BY <2>1 DEF IsPageOf
<1>3. Len(data.items) \in Nat
  BY <1>2, LenProperties
<1>4. data.pagination \in OffsetPagination
  BY <1>1, <1>3, PaginationType DEF IsPageOf
<1>5. data.pagination.pageRecords = Len(data.items)
  BY DEF IsPageOf, BuildOffsetPagination
<1>6. QED BY <1>4, <1>5

\* Every answer is an error or a page of a list.
LEMMA AnswerForm ==
  ASSUME NEW e, NEW Filters, NEW raw \in RawQuery(Filters), NEW world, NEW row,
         NEW a, IsAnswer(e, raw, world, row, a)
  PROVE  \/ a \in { Failure(400), ServerError }
         \/ /\ ValidQuery(raw) /\ a.status = 200
            /\ \E S : \E s \in Seq(S) : IsPageOf(s, ParsedQuery(raw), a.data)
<1> DEFINE query == ParsedQuery(raw)
<1>1. ASSUME NEW m, DiscoveryAnswer(e, raw, m, a), a # Failure(400)
      PROVE  ValidQuery(raw) /\ a.status = 200
             /\ \E S : \E s \in Seq(S) : IsPageOf(s, query, a.data)
  <2>1. PICK s : /\ Shows(s, e, Summaries(e, m), Matches(e, Summaries(e, m), query), query.order)
                 /\ a = [status |-> 200, data |-> EntriesOf(s, query)]
    BY <1>1 DEF DiscoveryAnswer
  <2>2. a.status = 200 /\ a.data = EntriesOf(s, query)
    BY <2>1
  <2>3. IsPageOf(s, query, a.data)
    BY <2>2 DEF IsPageOf, EntriesOf
  <2>4. \E S : s \in Seq(S)
    BY <2>1, ShownSequence
  <2>5. ValidQuery(raw)
    BY <1>1 DEF DiscoveryAnswer
  <2>6. QED BY <2>2, <2>3, <2>4, <2>5
<1>2. ASSUME RecordAnswer(e, raw, world, row, a), a # Failure(400), a # ServerError
      PROVE  ValidQuery(raw) /\ a.status = 200
             /\ \E S : \E s \in Seq(S) : IsPageOf(s, query, a.data)
  <2>1. PICK s, chosen :
          /\ Shows(s, e, Records(e, world), chosen, query.order)
          /\ a = [status |-> 200, data |-> PageOf(s, query, ContextOf(e, world, row))]
    BY <1>2 DEF RecordAnswer
  <2>2. a.status = 200 /\ a.data = PageOf(s, query, ContextOf(e, world, row))
    BY <2>1
  <2>3. IsPageOf(s, query, a.data)
    BY <2>2 DEF IsPageOf, PageOf
  <2>4. \E S : s \in Seq(S)
    BY <2>1, ShownSequence
  <2>5. ValidQuery(raw)
    BY <1>2 DEF RecordAnswer
  <2>6. QED BY <2>2, <2>3, <2>4, <2>5
<1>3. QED BY <1>1, <1>2 DEF IsAnswer

LEMMA AnswerEnvelope ==
  ASSUME NEW e, NEW Filters, NEW raw \in RawQuery(Filters), NEW world, NEW row,
         NEW a, IsAnswer(e, raw, world, row, a)
  PROVE  /\ PageAnswer(a)
         /\ Succeeded(a) =>
              /\ ValidQuery(raw) /\ a.data.pagination \in OffsetPagination
              /\ \E total \in Nat :
                   a.data.pagination =
                     BuildOffsetPagination(total, ParsedQuery(raw).page,
                                           ParsedQuery(raw).limit, Len(a.data.items))
<1>1. CASE a \in { Failure(400), ServerError }
  <2>1. a.status # 200
    BY <1>1 DEF Failure, ServerError
  <2>2. QED BY <1>1, <2>1 DEF PageAnswer, Succeeded
<1>2. CASE a \notin { Failure(400), ServerError }
  <2>1. ValidQuery(raw) /\ a.status = 200
    BY <1>2, AnswerForm
  <2>2. PICK S : \E s \in Seq(S) : IsPageOf(s, ParsedQuery(raw), a.data)
    BY <1>2, AnswerForm
  <2>3. PICK s \in Seq(S) : IsPageOf(s, ParsedQuery(raw), a.data)
    BY <2>2
  <2>4. ParsedQuery(raw).page \in Nat \ {0} /\ ParsedQuery(raw).limit \in PageLimits
    BY <2>1, ParsedQueryType
  <2>5. /\ a.data.pagination \in OffsetPagination
        /\ Len(a.data.items) = a.data.pagination.pageRecords
    BY <2>3, <2>4, PageEnvelope
  <2>6. Len(s) \in Nat
    BY LenProperties
  <2>7. QED BY <2>1, <2>3, <2>5, <2>6 DEF PageAnswer, Succeeded, IsPageOf
<1>3. QED BY <1>1, <1>2

-----------------------------------------------------------------------------
(* The inductive invariant.                                                *)

\* The row that an endpoint may find of a release: that of an import of the same
\* version.
IsRow(e, world, row) ==
  row # None => /\ e \in GeographyEndpoint /\ row \in Manifest
                /\ Importable(world.geo) /\ row.version = world.geo.manifest.version

\* What is kept of page n of a walk: an answer that the list gave for it, of
\* its release, with the row that was in the database then.
IsPage(n) ==
  /\ n \in Int
  /\ pages[n].release \in Release
  /\ IsRow(session.endpoint, Content[pages[n].release], pages[n].row)
  /\ pages[n].answer \in
       ListAnswers(session.endpoint, [session.raw EXCEPT !.page = n],
                   Content[pages[n].release], pages[n].row)

\* What is served and imported.
ServedInv ==
  /\ served \in Release
  /\ \A row \in rows :
       \E r \in Release : Importable(Content[r].geo) /\ row = Content[r].geo.manifest
  /\ changes \in 0 .. MaxChanges

\* The client and the pages it has seen: those from one it asked for first, or
\* went back to, to the one it came to going forward.
WalkInv ==
  /\ session = None => pages = << >>
  /\ session # None =>
       /\ session \in Walk /\ session.raw \in Queries[session.endpoint]
       /\ session.page \in DOMAIN pages
       /\ \A n \in DOMAIN pages : IsPage(n)
       /\ \E first, last \in Int :
            /\ DOMAIN pages = first .. last
            /\ session.way = "forward" => session.page = last
            /\ session.way = "back" => /\ session.page < last
                                       /\ Succeeded(pages[last].answer)
                                       /\ Pagination(last).nextPage = None

BrowsingInv == ServedInv /\ WalkInv

LEMMA ContentFacts ==
  /\ \A r \in Release : Content[r] \in World
  /\ \A r \in Release : \A d \in DOMAIN Content[r] : Complete(Content[r][d])
  /\ DOMAIN Queries = Endpoint
  /\ \A e \in Endpoint : \A raw \in Queries[e] : raw \in RawQuery(FilterOf(e))
  /\ None \notin Walk
  /\ MaxChanges \in Nat
BY BrowsingAssumption

\* A version that is in the database can be imported.
LEMMA RowFoundIsRow ==
  ASSUME ServedInv, NEW e
  PROVE  IsRow(e, Content[served], RowFound(e))
<1> SUFFICES ASSUME RowFound(e) # None PROVE IsRow(e, Content[served], RowFound(e))
  BY DEF IsRow
<1> DEFINE row == RowFound(e)
<1>1. e \in GeographyEndpoint /\ row \in RowsOf(served)
  BY DEF RowFound
<1> HIDE DEF row
<1>2. /\ row \in rows /\ Content[served].geo.manifest # None
      /\ row.version = Content[served].geo.manifest.version
  BY <1>1 DEF RowsOf
<1>3. PICK i \in Release : Importable(Content[i].geo) /\ row = Content[i].geo.manifest
  BY <1>2 DEF ServedInv
<1>4. Content[i] \in World /\ Content[served] \in World /\ served \in Release
  BY ContentFacts DEF ServedInv
<1>5. DOMAIN Content[i] = {"geo", "uni", "trn", "tel"}
  BY <1>4 DEF World
<1>6. OneBuild(Content[i].geo, Content[served].geo)
  BY <1>4, <1>5, BrowsingAssumption
<1>7. Content[i].geo \in GeographyData /\ Content[served].geo \in GeographyData
  BY <1>4 DEF World
<1>8. DOMAIN Content[i].geo = {"manifest", "row", "governorates", "districts",
                               "subdistricts", "localities"}
  BY <1>7 DEF GeographyData
<1>9. /\ Content[served].geo.governorates = Content[i].geo.governorates
      /\ Content[served].geo.districts = Content[i].geo.districts
      /\ Content[served].geo.subdistricts = Content[i].geo.subdistricts
      /\ Content[served].geo.localities = Content[i].geo.localities
  BY <1>2, <1>3, <1>6, <1>8 DEF OneBuild, Importable
<1>10. Importable(Content[served].geo)
  BY <1>2, <1>3, <1>9 DEF Importable, GovernorateTable, DistrictTable, SubdistrictTable,
     LocalityTable
<1>11. row \in Manifest
  BY <1>3, <1>7 DEF GeographyData, Optional, Importable
<1>12. QED BY <1>1, <1>2, <1>10, <1>11 DEF IsRow, row

\* The query of a page of a walk.
LEMMA PageQuery ==
  ASSUME NEW Filters, NEW raw \in RawQuery(Filters), NEW n \in Int
  PROVE  [raw EXCEPT !.page = n] \in RawQuery(Filters) /\ [raw EXCEPT !.page = n].page = n
BY DEF RawQuery, Optional

\* A page of a walk is an answer of its release, with its number.
LEMMA PagesAnswer ==
  ASSUME BrowsingInv, session # None, NEW n \in DOMAIN pages
  PROVE  /\ n \in Int /\ pages[n].release \in Release
         /\ session.endpoint \in Endpoint
         /\ session.raw \in RawQuery(FilterOf(session.endpoint))
         /\ [session.raw EXCEPT !.page = n] \in RawQuery(FilterOf(session.endpoint))
         /\ [session.raw EXCEPT !.page = n].page = n
         /\ IsAnswer(session.endpoint, [session.raw EXCEPT !.page = n],
                     Content[pages[n].release], pages[n].row, pages[n].answer)
         /\ IsRow(session.endpoint, Content[pages[n].release], pages[n].row)
<1>1. session.endpoint \in Endpoint /\ session.raw \in Queries[session.endpoint]
  BY DEF BrowsingInv, WalkInv, Walk
<1>2. session.raw \in RawQuery(FilterOf(session.endpoint))
  BY <1>1, ContentFacts
<1>3. IsPage(n)
  BY DEF BrowsingInv, WalkInv
<1>4. n \in Int /\ pages[n].release \in Release
  BY <1>3 DEF IsPage
<1>5. [session.raw EXCEPT !.page = n] \in RawQuery(FilterOf(session.endpoint))
      /\ [session.raw EXCEPT !.page = n].page = n
  BY <1>2, <1>4, PageQuery
<1>6. IsRow(session.endpoint, Content[pages[n].release], pages[n].row)
  BY <1>3 DEF IsPage
<1>7. /\ Content[pages[n].release] \in World
      /\ \A d \in DOMAIN Content[pages[n].release] : Complete(Content[pages[n].release][d])
  BY <1>4, ContentFacts
<1>8. IsAnswer(session.endpoint, [session.raw EXCEPT !.page = n],
               Content[pages[n].release], pages[n].row, pages[n].answer)
  BY <1>1, <1>3, <1>4, <1>5, <1>6, <1>7, ListsAnswer DEF IsPage, IsRow
<1>9. QED BY <1>1, <1>2, <1>4, <1>5, <1>6, <1>8

\* The links of a page that exists are its neighbours.
LEMMA LinksOfPage ==
  ASSUME BrowsingInv, session # None, NEW n \in DOMAIN pages, Succeeded(pages[n].answer)
  PROVE  /\ n \in Nat \ {0}
         /\ Pagination(n).nextPage # None => Pagination(n).nextPage = n + 1
         /\ Pagination(n).previousPage # None =>
              Pagination(n).previousPage = n - 1 /\ n - 1 \in Nat \ {0}
<1> DEFINE raw == [session.raw EXCEPT !.page = n]
           query == ParsedQuery(raw)
<1>1. /\ ValidQuery(raw)
      /\ \E total \in Nat :
           Pagination(n) = BuildOffsetPagination(total, query.page, query.limit,
                                                 Len(pages[n].answer.data.items))
  BY PagesAnswer, AnswerEnvelope DEF Pagination
<1>2. query.page = n /\ n \in Nat \ {0}
  <2>1. raw.page = n /\ raw.page # None
    BY PagesAnswer, LimitFacts
  <2>2. raw \in RawQuery(FilterOf(session.endpoint))
    BY PagesAnswer
  <2> HIDE DEF raw
  <2>3. raw.page \in Nat \ {0} /\ query.page = raw.page
    BY <1>1, <2>1, <2>2, ParsedQueryType
  <2>4. QED BY <2>1, <2>3
<1> HIDE DEF query
<1>3. PICK total \in Nat :
        Pagination(n) = BuildOffsetPagination(total, n, query.limit,
                                              Len(pages[n].answer.data.items))
  BY <1>1, <1>2
<1>4. QED BY <1>2, <1>3 DEF BuildOffsetPagination

\* A request leaves the other pages as they are.
LEMMA GotPage ==
  ASSUME ServedInv, NEW e, NEW raw, NEW n \in Int, GetPage(e, raw, n),
         session'.endpoint = e, session'.raw = raw,
         \A m \in DOMAIN pages :
           IsPage(m) /\ session.endpoint = e /\ session.raw = raw
  PROVE  /\ DOMAIN pages' = DOMAIN pages \cup {n}
         /\ \A m \in DOMAIN pages' : IsPage(m)'
         /\ \A m \in DOMAIN pages \ {n} : pages'[m] = pages[m]
<1>1. PICK a \in ListAnswers(e, [raw EXCEPT !.page = n], Content[served], RowFound(e)) :
        pages' = [m \in DOMAIN pages \cup {n} |->
                    IF m = n
                      THEN [answer |-> a, release |-> served, row |-> RowFound(e)]
                      ELSE pages[m]]
  BY DEF GetPage
<1>2. /\ DOMAIN pages' = DOMAIN pages \cup {n}
      /\ \A m \in DOMAIN pages \ {n} : pages'[m] = pages[m]
      /\ pages'[n] = [answer |-> a, release |-> served, row |-> RowFound(e)]
  BY <1>1
<1>3. IsPage(n)'
  <2>1. /\ pages'[n].release = served /\ pages'[n].row = RowFound(e)
        /\ pages'[n].answer = a
    BY <1>2
  <2>2. IsRow(session'.endpoint, Content[pages'[n].release], pages'[n].row)
    BY <2>1, RowFoundIsRow
  <2>3. a \in ListAnswers(session'.endpoint, [session'.raw EXCEPT !.page = n],
                          Content[pages'[n].release], pages'[n].row)
    BY <1>1, <2>1
  <2>4. served \in Release
    BY DEF ServedInv
  <2>5. QED BY <2>1, <2>2, <2>3, <2>4 DEF IsPage, IsRow
<1>4. ASSUME NEW m \in DOMAIN pages \ {n} PROVE IsPage(m)'
  <2>1. IsPage(m) /\ session.endpoint = session'.endpoint /\ session.raw = session'.raw
    BY <1>4
  <2>2. pages'[m] = pages[m]
    BY <1>2, <1>4
  <2>3. QED BY <2>1, <2>2 DEF IsPage, IsRow
<1>5. QED BY <1>2, <1>3, <1>4

LEMMA InitInv ==
  ASSUME Init PROVE BrowsingInv
BY ContentFacts DEF Init, BrowsingInv, ServedInv, WalkInv

LEMMA BeginInv ==
  ASSUME BrowsingInv, NEW e \in Endpoint, NEW raw \in Queries[e], Begin(e, raw)
  PROVE  BrowsingInv'
<1> DEFINE n == OrElse(raw.page, 1)
<1>1. raw \in RawQuery(FilterOf(e))
  BY ContentFacts
<1>2. n \in Int
  BY <1>1 DEF RawQuery, Optional, OrElse
<1>3. session' = [endpoint |-> e, raw |-> raw, page |-> n, way |-> "forward"]
      /\ GetPage(e, raw, n) /\ UNCHANGED << served, rows, changes >> /\ pages = << >>
  BY DEF Begin, BrowsingInv, WalkInv
<1>4. /\ session'.endpoint = e /\ session'.raw = raw /\ session'.page = n
      /\ session'.way = "forward"
  BY <1>3
<1>5. session' \in Walk
  BY <1>2, <1>3 DEF Walk
<1>6. ServedInv'
  BY <1>3 DEF BrowsingInv, ServedInv
<1> HIDE DEF n
<1>7. DOMAIN pages' = {n} /\ \A m \in DOMAIN pages' : IsPage(m)'
  <2>1. DOMAIN pages = {}
    BY <1>3
  <2>2. QED BY <1>2, <1>3, <1>4, <2>1, GotPage DEF BrowsingInv
<1>8. DOMAIN pages' = n .. n
  BY <1>2, <1>7
<1>9. session' # None
  BY <1>5, ContentFacts
<1>10. WalkInv'
  BY <1>2, <1>4, <1>5, <1>7, <1>8, <1>9 DEF WalkInv
<1>11. QED BY <1>6, <1>10 DEF BrowsingInv

LEMMA FollowNextInv ==
  ASSUME BrowsingInv, FollowNext
  PROVE  BrowsingInv'
<1> DEFINE n == session.page
<1>1. /\ session # None /\ Succeeded(pages[n].answer) /\ n \in DOMAIN pages
      /\ session.way # "back" /\ Pagination(n).nextPage # None
      /\ session' = [session EXCEPT !.page = Pagination(n).nextPage]
      /\ GetPage(session.endpoint, session.raw, Pagination(n).nextPage)
      /\ UNCHANGED << served, rows, changes >>
  BY DEF FollowNext, NextLink, OnPage, Turned, BrowsingInv, WalkInv
<1>2. n \in Nat \ {0} /\ Pagination(n).nextPage = n + 1
  BY <1>1, LinksOfPage
<1>3. session \in Walk /\ session.raw \in Queries[session.endpoint]
      /\ \A m \in DOMAIN pages : IsPage(m)
  BY <1>1 DEF BrowsingInv, WalkInv
<1>4. /\ session'.endpoint = session.endpoint /\ session'.raw = session.raw
      /\ session'.page = n + 1 /\ session'.way = "forward" /\ session' \in Walk
  BY <1>1, <1>2, <1>3 DEF Walk
<1>5. PICK first, last \in Int : /\ DOMAIN pages = first .. last
                                 /\ session.way = "forward" => session.page = last
  BY <1>1 DEF BrowsingInv, WalkInv
<1>6. n = last
  BY <1>1, <1>3, <1>5 DEF Walk
<1>7. DOMAIN pages' = DOMAIN pages \cup {n + 1} /\ \A m \in DOMAIN pages' : IsPage(m)'
  <2> DEFINE e == session.endpoint
             raw == session.raw
  <2>1. /\ GetPage(e, raw, n + 1) /\ n + 1 \in Int
        /\ session'.endpoint = e /\ session'.raw = raw
    BY <1>1, <1>2, <1>4
  <2>2. \A m \in DOMAIN pages : IsPage(m) /\ session.endpoint = e /\ session.raw = raw
    BY <1>3
  <2> HIDE DEF e, raw, n
  <2>3. QED BY <2>1, <2>2, GotPage DEF BrowsingInv
<1>8. DOMAIN pages' = first .. n + 1
  BY <1>1, <1>5, <1>6, <1>7
<1>9. session' # None
  BY <1>4, ContentFacts
<1>10. WalkInv'
  BY <1>2, <1>3, <1>4, <1>5, <1>7, <1>8, <1>9 DEF WalkInv
<1>11. ServedInv'
  BY <1>1 DEF BrowsingInv, ServedInv
<1>12. QED BY <1>10, <1>11 DEF BrowsingInv

LEMMA FollowPreviousInv ==
  ASSUME BrowsingInv, FollowPrevious
  PROVE  BrowsingInv'
<1> DEFINE n == session.page
<1>1. /\ session # None /\ Succeeded(pages[n].answer) /\ n \in DOMAIN pages
      /\ session.way = "back" \/ Pagination(n).nextPage = None
      /\ Pagination(n).previousPage # None
      /\ session' = [session EXCEPT !.page = Pagination(n).previousPage, !.way = "back"]
      /\ GetPage(session.endpoint, session.raw, Pagination(n).previousPage)
      /\ UNCHANGED << served, rows, changes >>
  BY DEF FollowPrevious, PreviousLink, OnPage, Turned, BrowsingInv, WalkInv
<1>2. n \in Nat \ {0} /\ Pagination(n).previousPage = n - 1 /\ n - 1 \in Nat \ {0}
  BY <1>1, LinksOfPage
<1>3. session \in Walk /\ session.raw \in Queries[session.endpoint]
      /\ \A m \in DOMAIN pages : IsPage(m)
  BY <1>1 DEF BrowsingInv, WalkInv
<1>4. /\ session'.endpoint = session.endpoint /\ session'.raw = session.raw
      /\ session'.page = n - 1 /\ session'.way = "back" /\ session' \in Walk
  <2>1. DOMAIN session = {"endpoint", "raw", "page", "way"}
    BY <1>3 DEF Walk
  <2>2. session' = [endpoint |-> session.endpoint, raw |-> session.raw, page |-> n - 1,
                    way |-> "back"]
    BY <1>1, <1>2, <1>3, <2>1 DEF Walk
  <2>3. session' \in Walk
    BY <1>2, <1>3, <2>2 DEF Walk
  <2>4. QED BY <2>2, <2>3
<1>5. PICK first, last \in Int :
        /\ DOMAIN pages = first .. last
        /\ session.way = "forward" => session.page = last
        /\ session.way = "back" => /\ session.page < last
                                   /\ Succeeded(pages[last].answer)
                                   /\ Pagination(last).nextPage = None
  BY <1>1 DEF BrowsingInv, WalkInv
<1>6. /\ n - 1 < last /\ n <= last /\ last \in DOMAIN pages
      /\ Succeeded(pages[last].answer) /\ Pagination(last).nextPage = None
  BY <1>1, <1>2, <1>3, <1>5 DEF Walk
<1>7. /\ DOMAIN pages' = DOMAIN pages \cup {n - 1}
      /\ \A m \in DOMAIN pages' : IsPage(m)'
      /\ \A m \in DOMAIN pages \ {n - 1} : pages'[m] = pages[m]
  <2> DEFINE e == session.endpoint
             raw == session.raw
  <2>1. /\ GetPage(e, raw, n - 1) /\ n - 1 \in Int
        /\ session'.endpoint = e /\ session'.raw = raw
    BY <1>1, <1>2, <1>4
  <2>2. \A m \in DOMAIN pages : IsPage(m) /\ session.endpoint = e /\ session.raw = raw
    BY <1>3
  <2> HIDE DEF e, raw, n
  <2>3. QED BY <2>1, <2>2, GotPage DEF BrowsingInv
<1>8. pages'[last] = pages[last]
  BY <1>5, <1>6, <1>7
<1>9. PICK low \in Int : DOMAIN pages' = low .. last
  <2>1. CASE first <= n - 1
    <3>1. DOMAIN pages' = first .. last
      BY <1>1, <1>2, <1>5, <1>6, <1>7, <2>1
    <3>2. QED BY <3>1
  <2>2. CASE first > n - 1
    <3>1. first = n
      BY <1>1, <1>2, <1>5, <2>2
    <3>2. DOMAIN pages' = (n - 1) .. last
      BY <1>1, <1>2, <1>5, <1>6, <1>7, <3>1
    <3>3. QED BY <1>2, <3>2
  <2>3. QED BY <1>2, <2>1, <2>2
<1>10. session' # None
  BY <1>4, ContentFacts
<1>11. Succeeded(pages'[last].answer) /\ Pagination(last)'.nextPage = None
  BY <1>6, <1>8 DEF Succeeded, Pagination
<1>12. WalkInv'
  <2>1. session'.page < last /\ session'.page \in DOMAIN pages'
    BY <1>4, <1>6, <1>7
  <2>2. QED BY <1>3, <1>4, <1>5, <1>7, <1>9, <1>10, <1>11, <2>1 DEF WalkInv
<1>13. ServedInv'
  BY <1>1 DEF BrowsingInv, ServedInv
<1>14. QED BY <1>12, <1>13 DEF BrowsingInv

\* What is served and imported may change: the pages that were seen stay.
LEMMA PagesStay ==
  ASSUME WalkInv, UNCHANGED << session, pages >>
  PROVE  WalkInv'
<1>1. ASSUME NEW n \in DOMAIN pages, session # None PROVE IsPage(n)'
  <2>1. IsPage(n)
    BY <1>1 DEF WalkInv
  <2>2. QED BY <2>1 DEF IsPage, IsRow
<1>2. ASSUME session # None
      PROVE  \E first, last \in Int :
               /\ DOMAIN pages = first .. last
               /\ session.way = "forward" => session.page = last
               /\ session.way = "back" => /\ session.page < last
                                          /\ Succeeded(pages'[last].answer)
                                          /\ Pagination(last)'.nextPage = None
  BY <1>2 DEF WalkInv, Pagination
<1>3. QED BY <1>1, <1>2 DEF WalkInv

LEMMA NextInv ==
  ASSUME BrowsingInv, [Next]_vars
  PROVE  BrowsingInv'
<1>1. ASSUME NEW e \in Endpoint, NEW raw \in Queries[e], Begin(e, raw)
      PROVE  BrowsingInv'
  BY <1>1, BeginInv
<1>2. CASE FollowNext
  BY <1>2, FollowNextInv
<1>3. CASE FollowPrevious
  BY <1>3, FollowPreviousInv
<1>4. CASE Leave
  BY <1>4 DEF Leave, BrowsingInv, ServedInv, WalkInv
<1>5. ASSUME NEW r \in Release, Deploy(r)
      PROVE  BrowsingInv'
  <2>1. ServedInv'
    BY <1>5, ContentFacts DEF Deploy, BrowsingInv, ServedInv
  <2>2. WalkInv'
    BY <1>5, PagesStay DEF Deploy, BrowsingInv
  <2>3. QED BY <2>1, <2>2 DEF BrowsingInv
<1>6. ASSUME NEW r \in Release, Import(r)
      PROVE  BrowsingInv'
  <2>1. ServedInv'
    BY <1>6, ContentFacts DEF Import, RowsOf, BrowsingInv, ServedInv
  <2>2. WalkInv'
    BY <1>6, PagesStay DEF Import, BrowsingInv
  <2>3. QED BY <2>1, <2>2 DEF BrowsingInv
<1>7. CASE UNCHANGED vars
  <2>1. ServedInv'
    BY <1>7 DEF vars, BrowsingInv, ServedInv
  <2>2. WalkInv'
    BY <1>7, PagesStay DEF vars, BrowsingInv
  <2>3. QED BY <2>1, <2>2 DEF BrowsingInv
<1>8. QED BY <1>1, <1>2, <1>3, <1>4, <1>5, <1>6, <1>7 DEF Next

\* The inductive invariant: each page of a walk is an answer to the client's
\* query from a release that was served then, and stays so whatever is deployed
\* or imported while the client follows the links.
THEOREM BrowsingIsInvariant == Spec => []BrowsingInv
<1>1. Init => BrowsingInv
  BY InitInv
<1>2. BrowsingInv /\ [Next]_vars => BrowsingInv'
  BY NextInv
<1>3. QED BY <1>1, <1>2, PTL DEF Spec

-----------------------------------------------------------------------------
(* Types, and answers of all that an endpoint reads.                       *)

\* The state of a walk has its types, and every answer is an error or has the
\* envelope of a page, its records counted as they are
\* (buildOffsetPaginatedResponse).
THEOREM WalksAreTyped == Spec => []BrowsingTypeOK
<1>1. ASSUME BrowsingInv PROVE BrowsingTypeOK
  <2>1. /\ served \in Release /\ changes \in 0 .. MaxChanges
        /\ session = None => pages = << >>
    BY <1>1 DEF BrowsingInv, ServedInv, WalkInv
  <2>5. rows \subseteq Manifest
    <3>1. \A r \in Release : Content[r].geo \in GeographyData
      BY ContentFacts DEF World
    <3>2. QED BY <1>1, <3>1 DEF BrowsingInv, ServedInv, GeographyData, Optional, Importable
  <2>2. session # None => /\ session.endpoint \in Endpoint
                          /\ session.raw \in Queries[session.endpoint]
                          /\ session.page \in DOMAIN pages
                          /\ session.way \in {"forward", "back"}
    BY <1>1 DEF BrowsingInv, WalkInv, Walk
  <2>3. ASSUME NEW n \in DOMAIN pages
        PROVE  PageAnswer(pages[n].answer)
    <3>1. session # None
      BY <2>1, <2>3
    <3>2. QED BY <1>1, <3>1, PagesAnswer, AnswerEnvelope
  <2>4. QED BY <2>1, <2>2, <2>3, <2>5 DEF BrowsingTypeOK
<1>2. QED BY <1>1, BrowsingIsInvariant, PTL

\* No answer is made of those artifacts of a dataset that could be read when
\* another could not (readUniversities, readTransport, readTelecom).
THEOREM AnswersReadAll == Spec => []AllOrNothing
<1>1. ASSUME BrowsingInv, NEW n \in DOMAIN pages, Succeeded(pages[n].answer)
      PROVE  Broken \notin ReadBy(session.endpoint, Content[pages[n].release],
                                  pages[n].row)
  <2> DEFINE e == session.endpoint
             raw == [session.raw EXCEPT !.page = n]
             world == Content[pages[n].release]
             t == pages[n].row
             a == pages[n].answer
  <2>1. session # None
    BY <1>1 DEF BrowsingInv, WalkInv
  <2>2. e \in Endpoint /\ IsAnswer(e, raw, world, t, a)
    BY <1>1, <2>1, PagesAnswer
  <2>3. CASE e \in DiscoveryEndpoint
    BY <2>3, KindsOfEndpoints DEF ReadBy
  <2>4. CASE e \in RecordEndpoint
    <3>1. e \notin DiscoveryEndpoint
      BY <2>4, KindsOfEndpoints DEF RecordEndpoint
    <3>2. RecordAnswer(e, raw, world, t, a)
      BY <2>2, <3>1 DEF IsAnswer
    <3>3. a # Failure(400) /\ a # ServerError
      BY <1>1 DEF Succeeded, Failure, ServerError
    <3>4. QED BY <3>2, <3>3 DEF RecordAnswer
  <2>5. QED BY <2>2, <2>3, <2>4 DEF Endpoint
<1>2. BrowsingInv => AllOrNothing
  BY <1>1 DEF AllOrNothing
<1>3. QED BY <1>2, BrowsingIsInvariant, PTL

-----------------------------------------------------------------------------
(* One list of a release.                                                  *)

\* The query of another page of a list is the same but for its number.
LEMMA ParsedPage ==
  ASSUME NEW Filters, NEW raw \in RawQuery(Filters), NEW n \in Int
  PROVE  LET query == ParsedQuery(raw)
             other == ParsedQuery([raw EXCEPT !.page = n])
         IN  /\ other.page = n
             /\ other.limit = query.limit /\ query.limit \in PageLimits
             /\ other.order = query.order /\ query.order \in SortOrders
             /\ other.q = query.q /\ query.q = raw.q
             /\ other.filter = query.filter
<1> DEFINE other == [raw EXCEPT !.page = n]
<1>1. /\ other \in RawQuery(Filters) /\ other.page = n
      /\ other.limit = raw.limit /\ other.order = raw.order
      /\ other.q = raw.q /\ other.filter = raw.filter
  BY DEF RawQuery, Optional
<1> HIDE DEF other
<1>2. \A x \in RawQuery(Filters) :
        /\ ParsedQuery(x).page = OrElse(x.page, 1)
        /\ ParsedQuery(x).limit = OrElse(x.limit, DefaultLimit)
        /\ ParsedQuery(x).order = OrElse(x.order, "asc")
        /\ ParsedQuery(x).q = x.q /\ ParsedQuery(x).filter = x.filter
  <2>1. ASSUME NEW x \in RawQuery(Filters)
        PROVE  /\ ParsedQuery(x).page = OrElse(x.page, 1)
               /\ ParsedQuery(x).limit = OrElse(x.limit, DefaultLimit)
               /\ ParsedQuery(x).order = OrElse(x.order, "asc")
               /\ ParsedQuery(x).q = x.q /\ ParsedQuery(x).filter = x.filter
    <3>1. DOMAIN x = {"page", "limit", "q", "order", "filter"}
      BY DEF RawQuery
    <3>2. QED BY <3>1 DEF ParsedQuery
  <2>2. QED BY <2>1
<1>3. OrElse(n, 1) = n
  BY LimitFacts DEF OrElse
<1>4. OrElse(raw.limit, DefaultLimit) \in PageLimits
  BY LimitFacts DEF RawQuery, OrElse, Optional
<1>5. OrElse(raw.order, "asc") \in SortOrders
  BY DEF RawQuery, OrElse, Optional, SortOrders
<1>6. QED BY <1>1, <1>2, <1>3, <1>4, <1>5 DEF other

\* What matches depends on the filter and the search.
LEMMA MatchingByFilter ==
  ASSUME NEW e \in Endpoint, NEW item, NEW query, NEW other,
         other.filter = query.filter, other.q = query.q
  PROVE  Matching(e, item, other) <=> Matching(e, item, query)
<1>1. CASE e \in GeographyEndpoint
  BY <1>1 DEF Matching, GeographyEndpoint, FilterGovernorates, FilterDistricts,
     FilterSubdistricts, FilterLocalities, LocalityParents
<1>2. CASE e = "universities"
  BY <1>2 DEF Matching, FilterUniversities
<1>3. CASE e \in TransportEndpoint
  BY <1>3 DEF Matching, TransportEndpoint, MatchesLocationFilters,
     MatchesStatusSnapshotFilters, MatchesRouteSnapshotFilters
<1>4. CASE e \in TelecomEndpoint
  BY <1>4 DEF Matching, TelecomEndpoint, MatchesCountryNumberingPlanFilters,
     MatchesOperatorFilters, MatchesFixedAreaCodeFilters, MatchesMobilePrefixFilters,
     MatchesNumberRangeFilters
<1>5. CASE e \in DiscoveryEndpoint
  BY <1>5 DEF Matching, DiscoveryEndpoint, MatchesDatasetSearch, MatchesReleaseSearch
<1>6. QED BY <1>1, <1>2, <1>3, <1>4, <1>5 DEF Endpoint, RecordEndpoint

LEMMA MatchesByFilter ==
  ASSUME NEW e \in Endpoint, NEW records, NEW query, NEW other,
         other.filter = query.filter, other.q = query.q
  PROVE  Matches(e, records, other) = Matches(e, records, query)
BY MatchingByFilter DEF Matches

\* What the search of a table finds and that of an artifact does not is found
\* by fields that are not documented.
LEMMA SearchedAlike ==
  ASSUME NEW e \in GeographyEndpoint, NEW records, NEW query,
         query.q # None => FoundAsDocumented(e, records)
  PROVE  Rows(e, records, query) = Matches(e, records, query)
<1>1. ASSUME NEW i \in DOMAIN records
      PROVE  Matching(e, records[i], query)
             <=> CASE e = "governorates" -> GovernorateWhere(records[i], query)
                   [] e = "districts" -> DistrictWhere(records[i], query)
                   [] e = "subdistricts" -> SubdistrictWhere(records[i], query)
                   [] e = "localities" -> LocalityWhere(records[i], query)
  <2> DEFINE item == records[i]
  <2>1. query.q # None => item.mentions = {} \/ item.mentions \cap DocumentedSearch(e) # {}
    BY DEF FoundAsDocumented
  <2> HIDE DEF item
  <2>2. ASSUME NEW F, NEW G, DocumentedSearch(e) \subseteq F, DocumentedSearch(e) \subseteq G
        PROVE  MatchesSearch(F, item, query.q) <=> MatchesSearch(G, item, query.q)
    BY <2>1, <2>2 DEF MatchesSearch
  <2>3. CASE e = "governorates"
    <3>1. /\ DocumentedSearch(e) \subseteq AdministrativeSearch \cup {"iso31662"}
          /\ DocumentedSearch(e) \subseteq GovernorateText
      BY <2>3 DEF DocumentedSearch, AdministrativeSearch, GovernorateText, AdministrativeText
    <3>2. FilterGovernorates(item, query) <=> GovernorateWhere(item, query)
      BY <2>2, <3>1 DEF FilterGovernorates, GovernorateWhere
    <3>3. QED BY <2>3, <3>2 DEF Matching, item
  <2>4. CASE e = "districts"
    <3>1. /\ DocumentedSearch(e) \subseteq AdministrativeSearch \cup {"governorateId"}
          /\ DocumentedSearch(e) \subseteq DistrictText
      BY <2>4 DEF DocumentedSearch, AdministrativeSearch, DistrictText, AdministrativeText
    <3>2. FilterDistricts(item, query) <=> DistrictWhere(item, query)
      BY <2>2, <3>1 DEF FilterDistricts, DistrictWhere
    <3>3. QED BY <2>4, <3>2 DEF Matching, item
  <2>5. CASE e = "subdistricts"
    <3>1. /\ DocumentedSearch(e)
               \subseteq AdministrativeSearch \cup {"governorateId", "districtId"}
          /\ DocumentedSearch(e) \subseteq SubdistrictText
      BY <2>5 DEF DocumentedSearch, AdministrativeSearch, SubdistrictText, AdministrativeText
    <3>2. FilterSubdistricts(item, query) <=> SubdistrictWhere(item, query)
      BY <2>2, <3>1 DEF FilterSubdistricts, SubdistrictWhere
    <3>3. QED BY <2>5, <3>2 DEF Matching, item
  <2>6. CASE e = "localities"
    <3>1. /\ DocumentedSearch(e)
               \subseteq { "id", "governorateId", "districtId", "subdistrictId", "kind",
                           "name", "aliases", "aliasTypes", "externalIds", "sourceIds",
                           "sourceStatus" }
          /\ DocumentedSearch(e) \subseteq LocalityText
      BY <2>6 DEF DocumentedSearch, LocalityText
    <3>2. FilterLocalities(item, query) <=> LocalityWhere(item, query)
      BY <2>2, <3>1 DEF FilterLocalities, LocalityWhere
    <3>3. QED BY <2>6, <3>2 DEF Matching, item
  <2>7. QED BY <2>3, <2>4, <2>5, <2>6 DEF GeographyEndpoint
<1>2. QED BY <1>1 DEF Rows, Matches

\* With no two records of one name the rows of a table have one order, that of
\* the artifact.
LEMMA RowsAsSorted ==
  ASSUME NEW e \in GeographyEndpoint, NEW records \in Seq(GeographyRecord),
         DistinctKeys(e, records), NEW chosen \in SUBSET (DOMAIN records),
         NEW order \in SortOrders, NEW s, Shows(s, e, records, chosen, order)
  PROVE  s = Arranged(records, chosen, Ordering(e, records, order))
<1> DEFINE n == Cardinality(chosen)
           compared == Ordering(e, records, order)
<1>1. \A i \in DOMAIN records : records[i] \in GeographyRecord
  BY ElementsOfSeq
<1>2. \A i \in DOMAIN records :
        /\ SortKey(e, records[i]) \in Int
        /\ TieKey(e, records[i]) = 0
  <2>1. \A i \in DOMAIN records : records[i].nameEn \in Int
    BY <1>1 DEF GeographyRecord, GovernorateRecord, DistrictRecord, SubdistrictRecord,
       LocalityRecord, Rank
  <2>2. \A x : SortKey(e, x) = x.nameEn
    BY DEF SortKey, GeographyEndpoint
  <2>3. \A x : TieKey(e, x) = 0
    BY KindsOfEndpoints DEF TieKey
  <2>4. QED BY <2>1, <2>2, <2>3
<1>3. IsOrdering(e, records, order, compared)
  BY <1>2 DEF IsOrdering
<1>4. chosen \in SUBSET Nat /\ IsFiniteSet(chosen) /\ n \in Nat
  BY ChosenIsFinite
<1>5. WeakOrder(chosen, compared)
  BY <1>3, OrderingIsWeak
<1>6. PICK f \in [1 .. n -> chosen] :
        /\ s = [k \in 1 .. n |-> records[f[k]]]
        /\ \A k, l \in 1 .. n :
             k < l => f[k] # f[l] /\ ~ Less(e, records[f[l]], records[f[k]], order)
  BY DEF Shows
<1>7. ASSUME NEW k \in 1 .. n, NEW l \in 1 .. n, k < l
      PROVE  ComesBefore(compared, f[k], f[l])
  <2>1. /\ f[k] \in DOMAIN records /\ f[l] \in DOMAIN records /\ f[k] # f[l]
        /\ ~ Less(e, records[f[l]], records[f[k]], order)
    BY <1>6, <1>7
  <2>2. SortKey(e, records[f[k]]) # SortKey(e, records[f[l]])
    BY <2>1 DEF DistinctKeys
  <2>3. << f[k], f[l] >> \in compared
    BY <1>2, <2>1, <2>2 DEF Less, Ordering, Ahead, SortOrders
  <2>4. QED BY <2>3 DEF ComesBefore
<1>8. \A k \in 1 .. n : f[k] = SortedTo(chosen, compared, k)
  <2> HIDE DEF compared
  <2>1. QED BY <1>4, <1>5, <1>7, SortedOneWay
<1>9. QED BY <1>6, <1>8 DEF Arranged

\* The list of a release, as its artifacts give it.
ListOf(e, records, query) ==
  Arranged(records, Matches(e, records, query), Ordering(e, records, query.order))

\* What is one list, whether from the artifacts or from the tables.
OneListOfRecords(e, records, q) ==
  e \in GeographyEndpoint => /\ DistinctKeys(e, records)
                             /\ q # None => FoundAsDocumented(e, records)

\* A successful answer of records is a page of that list.
LEMMA RecordsShown ==
  ASSUME NEW world \in World, Complete(world.geo), NEW e \in RecordEndpoint,
         NEW raw \in RawQuery(FilterOf(e)), NEW t,
         t # None => e \in GeographyEndpoint /\ Importable(world.geo),
         NEW a, RecordAnswer(e, raw, world, t, a), Succeeded(a),
         OneListOfRecords(e, Records(e, world), raw.q)
  PROVE  LET records == Records(e, world)
             query == ParsedQuery(raw)
             s == ListOf(e, records, query)
         IN  /\ ValidQuery(raw)
             /\ Shows(s, e, records, Matches(e, records, query), query.order)
             /\ IsPageOf(s, query, a.data)
             /\ a.data.release = ContextOf(e, world, t).release
<1> DEFINE records == Records(e, world)
           query == ParsedQuery(raw)
           chosen == IF t # None THEN Rows(e, records, query) ELSE Matches(e, records, query)
<1>1. a # Failure(400) /\ a # ServerError
  BY DEF Succeeded, Failure, ServerError
<1>2. ValidQuery(raw) /\ Broken \notin ReadBy(e, world, t)
  BY <1>1 DEF RecordAnswer
<1>3. PICK s :
        /\ Shows(s, e, records, chosen, query.order)
        /\ t # None \/ s = ListOf(e, records, query)
        /\ a = [status |-> 200, data |-> PageOf(s, query, ContextOf(e, world, t))]
  BY <1>1 DEF RecordAnswer, ListOf
<1>4. query.order \in SortOrders /\ query.q = raw.q
  BY <1>2, ParsedQueryType
<1>5. ASSUME t # None
      PROVE  chosen = Matches(e, records, query) /\ s = ListOf(e, records, query)
  <2>1. e \in GeographyEndpoint /\ records \in Seq(GeographyRecord)
    BY <1>5, GeographyRead
  <2>2. chosen = Matches(e, records, query)
    BY <1>4, <1>5, <2>1, SearchedAlike DEF OneListOfRecords
  <2>3. chosen \in SUBSET (DOMAIN records) /\ DistinctKeys(e, records)
    BY <2>1, <2>2 DEF Matches, OneListOfRecords
  <2> HIDE DEF records, query, chosen
  <2>4. s = Arranged(records, chosen, Ordering(e, records, query.order))
    BY <1>3, <1>4, <2>1, <2>3, RowsAsSorted
  <2>5. QED BY <2>2, <2>4 DEF ListOf
<1>6. chosen = Matches(e, records, query) /\ s = ListOf(e, records, query)
  BY <1>3, <1>5
<1>7. a.data = PageOf(s, query, ContextOf(e, world, t))
  BY <1>3
<1>8. IsPageOf(s, query, a.data) /\ a.data.release = ContextOf(e, world, t).release
  BY <1>7 DEF IsPageOf, PageOf
<1>9. QED BY <1>2, <1>3, <1>6, <1>8

-----------------------------------------------------------------------------
(* Answers of one release.                                                 *)

\* A release is named by the version of its manifest.
LEMMA ReleaseNamed ==
  ASSUME NEW manifest, NEW other, ReleaseContext(manifest) # None,
         ReleaseContext(manifest) = ReleaseContext(other)
  PROVE  manifest # None /\ other # None /\ manifest.version = other.version
<1>1. /\ manifest # None /\ other # None
      /\ ReleaseContext(manifest)
           = [version |-> manifest.version, releasedAt |-> manifest.publishedAt]
      /\ ReleaseContext(other)
           = [version |-> other.version, releasedAt |-> other.publishedAt]
  BY DEF ReleaseContext
<1>2. \A v, d : [version |-> v, releasedAt |-> d].version = v
  OBVIOUS
<1>3. /\ ReleaseContext(manifest).version = manifest.version
      /\ ReleaseContext(other).version = other.version
  BY <1>1, <1>2, Zenon
<1>4. QED BY <1>1, <1>3

\* Releases that an endpoint names alike have the same records there.
LEMMA SameRecords ==
  ASSUME NEW r \in Release, NEW s \in Release, NEW e \in RecordEndpoint,
         NEW row, IsRow(e, Content[r], row), NEW found, IsRow(e, Content[s], found),
         ContextOf(e, Content[r], row).release # None,
         ContextOf(e, Content[r], row).release = ContextOf(e, Content[s], found).release
  PROVE  Records(e, Content[r]) = Records(e, Content[s])
<1> DEFINE world == Content[r]
           other == Content[s]
<1>1. world \in World /\ other \in World
  BY ContentFacts
<1>2. DOMAIN world = {"geo", "uni", "trn", "tel"}
  BY <1>1 DEF World
<1>3. /\ OneBuild(world.geo, other.geo) /\ OneBuild(world.uni, other.uni)
      /\ OneBuild(world.trn, other.trn) /\ OneBuild(world.tel, other.tel)
  BY <1>2, BrowsingAssumption
<1>4. \A manifest, artifact : manifest # None => ReadJsonArtifact(manifest, artifact) = artifact
  BY DEF ReadJsonArtifact
<1> HIDE DEF world, other
<1>5. CASE e \in GeographyEndpoint
  <2> DEFINE told(w, t) == IF t # None THEN t ELSE w.geo.manifest
  <2>1. /\ ContextOf(e, world, row) = Context("opensyria-geography", told(world, row))
        /\ ContextOf(e, other, found) = Context("opensyria-geography", told(other, found))
    BY <1>5, KindsOfEndpoints DEF ContextOf
  <2>2. /\ ContextOf(e, world, row).release = ReleaseContext(told(world, row))
        /\ ContextOf(e, other, found).release = ReleaseContext(told(other, found))
    BY <2>1 DEF Context
  <2>9. /\ told(world, row) # None /\ told(other, found) # None
        /\ told(world, row).version = told(other, found).version
    <3> HIDE DEF told
    <3>1. QED BY <2>2, ReleaseNamed DEF world, other
  <2>3. /\ world.geo.manifest # None /\ other.geo.manifest # None
        /\ world.geo.manifest.version = other.geo.manifest.version
    BY <2>9 DEF IsRow, Importable, world, other
  <2>4. DOMAIN world.geo = {"manifest", "row", "governorates", "districts", "subdistricts", "localities"}
    BY <1>1 DEF World, GeographyData
  <2>5. /\ world.geo.governorates = other.geo.governorates
        /\ world.geo.districts = other.geo.districts
        /\ world.geo.subdistricts = other.geo.subdistricts
        /\ world.geo.localities = other.geo.localities
    BY <1>3, <2>3, <2>4 DEF OneBuild
  <2>6. world.geo[e] = other.geo[e]
    BY <1>5, <2>5 DEF GeographyEndpoint
  <2>7. /\ Records(e, world) = DataOf(ReadGeography(world.geo, world.geo[e]))
        /\ Records(e, other) = DataOf(ReadGeography(other.geo, other.geo[e]))
    BY <1>5 DEF Records, GeographyEndpoint
  <2>8. QED BY <1>4, <2>3, <2>6, <2>7 DEF ReadGeography, world, other
<1>6. CASE e = "universities"
  <2>1. /\ ContextOf(e, world, row) = UniversitiesContext(world.uni)
        /\ ContextOf(e, other, found) = UniversitiesContext(other.uni)
    BY <1>6, KindsOfEndpoints DEF ContextOf
  <2>2. /\ ContextOf(e, world, row).release = ReleaseContext(world.uni.manifest)
        /\ ContextOf(e, other, found).release = ReleaseContext(other.uni.manifest)
    BY <2>1 DEF UniversitiesContext, Context
  <2>3. /\ world.uni.manifest # None /\ other.uni.manifest # None
        /\ world.uni.manifest.version = other.uni.manifest.version
    BY <2>2, ReleaseNamed DEF world, other
  <2>4. DOMAIN world.uni = {"manifest", "universities", "assets", "rankings"}
    BY <1>1 DEF World, UniversitiesData
  <2>5. /\ world.uni.universities = other.uni.universities
        /\ world.uni.assets = other.uni.assets
        /\ world.uni.rankings = other.uni.rankings
    BY <1>3, <2>3, <2>4 DEF OneBuild
  <2>6. ReadUniversities(world.uni) = ReadUniversities(other.uni)
    BY <1>4, <2>3, <2>5 DEF ReadUniversities
  <2>7. Records(e, world) = Records(e, other)
    BY <1>6, <2>6, KindsOfEndpoints DEF Records
  <2>8. QED BY <2>7 DEF world, other
<1>7. CASE e \in TransportEndpoint
  <2>1. /\ ContextOf(e, world, row) = TransportContext(world.trn)
        /\ ContextOf(e, other, found) = TransportContext(other.trn)
    BY <1>7, KindsOfEndpoints DEF ContextOf
  <2>2. /\ ContextOf(e, world, row).release = ReleaseContext(world.trn.manifest)
        /\ ContextOf(e, other, found).release = ReleaseContext(other.trn.manifest)
    BY <2>1 DEF TransportContext, Context
  <2>3. /\ world.trn.manifest # None /\ other.trn.manifest # None
        /\ world.trn.manifest.version = other.trn.manifest.version
    BY <2>2, ReleaseNamed DEF world, other
  <2>4. DOMAIN world.trn = {"manifest", "locations", "statusSnapshots", "routeSnapshots"}
    BY <1>1 DEF World, TransportData
  <2>5. /\ world.trn.locations = other.trn.locations
        /\ world.trn.statusSnapshots = other.trn.statusSnapshots
        /\ world.trn.routeSnapshots = other.trn.routeSnapshots
    BY <1>3, <2>3, <2>4 DEF OneBuild
  <2>6. ReadTransport(world.trn) = ReadTransport(other.trn)
    BY <1>4, <2>3, <2>5 DEF ReadTransport
  <2>7. Records(e, world) = Records(e, other)
    BY <1>7, <2>6, KindsOfEndpoints DEF Records, TransportEndpoint
  <2>8. QED BY <2>7 DEF world, other
<1>8. CASE e \in TelecomEndpoint
  <2>1. /\ ContextOf(e, world, row) = TelecomContext(world.tel)
        /\ ContextOf(e, other, found) = TelecomContext(other.tel)
    BY <1>8, KindsOfEndpoints DEF ContextOf
  <2>2. /\ ContextOf(e, world, row).release = ReleaseContext(world.tel.manifest)
        /\ ContextOf(e, other, found).release = ReleaseContext(other.tel.manifest)
    BY <2>1 DEF TelecomContext, Context
  <2>3. /\ world.tel.manifest # None /\ other.tel.manifest # None
        /\ world.tel.manifest.version = other.tel.manifest.version
    BY <2>2, ReleaseNamed DEF world, other
  <2>4. DOMAIN world.tel = {"manifest", "plans", "operators", "areaCodes", "prefixes", "ranges"}
    BY <1>1 DEF World, TelecomData
  <2>5. /\ world.tel.plans = other.tel.plans
        /\ world.tel.operators = other.tel.operators
        /\ world.tel.areaCodes = other.tel.areaCodes
        /\ world.tel.prefixes = other.tel.prefixes
        /\ world.tel.ranges = other.tel.ranges
    BY <1>3, <2>3, <2>4 DEF OneBuild
  <2>6. ReadTelecom(world.tel) = ReadTelecom(other.tel)
    BY <1>4, <2>3, <2>5 DEF ReadTelecom
  <2>7. Records(e, world) = Records(e, other)
    BY <1>8, <2>6, KindsOfEndpoints DEF Records, TelecomEndpoint
  <2>8. QED BY <2>7 DEF world, other
<1>9. QED BY <1>5, <1>6, <1>7, <1>8 DEF RecordEndpoint

\* A successful answer of discovery is a page of the list of its manifests.
LEMMA EntriesShown ==
  ASSUME NEW e, NEW raw, NEW m, NEW a, DiscoveryAnswer(e, raw, m, a), Succeeded(a)
  PROVE  LET records == Summaries(e, m)
             query == ParsedQuery(raw)
             s == ListOf(e, records, query)
         IN  /\ ValidQuery(raw)
             /\ Shows(s, e, records, Matches(e, records, query), query.order)
             /\ IsPageOf(s, query, a.data)
<1> DEFINE records == Summaries(e, m)
           query == ParsedQuery(raw)
<1>1. a # Failure(400)
  BY DEF Succeeded, Failure
<1>2. PICK s :
        /\ Shows(s, e, records, Matches(e, records, query), query.order)
        /\ s = ListOf(e, records, query)
        /\ a = [status |-> 200, data |-> EntriesOf(s, query)]
  BY <1>1 DEF DiscoveryAnswer, ListOf
<1>3. a.data = EntriesOf(s, query)
  BY <1>2
<1>4. IsPageOf(s, query, a.data)
  BY <1>3 DEF IsPageOf, EntriesOf
<1>5. QED BY <1>1, <1>2, <1>4 DEF DiscoveryAnswer

\* The list is the same for every page of it.
LEMMA ListByFilter ==
  ASSUME NEW e \in Endpoint, NEW records, NEW query, NEW other, other.filter = query.filter,
         other.q = query.q, other.order = query.order
  PROVE  /\ Matches(e, records, other) = Matches(e, records, query)
         /\ ListOf(e, records, other) = ListOf(e, records, query)
<1>1. Matches(e, records, other) = Matches(e, records, query)
  BY MatchesByFilter
<1>2. QED BY <1>1 DEF ListOf

\* What an answer of records names is the release of its content.
LEMMA ReleaseOfAnswer ==
  ASSUME NEW e, NEW raw, NEW world, NEW t, NEW a, RecordAnswer(e, raw, world, t, a),
         Succeeded(a)
  PROVE  a.data.release = ContextOf(e, world, t).release
<1>1. a # Failure(400) /\ a # ServerError
  BY DEF Succeeded, Failure, ServerError
<1>2. PICK s : a = [status |-> 200, data |-> PageOf(s, ParsedQuery(raw), ContextOf(e, world, t))]
  BY <1>1 DEF RecordAnswer
<1>3. a.data = PageOf(s, ParsedQuery(raw), ContextOf(e, world, t))
  BY <1>2
<1>4. QED BY <1>3 DEF PageOf

\* The successful pages of a walk that name one release are pages of one list,
\* that of the records of this release.
LEMMA PageOfList ==
  ASSUME BrowsingInv, session # None, NEW m \in DOMAIN pages, NEW n \in DOMAIN pages,
         SameRelease(m, n), OneList(session.endpoint, pages[m].release, session.raw)
  PROVE  LET e == session.endpoint
             records == Records(e, Content[pages[m].release])
             query == ParsedQuery(session.raw)
             s == ListOf(e, records, query)
         IN  /\ n \in Nat \ {0} /\ query.limit \in PageLimits
             /\ Shows(s, e, records, Matches(e, records, query), query.order)
             /\ IsPageOf(s, [page |-> n, limit |-> query.limit], pages[n].answer.data)
<1> DEFINE e == session.endpoint
           world == Content[pages[m].release]
           records == Records(e, world)
           query == ParsedQuery(session.raw)
           s == ListOf(e, records, query)
           raw == [session.raw EXCEPT !.page = n]
           other == ParsedQuery(raw)
           a == pages[n].answer
           t == pages[n].row
<1>1. /\ e \in Endpoint /\ n \in Int /\ pages[n].release \in Release
      /\ session.raw \in RawQuery(FilterOf(e)) /\ raw \in RawQuery(FilterOf(e)) /\ raw.page = n
      /\ IsAnswer(e, raw, Content[pages[n].release], t, a)
      /\ IsRow(e, Content[pages[n].release], t)
      /\ pages[m].release \in Release
  BY PagesAnswer
<1>2. IsRow(e, Content[pages[m].release], pages[m].row)
  BY PagesAnswer
<1>3. Succeeded(a)
  BY DEF SameRelease
<1>4. /\ other.page = n
      /\ other.limit = query.limit /\ query.limit \in PageLimits
      /\ other.order = query.order /\ query.order \in SortOrders
      /\ other.q = query.q /\ query.q = session.raw.q
      /\ other.filter = query.filter
  BY <1>1, ParsedPage
<1>5. raw.q = session.raw.q
  BY <1>1 DEF RawQuery
<1>6. ASSUME NEW list, list = records
      PROVE  /\ Matches(e, list, other) = Matches(e, records, query)
             /\ ListOf(e, list, other) = s
  <2> HIDE DEF other, query, records, e
  <2>1. QED BY <1>1, <1>4, <1>6, ListByFilter
<1>7. /\ ValidQuery(raw)
      /\ Shows(s, e, records, Matches(e, records, query), query.order)
      /\ IsPageOf(s, other, a.data)
  <2>1. CASE e \in RecordEndpoint
    <3> DEFINE mine == Content[pages[n].release]
    <3>1. e \notin DiscoveryEndpoint
      BY <2>1, KindsOfEndpoints DEF RecordEndpoint
    <3>2. RecordAnswer(e, raw, mine, t, a)
      BY <1>1, <3>1 DEF IsAnswer
    <3>3. a.data.release = ContextOf(e, mine, t).release
      BY <1>3, <3>2, ReleaseOfAnswer
    <3>4. pages[m].answer.data.release = ContextOf(e, world, pages[m].row).release
      <4>1. IsAnswer(e, [session.raw EXCEPT !.page = m], world, pages[m].row,
                     pages[m].answer)
        BY PagesAnswer
      <4>2. RecordAnswer(e, [session.raw EXCEPT !.page = m], world,
                         pages[m].row, pages[m].answer)
        BY <3>1, <4>1 DEF IsAnswer
      <4>3. Succeeded(pages[m].answer)
        BY DEF SameRelease
      <4>4. QED BY <4>2, <4>3, ReleaseOfAnswer
    <3>5. /\ pages[m].answer.data.release # None
          /\ pages[m].answer.data.release = a.data.release
      BY <3>1 DEF SameRelease
    <3>6. records = Records(e, mine)
      BY <1>1, <1>2, <2>1, <3>3, <3>4, <3>5, SameRecords
    <3>7. OneListOfRecords(e, Records(e, mine), raw.q)
      BY <1>5, <3>6 DEF OneList, OneListOfRecords
    <3>8. mine \in World /\ Complete(mine.geo)
      BY <1>1, ContentFacts, CompleteWorld
    <3>9. t # None => e \in GeographyEndpoint /\ Importable(mine.geo)
      BY <1>1 DEF IsRow
    <3>10. /\ ValidQuery(raw)
           /\ Shows(ListOf(e, Records(e, mine), other), e, Records(e, mine),
                    Matches(e, Records(e, mine), other), other.order)
           /\ IsPageOf(ListOf(e, Records(e, mine), other), other, a.data)
      <4> HIDE DEF mine, t, a, e, raw
      <4>1. QED BY <1>1, <1>3, <2>1, <3>2, <3>7, <3>8, <3>9, RecordsShown DEF other
    <3> HIDE DEF mine, other, query, records, s
    <3>11. QED BY <1>4, <1>6, <3>6, <3>10
  <2>2. CASE e \in DiscoveryEndpoint
    <3>1. e \notin RecordEndpoint
      BY <2>2, KindsOfEndpoints DEF RecordEndpoint
    <3>2. PICK man \in OfOneKey(e, Manifests(Content[pages[n].release])) :
            DiscoveryAnswer(e, raw, man, a)
      BY <1>1, <3>1 DEF IsAnswer
    <3>3. pages[m].release = pages[n].release
      BY <2>2 DEF SameRelease
    <3>4. Summaries(e, man) = records
      BY <2>2, <3>2, <3>3 DEF OneList, Summaries, DiscoveryEndpoint
    <3>5. /\ ValidQuery(raw)
          /\ Shows(ListOf(e, Summaries(e, man), other), e, Summaries(e, man),
                   Matches(e, Summaries(e, man), other), other.order)
          /\ IsPageOf(ListOf(e, Summaries(e, man), other), other, a.data)
      BY <1>3, <3>2, EntriesShown
    <3> HIDE DEF other, query, records, s
    <3>6. QED BY <1>4, <1>6, <3>4, <3>5
  <2>3. QED BY <1>1, <2>1, <2>2 DEF Endpoint
<1>8. n \in Nat \ {0}
  BY <1>1, <1>7, LimitFacts DEF ValidQuery
<1>9. IsPageOf(s, [page |-> n, limit |-> query.limit], a.data)
  BY <1>4, <1>7 DEF IsPageOf
<1>10. QED BY <1>4, <1>7, <1>8, <1>9

\* While a release is the same, a link leads to a page that has records, the
\* same totals and a link back (buildOffsetPagination).
THEOREM LinksLeadOn == Spec => []LinksLead
<1>1. ASSUME BrowsingInv, session # None, NEW m \in DOMAIN pages, NEW n \in DOMAIN pages,
             SameRelease(m, n), Pagination(m).nextPage = n,
             OneList(session.endpoint, pages[m].release, session.raw)
      PROVE  /\ Items(n) # << >>
             /\ Pagination(n).totalRecords = Pagination(m).totalRecords
             /\ Pagination(n).totalPages = Pagination(m).totalPages
             /\ Pagination(n).previousPage = m
  <2> DEFINE e == session.endpoint
             records == Records(e, Content[pages[m].release])
             query == ParsedQuery(session.raw)
             s == ListOf(e, records, query)
             limit == query.limit
  <2>1. SameRelease(m, m)
    BY <1>1 DEF SameRelease
  <2>2. /\ m \in Nat \ {0} /\ n \in Nat \ {0} /\ limit \in PageLimits
        /\ Shows(s, e, records, Matches(e, records, query), query.order)
        /\ IsPageOf(s, [page |-> n, limit |-> limit], pages[n].answer.data)
        /\ IsPageOf(s, [page |-> m, limit |-> limit], pages[m].answer.data)
    BY <1>1, <2>1, PageOfList
  <2> HIDE DEF s, limit, query, records, e
  <2>3. PICK S : s \in Seq(S)
    BY <2>2, ShownSequence
  <2>4. Len(s) \in Nat /\ limit \in Nat \ {0}
    BY <2>2, <2>3, LenProperties, LimitFacts
  <2>5. /\ Items(n) = PaginateOffsetItems(s, n, limit)
        /\ Pagination(n) = BuildOffsetPagination(Len(s), n, limit, Len(Items(n)))
        /\ Pagination(m) = BuildOffsetPagination(Len(s), m, limit, Len(Items(m)))
    BY <2>2 DEF IsPageOf, Items, Pagination
  <2> DEFINE total == TotalPages(Len(s), limit)
  <2>6. /\ Pagination(n).totalRecords = Len(s) /\ Pagination(m).totalRecords = Len(s)
        /\ Pagination(n).totalPages = total /\ Pagination(m).totalPages = total
        /\ Pagination(m).nextPage = IF m < total THEN m + 1 ELSE None
        /\ Pagination(n).previousPage = IF n > 1 /\ n <= total THEN n - 1 ELSE None
    BY <2>5 DEF BuildOffsetPagination
  <2>7. total \in Nat /\ \A page \in Nat \ {0} : page <= total <=> (page - 1) * limit < Len(s)
    BY <2>4, PagesOfTotal
  <2> HIDE DEF total
  <2>8. m < total /\ n = m + 1
    BY <1>1, <2>2, <2>6, <2>7, LimitFacts
  <2>9. (n - 1) * limit < Len(s)
    BY <2>2, <2>7, <2>8
  <2>10. Items(n) # << >>
    <3> DEFINE before == (n - 1) * limit
    <3>1. /\ Items(n) \in Seq(S) /\ before \in Nat
          /\ Len(Items(n)) = IF Len(s) <= before THEN 0
                             ELSE IF before + limit < Len(s) THEN limit ELSE Len(s) - before
      BY <2>2, <2>3, <2>4, <2>5, PageContents
    <3> HIDE DEF before
    <3>2. Len(Items(n)) # 0
      BY <2>4, <2>9, <3>1 DEF before
    <3>3. QED BY <3>2
  <2>11. QED BY <2>2, <2>6, <2>7, <2>8, <2>10
<1>2. BrowsingInv => LinksLead
  BY <1>1 DEF LinksLead
<1>3. QED BY <1>2, BrowsingIsInvariant, PTL

-----------------------------------------------------------------------------
(* A whole walk.                                                           *)

\* No two records of an artifact that can be read have one identifier: the
\* tables take no others (@@id of release and identifier), and the artifacts are
\* generated so.
IdentifiersDistinct ==
  \A r \in Release : \A e \in RecordEndpoint :
    Broken \notin ReadBy(e, Content[r], None) => Keyed(Records(e, Content[r]))

\* Each dataset has one place among those that are released.
LEMMA ReleasedOnce ==
  ASSUME NEW manifests
  PROVE  LET released == ReleasedInOrder(manifests)
         IN  \A i, j \in DOMAIN released : i # j => released[i] # released[j]
<1> DEFINE chosen == { i \in DOMAIN DatasetOrder : DatasetOrder[i] \in Released(manifests) }
           n == Cardinality(chosen)
           At(k) == SortedTo(chosen, {}, k)
           released == ReleasedInOrder(manifests)
<1>1. chosen \in SUBSET (1 .. 5) /\ chosen \in SUBSET (DOMAIN DatasetOrder)
  BY DatasetOrderFacts
<1>2. chosen \in SUBSET Nat /\ IsFiniteSet(chosen) /\ n \in Nat
  BY <1>1, DatasetOrderFacts, ChosenIsFinite
<1>3. WeakOrder(chosen, {})
  BY DEF WeakOrder
<1>4. released = [k \in 1 .. n |-> DatasetOrder[At(k)]]
  BY DEF ReleasedInOrder, Arranged
<1> HIDE DEF chosen
<1>5. /\ \A k \in 1 .. n : At(k) \in chosen
      /\ \A k, l \in 1 .. n : k < l => ComesBefore({}, At(k), At(l))
  BY <1>2, <1>3, SortedPositions
<1>6. \A k, l \in 1 .. n : k < l => At(k) # At(l)
  BY <1>2, <1>3, <1>5, ComesBeforeIsTotal
<1> HIDE DEF n, At, released
<1>7. \A k, l \in 1 .. n : k # l => At(k) # At(l)
  <2>1. \A k, l \in 1 .. n : k # l => k < l \/ l < k
    BY <1>2
  <2>2. QED BY <1>6, <2>1
<1>8. \A k, l \in 1 .. 5 : k # l => DatasetOrder[k] # DatasetOrder[l]
  BY DEF DatasetOrder
<1>9. \A i, j \in DOMAIN released : i # j => released[i] # released[j]
  <2>1. DOMAIN released = 1 .. n /\ \A k \in 1 .. n : released[k] = DatasetOrder[At(k)]
    BY <1>4
  <2>2. \A k \in 1 .. n : At(k) \in 1 .. 5
    BY <1>1, <1>5
  <2>3. QED BY <1>7, <1>8, <2>1, <2>2
<1>10. QED BY <1>9 DEF released

\* Entries of discovery have identifiers of their own.
LEMMA SummariesDistinct ==
  ASSUME NEW e \in DiscoveryEndpoint, NEW manifests
  PROVE  Keyed(Summaries(e, manifests))
<1>1. CASE e = "datasets"
  <2> DEFINE datasets == DatasetSummaries(manifests)
  <2>1. ASSUME NEW d \in Datasets
        PROVE  EnrichDatasetFromManifest(StaticDataset(d), manifests).id = d
    BY DEF EnrichDatasetFromManifest, StaticDataset
  <2>2. \A i \in DOMAIN DatasetOrder : DatasetOrder[i] \in Datasets
    BY DatasetOrderFacts, ElementsOfSeq
  <2>3. /\ DOMAIN datasets = DOMAIN DatasetOrder
        /\ \A i \in DOMAIN datasets :
             datasets[i] = EnrichDatasetFromManifest(StaticDataset(DatasetOrder[i]), manifests)
    BY DEF DatasetSummaries
  <2>4. \A d \in Datasets : EnrichDatasetFromManifest(StaticDataset(d), manifests).id = d
    BY <2>1
  <2> HIDE DEF datasets
  <2>5. \A i \in DOMAIN datasets : i \in 1 .. 5 /\ datasets[i].id = DatasetOrder[i]
    BY <2>2, <2>3, <2>4, DatasetOrderFacts
  <2>6. \A k, l \in 1 .. 5 : k # l => DatasetOrder[k] # DatasetOrder[l]
    BY DEF DatasetOrder
  <2>7. Summaries(e, manifests) = datasets
    BY <1>1 DEF Summaries, datasets
  <2>8. QED BY <2>5, <2>6, <2>7 DEF Keyed
<1>2. CASE e = "releases"
  <2> DEFINE released == ReleasedInOrder(manifests)
             releases == ReleaseSummaries(manifests)
  <2>1. releases = IF released = << >> THEN << StaticRelease >>
                   ELSE [i \in DOMAIN released |->
                           ReleaseSummary(released[i], manifests[released[i]])]
    BY Zenon DEF ReleaseSummaries, ReleasedInOrder, Chosen
  <2>2. Summaries(e, manifests) = releases
    BY <1>2 DEF Summaries
  <2>3. CASE released = << >>
    <3>1. DOMAIN releases = {1}
      BY <2>1, <2>3
    <3>2. QED BY <2>2, <3>1 DEF Keyed
  <2>4. CASE released # << >>
    <3>1. \A d, m : ReleaseSummary(d, m).id = << d, m.version >>
      BY DEF ReleaseSummary
    <3>2. \A i, j \in DOMAIN released : i # j => released[i] # released[j]
      BY ReleasedOnce
    <3>3. releases = [i \in DOMAIN released |->
                        ReleaseSummary(released[i], manifests[released[i]])]
      BY <2>1, <2>4
    <3> HIDE DEF released, releases
    <3>4. /\ DOMAIN releases = DOMAIN released
          /\ \A i \in DOMAIN releases :
               releases[i].id = << released[i], manifests[released[i]].version >>
      BY <3>1, <3>3
    <3>5. \A i, j \in DOMAIN releases : i # j => releases[i].id # releases[j].id
      BY <3>2, <3>4
    <3>6. QED BY <2>2, <3>5 DEF Keyed, releases
  <2>5. QED BY <2>3, <2>4
<1>3. QED BY <1>1, <1>2 DEF DiscoveryEndpoint

\* A release that gives one list gives records with identifiers of their own.
LEMMA RecordsDistinct ==
  ASSUME IdentifiersDistinct, BrowsingInv, session # None, NEW m \in DOMAIN pages,
         Succeeded(pages[m].answer),
         OneList(session.endpoint, pages[m].release, session.raw)
  PROVE  Keyed(Records(session.endpoint, Content[pages[m].release]))
<1> DEFINE e == session.endpoint
           world == Content[pages[m].release]
           raw == [session.raw EXCEPT !.page = m]
<1>1. /\ e \in Endpoint /\ pages[m].release \in Release
      /\ IsAnswer(e, raw, world, pages[m].row, pages[m].answer)
  BY PagesAnswer
<1>2. CASE e \in DiscoveryEndpoint
  <2>1. Records(e, world) = Summaries(e, Manifests(world))
    BY <1>2 DEF Records, Summaries, DiscoveryEndpoint, GeographyEndpoint
  <2>2. QED BY <1>2, <2>1, SummariesDistinct
<1>3. CASE e \in GeographyEndpoint
  BY <1>3 DEF OneList, DistinctKeys, Keyed
<1>4. CASE e \in RecordEndpoint /\ e \notin GeographyEndpoint
  <2>1. e \notin DiscoveryEndpoint
    BY <1>4, KindsOfEndpoints DEF RecordEndpoint
  <2>2. RecordAnswer(e, raw, world, pages[m].row, pages[m].answer)
    BY <1>1, <2>1 DEF IsAnswer
  <2>3. /\ pages[m].answer # ServerError
        /\ pages[m].answer # Failure(400)
    BY DEF Succeeded, ServerError, Failure
  <2>4. Broken \notin ReadBy(e, world, pages[m].row)
    BY <2>2, <2>3 DEF RecordAnswer
  <2>5. pages[m].row = None
    BY <1>4, PagesAnswer DEF IsRow
  <2>6. QED BY <1>1, <1>4, <2>4, <2>5 DEF IdentifiersDistinct
<1>5. QED BY <1>1, <1>2, <1>3, <1>4 DEF Endpoint

\* A walk whose pages all name one release has seen the pages of its list, from
\* the first to the last.
LEMMA WholeWalk ==
  ASSUME BrowsingInv, Over, \A m, n \in DOMAIN pages : SameRelease(m, n),
         OneList(session.endpoint, pages[session.page].release, session.raw),
         session.page = 1
  PROVE  LET e == session.endpoint
             records == Records(e, Content[pages[1].release])
             query == ParsedQuery(session.raw)
             s == ListOf(e, records, query)
         IN  /\ session # None /\ 1 \in DOMAIN pages /\ query.limit \in Nat \ {0}
             /\ Shows(s, e, records, Matches(e, records, query), query.order)
             /\ \E last \in Nat :
                  /\ DOMAIN pages = 1 .. last
                  /\ TotalPages(Len(s), query.limit) <= last
             /\ \A n \in DOMAIN pages :
                  Items(n) = PaginateOffsetItems(s, n, query.limit)
<1> DEFINE e == session.endpoint
           records == Records(e, Content[pages[1].release])
           query == ParsedQuery(session.raw)
           s == ListOf(e, records, query)
           limit == query.limit
<1>1. session # None /\ 1 \in DOMAIN pages
  BY DEF Over, BrowsingInv, WalkInv
<1>2. Succeeded(pages[1].answer) /\ (session.way = "back" \/ Pagination(1).nextPage = None)
  <2>1. SameRelease(1, 1)
    BY <1>1
  <2>2. Succeeded(pages[1].answer)
    BY <2>1 DEF SameRelease
  <2>3. QED BY <1>1, <2>2 DEF Over, OnPage, Turned
<1>3. PICK first, last \in Int :
        /\ DOMAIN pages = first .. last
        /\ session.way = "forward" => session.page = last
        /\ session.way = "back" => Pagination(last).nextPage = None
  BY <1>1 DEF BrowsingInv, WalkInv
<1>4. \A n \in DOMAIN pages :
        /\ n \in Nat \ {0} /\ limit \in PageLimits
        /\ Shows(s, e, records, Matches(e, records, query), query.order)
        /\ IsPageOf(s, [page |-> n, limit |-> limit], pages[n].answer.data)
  BY <1>1, PageOfList
<1> HIDE DEF s, limit, query, records, e
<1>5. DOMAIN pages = 1 .. last /\ last \in Nat \ {0} /\ last \in DOMAIN pages
  <2>1. first <= 1 /\ 1 <= last
    BY <1>1, <1>3
  <2>2. first \in DOMAIN pages /\ last \in DOMAIN pages
    BY <1>3, <2>1
  <2>3. first \in Nat \ {0}
    BY <1>4, <2>2
  <2>4. first = 1
    BY <2>1, <2>3
  <2>5. QED BY <1>3, <2>1, <2>2, <2>4
<1>6. Pagination(last).nextPage = None
  BY <1>1, <1>2, <1>3 DEF BrowsingInv, WalkInv, Walk
<1>7. PICK S : s \in Seq(S)
  BY <1>1, <1>4, ShownSequence
<1>8. limit \in Nat \ {0} /\ Len(s) \in Nat
  BY <1>1, <1>4, <1>7, LimitFacts, LenProperties
<1>9. \A n \in DOMAIN pages :
        /\ Items(n) = PaginateOffsetItems(s, n, limit)
        /\ Pagination(n) = BuildOffsetPagination(Len(s), n, limit, Len(Items(n)))
  BY <1>4 DEF IsPageOf, Items, Pagination
<1>10. TotalPages(Len(s), limit) \in Nat
  BY <1>8, PagesOfTotal
<1>11. Pagination(last).nextPage
         = IF last < TotalPages(Len(s), limit) THEN last + 1 ELSE None
  BY <1>5, <1>9 DEF BuildOffsetPagination
<1>12. TotalPages(Len(s), limit) <= last
  BY <1>5, <1>6, <1>10, <1>11, LimitFacts
<1>13. QED BY <1>1, <1>4, <1>5, <1>8, <1>9, <1>12 DEF s, limit, query, records, e

\* The pages of a list, from the first to the last, show what is chosen, each
\* once and in order.
LEMMA PagesShowAll ==
  ASSUME NEW s, NEW e, NEW records, NEW chosen \in SUBSET (DOMAIN records), NEW order,
         Shows(s, e, records, chosen, order), Keyed(records),
         NEW limit \in Nat \ {0}, NEW last \in Nat, TotalPages(Len(s), limit) <= last
  PROVE  LET OfPage(n) == PaginateOffsetItems(s, n, limit)
         IN  /\ \A n \in 1 .. last : \A k \in DOMAIN OfPage(n) :
                  \E i \in chosen : OfPage(n)[k] = records[i]
             /\ \A i \in chosen : \E n \in 1 .. last : \E k \in DOMAIN OfPage(n) :
                  OfPage(n)[k] = records[i]
             /\ \A m, n \in 1 .. last :
                  \A k \in DOMAIN OfPage(m), l \in DOMAIN OfPage(n) :
                    m < n \/ (m = n /\ k < l)
                    => /\ OfPage(m)[k] # OfPage(n)[l]
                       /\ ~ Less(e, OfPage(n)[l], OfPage(m)[k], order)
<1> DEFINE OfPage(n) == PaginateOffsetItems(s, n, limit)
           S == { records[i] : i \in chosen }
           total == Cardinality(chosen)
<1>1. s \in Seq(S) /\ total \in Nat /\ Len(s) = total /\ DOMAIN s = 1 .. total
  BY ShownSequence
<1>2. PICK f \in [1 .. total -> chosen] :
        /\ s = [k \in 1 .. total |-> records[f[k]]]
        /\ \A i \in chosen : \E k \in 1 .. total : f[k] = i
        /\ \A k, l \in 1 .. total :
             k < l => f[k] # f[l] /\ ~ Less(e, records[f[l]], records[f[k]], order)
  BY DEF Shows
<1> HIDE DEF S, total
<1>3. \A p \in 1 .. total : s[p] = records[f[p]] /\ f[p] \in chosen
  BY <1>2
<1>4. \A n \in 1 .. last :
        /\ n \in Nat \ {0}
        /\ OfPage(n) \in Seq(S)
        /\ DOMAIN OfPage(n) = 1 .. Len(OfPage(n))
        /\ \A k \in 1 .. Len(OfPage(n)) :
             (n - 1) * limit + k \in 1 .. total /\ OfPage(n)[k] = s[(n - 1) * limit + k]
  <2> SUFFICES ASSUME NEW n \in 1 .. last
               PROVE  /\ n \in Nat \ {0} /\ OfPage(n) \in Seq(S)
                      /\ DOMAIN OfPage(n) = 1 .. Len(OfPage(n))
                      /\ \A k \in 1 .. Len(OfPage(n)) :
                           /\ (n - 1) * limit + k \in 1 .. total
                           /\ OfPage(n)[k] = s[(n - 1) * limit + k]
    OBVIOUS
  <2>1. n \in Nat \ {0}
    OBVIOUS
  <2>2. Holds(OfPage(n), s, S, (n - 1) * limit, limit)
    BY <1>1, <2>1, PageHolds
  <2> HIDE DEF OfPage
  <2>3. OfPage(n) \in Seq(S)
    BY <2>2 DEF Holds
  <2>4. QED BY <1>1, <2>1, <2>2, <2>3, LenProperties DEF Holds
<1>5. ASSUME NEW n \in 1 .. last, NEW k \in DOMAIN OfPage(n)
      PROVE  \E i \in chosen : OfPage(n)[k] = records[i]
  <2> DEFINE p == (n - 1) * limit + k
  <2>1. p \in 1 .. total /\ OfPage(n)[k] = s[p]
    BY <1>4
  <2> HIDE DEF p, OfPage
  <2>2. QED BY <1>3, <2>1
<1>6. ASSUME NEW i \in chosen
      PROVE  \E n \in 1 .. last : \E k \in DOMAIN OfPage(n) : OfPage(n)[k] = records[i]
  <2>1. PICK p \in 1 .. total : f[p] = i
    BY <1>2
  <2>2. p \in 1 .. Len(s) /\ s[p] = records[i]
    BY <1>1, <1>3, <2>1
  <2>3. PICK n \in 1 .. TotalPages(Len(s), limit) :
          \E k \in 1 .. Len(OfPage(n)) : OfPage(n)[k] = s[p]
    BY <1>1, <2>2, PlaceOnPage
  <2>4. n \in 1 .. last
    <3>1. TotalPages(Len(s), limit) \in Nat
      BY <1>1, PagesOfTotal
    <3>2. QED BY <2>3, <3>1
  <2> HIDE DEF OfPage
  <2>5. QED BY <1>4, <2>2, <2>3, <2>4
<1>7. ASSUME NEW m \in 1 .. last, NEW n \in 1 .. last,
             NEW k \in DOMAIN OfPage(m), NEW l \in DOMAIN OfPage(n),
             m < n \/ (m = n /\ k < l)
      PROVE  /\ OfPage(m)[k] # OfPage(n)[l]
             /\ ~ Less(e, OfPage(n)[l], OfPage(m)[k], order)
  <2> DEFINE p == (m - 1) * limit + k
             q == (n - 1) * limit + l
  <2>1. /\ p \in 1 .. total /\ OfPage(m)[k] = s[p]
        /\ q \in 1 .. total /\ OfPage(n)[l] = s[q]
    BY <1>4
  <2>2. p < q
    <3>1. /\ m \in Nat \ {0} /\ n \in Nat \ {0}
          /\ k \in 1 .. Len(PaginateOffsetItems(s, m, limit))
          /\ l \in 1 .. Len(PaginateOffsetItems(s, n, limit))
      BY <1>4
    <3> HIDE DEF OfPage
    <3>2. QED BY <1>1, <1>7, <3>1, PagesInOrder
  <2> HIDE DEF p, q, OfPage
  <2>3. /\ f[p] # f[q] /\ ~ Less(e, records[f[q]], records[f[p]], order)
    BY <1>2, <2>1, <2>2
  <2>4. records[f[p]] # records[f[q]]
    BY <1>3, <2>1, <2>3 DEF Keyed
  <2>5. QED BY <1>3, <2>1, <2>3, <2>4
<1>8. QED BY <1>5, <1>6, <1>7

\* A walk sees every matching record once and in order, if one release answers
\* all of it (paginateOffsetItems, the sorts and the links together).
THEOREM WalksAreExact ==
  ASSUME IdentifiersDistinct
  PROVE  Spec => []WalkIsExact
<1>1. ASSUME BrowsingInv PROVE WalkIsExact
  <2> SUFFICES ASSUME Over, \A m, n \in DOMAIN pages : SameRelease(m, n),
                      OneList(session.endpoint, pages[session.page].release, session.raw),
                      session.page = 1
               PROVE  LET e == session.endpoint
                          query == ParsedQuery(session.raw)
                          records == Records(e, Content[pages[1].release])
                          seen == UNION { { << n, k >> : k \in DOMAIN Items(n) } :
                                          n \in DOMAIN pages }
                          Item(at) == Items(at[1])[at[2]]
                          Before(x, y) == x[1] < y[1] \/ (x[1] = y[1] /\ x[2] < y[2])
                      IN  /\ { Item(at) : at \in seen } =
                                { records[i] : i \in { j \in DOMAIN records :
                                                        Matching(e, records[j], query) } }
                          /\ \A x, y \in seen :
                               Before(x, y) => /\ Item(x) # Item(y)
                                               /\ ~ Less(e, Item(y), Item(x), query.order)
    BY DEF WalkIsExact
  <2> DEFINE e == session.endpoint
             query == ParsedQuery(session.raw)
             records == Records(e, Content[pages[1].release])
             seen == UNION { { << n, k >> : k \in DOMAIN Items(n) } : n \in DOMAIN pages }
             Item(at) == Items(at[1])[at[2]]
             Before(x, y) == x[1] < y[1] \/ (x[1] = y[1] /\ x[2] < y[2])
             chosen == Matches(e, records, query)
             s == ListOf(e, records, query)
             limit == query.limit
  <2>1. /\ session # None /\ 1 \in DOMAIN pages /\ limit \in Nat \ {0}
        /\ Shows(s, e, records, chosen, query.order)
        /\ \E last \in Nat : /\ DOMAIN pages = 1 .. last
                             /\ TotalPages(Len(s), limit) <= last
        /\ \A n \in DOMAIN pages : Items(n) = PaginateOffsetItems(s, n, limit)
    BY <1>1, WholeWalk
  <2>2. PICK last \in Nat : DOMAIN pages = 1 .. last /\ TotalPages(Len(s), limit) <= last
    BY <2>1
  <2>3. Keyed(records)
    <3>1. Succeeded(pages[1].answer)
      BY <2>1 DEF SameRelease
    <3>2. QED BY <1>1, <2>1, <3>1, RecordsDistinct
  <2>4. chosen = { j \in DOMAIN records : Matching(e, records[j], query) }
    BY DEF Matches
  <2>5. chosen \in SUBSET (DOMAIN records)
    BY <2>4
  <2> HIDE DEF s, chosen, limit, records, query, e
  <2>6. /\ \A n \in 1 .. last : \A k \in DOMAIN Items(n) :
             \E i \in chosen : Items(n)[k] = records[i]
        /\ \A i \in chosen : \E n \in 1 .. last : \E k \in DOMAIN Items(n) :
             Items(n)[k] = records[i]
        /\ \A m, n \in 1 .. last : \A k \in DOMAIN Items(m), l \in DOMAIN Items(n) :
             m < n \/ (m = n /\ k < l)
             => /\ Items(m)[k] # Items(n)[l]
                /\ ~ Less(e, Items(n)[l], Items(m)[k], query.order)
    <3> DEFINE OfPage(n) == PaginateOffsetItems(s, n, limit)
    <3>1. /\ \A n \in 1 .. last : \A k \in DOMAIN OfPage(n) :
               \E i \in chosen : OfPage(n)[k] = records[i]
          /\ \A i \in chosen : \E n \in 1 .. last : \E k \in DOMAIN OfPage(n) :
               OfPage(n)[k] = records[i]
          /\ \A m, n \in 1 .. last : \A k \in DOMAIN OfPage(m), l \in DOMAIN OfPage(n) :
               m < n \/ (m = n /\ k < l)
               => /\ OfPage(m)[k] # OfPage(n)[l]
                  /\ ~ Less(e, OfPage(n)[l], OfPage(m)[k], query.order)
      BY <2>1, <2>2, <2>3, <2>5, PagesShowAll
    <3>2. \A n \in 1 .. last : Items(n) = OfPage(n)
      BY <2>1, <2>2
    <3> HIDE DEF OfPage
    <3>3. QED BY <3>1, <3>2
  <2>7. \A at : at \in seen <=> \E n \in 1 .. last : \E k \in DOMAIN Items(n) : at = << n, k >>
    BY <2>2
  <2>8. \A n, k : Item(<< n, k >>) = Items(n)[k]
    OBVIOUS
  <2> HIDE DEF seen
  <2>9. { Item(at) : at \in seen } = { records[i] : i \in chosen }
    <3>1. ASSUME NEW at \in seen
          PROVE  \E i \in chosen : Item(at) = records[i]
      <4>0. PICK n \in 1 .. last : \E k \in DOMAIN Items(n) : at = << n, k >>
        BY <2>7
      <4>1. PICK k \in DOMAIN Items(n) : at = << n, k >>
        BY <4>0
      <4>2. QED BY <2>6, <2>8, <4>1
    <3>2. ASSUME NEW i \in chosen
          PROVE  \E at \in seen : Item(at) = records[i]
      <4>0. PICK n \in 1 .. last : \E k \in DOMAIN Items(n) : Items(n)[k] = records[i]
        BY <2>6
      <4>1. PICK k \in DOMAIN Items(n) : Items(n)[k] = records[i]
        BY <4>0
      <4>2. << n, k >> \in seen
        BY <2>7
      <4>3. QED BY <2>8, <4>1, <4>2
    <3> HIDE DEF Item
    <3>3. QED BY <3>1, <3>2
  <2>10. ASSUME NEW x \in seen, NEW y \in seen, Before(x, y)
         PROVE  Item(x) # Item(y) /\ ~ Less(e, Item(y), Item(x), query.order)
    <3>1. PICK m \in 1 .. last : \E k \in DOMAIN Items(m) : x = << m, k >>
      BY <2>7
    <3>2. PICK n \in 1 .. last : \E l \in DOMAIN Items(n) : y = << n, l >>
      BY <2>7
    <3>3. PICK k \in DOMAIN Items(m) : x = << m, k >>
      BY <3>1
    <3>4. PICK l \in DOMAIN Items(n) : y = << n, l >>
      BY <3>2
    <3>5. m < n \/ (m = n /\ k < l)
      BY <2>10, <3>3, <3>4
    <3>6. Item(x) = Items(m)[k] /\ Item(y) = Items(n)[l]
      BY <2>8, <3>3, <3>4
    <3>7. QED BY <2>6, <3>5, <3>6
  <2>11. QED BY <2>4, <2>9, <2>10 DEF seen, records, query, e
<1>2. QED BY <1>1, BrowsingIsInvariant, PTL

-----------------------------------------------------------------------------
(* Details.                                                                *)

\* The artifacts of an endpoint can be read.
AllRead(e, world) ==
  CASE e \in GeographyEndpoint -> world.geo[e] # Broken
    [] e = "universities" -> ReadUniversities(world.uni) # Broken
    [] e \in TransportEndpoint -> ReadTransport(world.trn) # Broken
    [] e \in TelecomEndpoint -> ReadTelecom(world.tel) # Broken

\* An endpoint whose list succeeds has read its artifacts.
LEMMA ReadForList ==
  ASSUME NEW world \in World, \A d \in DOMAIN world : Complete(world[d]),
         NEW e \in RecordEndpoint, NEW t,
         t # None => e \in GeographyEndpoint /\ Importable(world.geo), NEW raw \in RawQuery(FilterOf(e)),
         NEW a \in ListAnswers(e, raw, world, t), Succeeded(a)
  PROVE  AllRead(e, world)
<1>1. a # Failure(400) /\ a # ServerError
  BY DEF Succeeded, Failure, ServerError
<1>2. CASE e \in GeographyEndpoint
  <2>1. RecordAnswer(e, raw, world, t, a)
    BY RecordLists
  <2>2. Broken \notin ReadBy(e, world, t)
    BY <1>1, <2>1 DEF RecordAnswer
  <2>3. t # None \/ world.geo[e] # Broken
    <3>1. ReadBy(e, world, None) = {world.geo[e]}
      BY <1>2, KindsOfEndpoints DEF ReadBy
    <3>2. QED BY <2>2, <3>1
  <2>4. world.geo[e] # Broken
    BY <1>2, <2>3, CompleteWorld, GeographyRead
  <2>5. QED BY <1>2, <2>4 DEF AllRead, GeographyEndpoint, TransportEndpoint, TelecomEndpoint
<1>3. CASE e = "universities"
  <2>1. a = UniversitiesController(raw, world.uni)
    BY <1>3, KindsOfEndpoints DEF ListAnswers
  <2>2. ReadUniversities(world.uni) # Broken
    BY <1>1, <2>1, ResponseOfError DEF UniversitiesController, ListUniversities
  <2>3. QED BY <1>3, <2>2, KindsOfEndpoints DEF AllRead
<1>4. CASE e \in TransportEndpoint
  <2>1. a = TransportList(e, raw, world.trn)
    BY <1>4, KindsOfEndpoints DEF ListAnswers
  <2>2. ReadTransport(world.trn) # Broken
    BY <1>1, <1>4, <2>1, ResponseOfError
    DEF TransportList, LocationsController, StatusSnapshotsController,
        RouteSnapshotsController, TransportPages, ListLocations, ListStatusSnapshots,
        ListRouteSnapshots, TransportEndpoint
  <2>3. QED BY <1>4, <2>2, KindsOfEndpoints DEF AllRead
<1>5. CASE e \in TelecomEndpoint
  <2>1. a = TelecomList(e, raw, world.tel)
    BY <1>5, KindsOfEndpoints DEF ListAnswers
  <2>2. ReadTelecom(world.tel) # Broken
    BY <1>1, <1>5, <2>1, ResponseOfError
    DEF TelecomList, CountryNumberingPlansController, OperatorsController,
        FixedAreaCodesController, MobilePrefixesController, NumberRangesController,
        TelecomPages, ListCountryNumberingPlans, ListOperators, ListFixedAreaCodes,
        ListMobilePrefixes, ListNumberRanges, TelecomEndpoint
  <2>3. QED BY <1>5, <2>2, KindsOfEndpoints DEF AllRead
<1>6. QED BY <1>2, <1>3, <1>4, <1>5 DEF RecordEndpoint

\* What has been read is a list of records.
LEMMA RecordsRead ==
  ASSUME NEW world \in World, \A d \in DOMAIN world : Complete(world[d]),
         NEW e \in RecordEndpoint, AllRead(e, world)
  PROVE  /\ \E S : Records(e, world) \in Seq(S)
         /\ Broken \notin ReadBy(e, world, None)
<1>1. CASE e \in GeographyEndpoint
  <2>1. world.geo[e] # Broken
    BY <1>1, KindsOfEndpoints DEF AllRead
  <2>2. QED BY <1>1, <2>1, CompleteWorld, GeographyRead
<1>2. CASE e = "universities"
  <2>1. ReadUniversities(world.uni) # Broken
    BY <1>2, KindsOfEndpoints DEF AllRead
  <2>2. Records(e, world) = ReadUniversities(world.uni)
    BY <1>2, KindsOfEndpoints DEF Records
  <2>3. QED BY <1>2, <2>1, <2>2, CompleteWorld, UniversitiesRead
<1>3. CASE e \in TransportEndpoint
  <2> DEFINE read == ReadTransport(world.trn)
  <2>1. read # Broken
    BY <1>3, KindsOfEndpoints DEF AllRead
  <2>2. Records(e, world) \in {read.locations, read.statusSnapshots, read.routeSnapshots}
    BY <1>3, KindsOfEndpoints DEF Records, TransportEndpoint
  <2> HIDE DEF read
  <2>3. QED BY <1>3, <2>1, <2>2, CompleteWorld, TransportRead DEF read
<1>4. CASE e \in TelecomEndpoint
  <2> DEFINE read == ReadTelecom(world.tel)
  <2>1. read # Broken
    BY <1>4, KindsOfEndpoints DEF AllRead
  <2>2. Records(e, world)
          \in {read.plans, read.operators, read.areaCodes, read.prefixes, read.ranges}
    BY <1>4, KindsOfEndpoints DEF Records, TelecomEndpoint
  <2> HIDE DEF read
  <2>3. QED BY <1>4, <2>1, <2>2, CompleteWorld, TelecomRead DEF read
<1>5. QED BY <1>1, <1>2, <1>3, <1>4 DEF RecordEndpoint

\* A detail is looked up among the records of the list, whether they are in the
\* artifact or in the table.
LEMMA DetailsAnswer ==
  ASSUME NEW world \in World, \A d \in DOMAIN world : Complete(world[d]),
         NEW e \in RecordEndpoint, NEW t,
         t # None => e \in GeographyEndpoint /\ Importable(world.geo),
         AllRead(e, world), NEW id
  PROVE  DetailAnswer(e, id, world, t)
           = BuildResponse(Detail(Records(e, world), id, ContextOf(e, world, t)))
<1>1. CASE e \in GeographyEndpoint
  <2> DEFINE geo == [world.geo EXCEPT !.row = t]
  <2>1. DetailAnswer(e, id, world, t) = GeographyDetail(e, id, geo)
    BY <1>1, KindsOfEndpoints DEF DetailAnswer
  <2>2. IsMarked(geo, world, t)
    BY MarkedImported
  <2> HIDE DEF geo
  <2>3. /\ world.geo[e] # Broken
        /\ ReadGeography(world.geo, world.geo[e]) = world.geo[e]
        /\ Records(e, world) = DataOf(world.geo[e])
        /\ t # None => Records(e, world) = world.geo[e]
    <3>1. world.geo[e] # Broken
      BY <1>1, KindsOfEndpoints DEF AllRead
    <3>2. QED BY <1>1, <3>1, CompleteWorld, GeographyRead
  <2>4. /\ geo[e] = world.geo[e]
        /\ ReadGeography(geo, geo[e]) = world.geo[e]
        /\ GeographyContext(geo) = ContextOf(e, world, t)
    BY <1>1, <2>2, <2>3, KindsOfEndpoints DEF IsMarked, ReadGeography, ContextOf
  <2>5. geo.row = t
    BY <2>2 DEF IsMarked
  <2>6. IF Imported(geo) THEN FindUnique(geo, geo[e], id) = Detail(Records(e, world), id, ContextOf(e, world, t))
                        ELSE DetailFromArtifact(geo, geo[e], id) = Detail(Records(e, world), id, ContextOf(e, world, t))
    BY <2>3, <2>4, <2>5 DEF FindUnique, DetailFromArtifact, Imported
  <2>7. GeographyDetail(e, id, geo)
          = BuildResponse(IF Imported(geo) THEN FindUnique(geo, geo[e], id)
                                          ELSE DetailFromArtifact(geo, geo[e], id))
    <3>1. CASE e = "governorates"
      BY <3>1 DEF GeographyDetail, GovernorateController, GetGovernorate
    <3>2. CASE e = "districts"
      BY <3>2 DEF GeographyDetail, DistrictController, GetDistrict
    <3>3. CASE e = "subdistricts"
      BY <3>3 DEF GeographyDetail, SubdistrictController, GetSubdistrict
    <3>4. CASE e = "localities"
      BY <3>4 DEF GeographyDetail, LocalityController, GetLocality
    <3>5. QED BY <1>1, <3>1, <3>2, <3>3, <3>4 DEF GeographyEndpoint
  <2>8. QED BY <2>1, <2>6, <2>7
<1>2. CASE e = "universities"
  <2>1. DetailAnswer(e, id, world, t) = UniversityController(id, world.uni)
    BY <1>2, KindsOfEndpoints DEF DetailAnswer
  <2>2. ReadUniversities(world.uni) # Broken
    BY <1>2, KindsOfEndpoints DEF AllRead
  <2>3. Records(e, world) = ReadUniversities(world.uni)
    BY <1>2, KindsOfEndpoints DEF Records
  <2>4. ContextOf(e, world, t) = UniversitiesContext(world.uni)
    BY <1>2, KindsOfEndpoints DEF ContextOf
  <2>5. QED BY <2>1, <2>2, <2>3, <2>4 DEF UniversityController, GetUniversity
<1>3. CASE e \in TransportEndpoint
  <2>1. DetailAnswer(e, id, world, t) = TransportDetail(e, id, world.trn)
    BY <1>3, KindsOfEndpoints DEF DetailAnswer
  <2>2. ReadTransport(world.trn) # Broken
    BY <1>3, KindsOfEndpoints DEF AllRead
  <2>3. ContextOf(e, world, t) = TransportContext(world.trn)
    BY <1>3, KindsOfEndpoints DEF ContextOf
  <2>4. CASE e = "locations"
    <3>1. Records(e, world) = ReadTransport(world.trn).locations
      BY <2>4 DEF Records, GeographyEndpoint
    <3>2. QED BY <2>1, <2>2, <2>3, <2>4, <3>1
          DEF TransportDetail, LocationController, GetLocation
  <2>5. CASE e = "status-snapshots"
    <3>1. Records(e, world) = ReadTransport(world.trn).statusSnapshots
      BY <2>5 DEF Records, GeographyEndpoint
    <3>2. QED BY <2>1, <2>2, <2>3, <2>5, <3>1
          DEF TransportDetail, StatusSnapshotController, GetStatusSnapshot
  <2>6. CASE e = "route-snapshots"
    <3>1. Records(e, world) = ReadTransport(world.trn).routeSnapshots
      BY <2>6 DEF Records, GeographyEndpoint
    <3>2. QED BY <2>1, <2>2, <2>3, <2>6, <3>1
          DEF TransportDetail, RouteSnapshotController, GetRouteSnapshot
  <2>7. QED BY <1>3, <2>4, <2>5, <2>6 DEF TransportEndpoint
<1>4. CASE e \in TelecomEndpoint
  <2>1. DetailAnswer(e, id, world, t) = TelecomDetail(e, id, world.tel)
    BY <1>4, KindsOfEndpoints DEF DetailAnswer
  <2>2. ReadTelecom(world.tel) # Broken
    BY <1>4, KindsOfEndpoints DEF AllRead
  <2>3. ContextOf(e, world, t) = TelecomContext(world.tel)
    BY <1>4, KindsOfEndpoints DEF ContextOf
  <2>4. CASE e = "country-numbering-plans"
    <3>1. Records(e, world) = ReadTelecom(world.tel).plans
      BY <2>4 DEF Records, GeographyEndpoint
    <3>2. QED BY <2>1, <2>2, <2>3, <2>4, <3>1
          DEF TelecomDetail, CountryNumberingPlanController, GetCountryNumberingPlan
  <2>5. CASE e = "operators"
    <3>1. Records(e, world) = ReadTelecom(world.tel).operators
      BY <2>5 DEF Records, GeographyEndpoint
    <3>2. QED BY <2>1, <2>2, <2>3, <2>5, <3>1
          DEF TelecomDetail, OperatorController, GetOperator
  <2>6. CASE e = "fixed-area-codes"
    <3>1. Records(e, world) = ReadTelecom(world.tel).areaCodes
      BY <2>6 DEF Records, GeographyEndpoint
    <3>2. QED BY <2>1, <2>2, <2>3, <2>6, <3>1
          DEF TelecomDetail, FixedAreaCodeController, GetFixedAreaCode
  <2>7. CASE e = "mobile-prefixes"
    <3>1. Records(e, world) = ReadTelecom(world.tel).prefixes
      BY <2>7 DEF Records, GeographyEndpoint
    <3>2. QED BY <2>1, <2>2, <2>3, <2>7, <3>1
          DEF TelecomDetail, MobilePrefixController, GetMobilePrefix
  <2>8. CASE e = "number-ranges"
    <3>1. Records(e, world) = ReadTelecom(world.tel).ranges
      BY <2>8 DEF Records, GeographyEndpoint
    <3>2. QED BY <2>1, <2>2, <2>3, <2>8, <3>1
          DEF TelecomDetail, NumberRangeController, GetNumberRange
  <2>9. QED BY <1>4, <2>4, <2>5, <2>6, <2>7, <2>8 DEF TelecomEndpoint
<1>5. QED BY <1>1, <1>2, <1>3, <1>4 DEF RecordEndpoint

\* A record in the envelope of its dataset.
Opened(item, context) ==
  [status |-> 200,
   data |-> [item |-> item, dataset |-> context.dataset, release |-> context.release,
             sources |-> context.sources]]

\* A detail is the record of its identifier, in the envelope of its dataset.
LEMMA DetailOfRecords ==
  ASSUME NEW S, NEW records \in Seq(S), Keyed(records), NEW context
  PROVE  /\ \A i \in DOMAIN records :
              BuildResponse(Detail(records, records[i].id, context))
                = Opened(records[i], context)
         /\ \A id : (\A i \in DOMAIN records : records[i].id # id)
                    => BuildResponse(Detail(records, id, context)) = NotFound
<1>1. ASSUME NEW i \in DOMAIN records
      PROVE  BuildResponse(Detail(records, records[i].id, context))
               = Opened(records[i], context)
  <2> DEFINE positions == { j \in DOMAIN records : records[j].id = records[i].id }
             data == [item |-> records[i], dataset |-> context.dataset,
                      release |-> context.release, sources |-> context.sources]
  <2>1. positions = {i}
    BY DEF Keyed
  <2>2. i \in Int
    BY LenProperties
  <2>3. (CHOOSE k \in positions : \A j \in positions : k <= j) = i
    BY <2>1, <2>2
  <2>4. Detail(records, records[i].id, context) = data
    BY <2>1, <2>3 DEF Detail
  <2>5. ~ Refused(data)
    BY DEF Refused
  <2> HIDE DEF data
  <2>6. BuildResponse(data) = [status |-> 200, data |-> data]
    BY <2>5 DEF BuildResponse
  <2>7. QED BY <2>4, <2>6 DEF data, Opened
<1>2. ASSUME NEW id, \A i \in DOMAIN records : records[i].id # id
      PROVE  BuildResponse(Detail(records, id, context)) = NotFound
  <2>1. { j \in DOMAIN records : records[j].id = id } = {}
    BY <1>2
  <2>2. Detail(records, id, context) = NotFound
    BY <2>1 DEF Detail
  <2>3. Refused(NotFound)
    BY DEF Refused, NotFound, Failure
  <2>4. QED BY <2>2, <2>3 DEF BuildResponse
<1>3. QED BY <1>1, <1>2

\* What a page of records shows is among the records of its release.
LEMMA ItemsAreRecords ==
  ASSUME NEW world, NEW e, NEW Filters, NEW raw \in RawQuery(Filters), NEW t, NEW a,
         RecordAnswer(e, raw, world, t, a), Succeeded(a)
  PROVE  \A i \in DOMAIN a.data.items :
           \E j \in DOMAIN Records(e, world) : a.data.items[i] = Records(e, world)[j]
<1> DEFINE query == ParsedQuery(raw)
           records == Records(e, world)
           chosen == IF t # None THEN Rows(e, records, query) ELSE Matches(e, records, query)
           S == { records[i] : i \in chosen }
<1>1. a # Failure(400) /\ a # ServerError
  BY DEF Succeeded, Failure, ServerError
<1>2. PICK s : /\ Shows(s, e, records, chosen, query.order)
               /\ a = [status |-> 200, data |-> PageOf(s, query, ContextOf(e, world, t))]
  BY <1>1 DEF RecordAnswer
<1>3. ValidQuery(raw)
  BY <1>1 DEF RecordAnswer
<1>4. query.page \in Nat \ {0} /\ query.limit \in Nat \ {0}
  BY <1>3, ParsedQueryType, LimitFacts
<1>5. a.data.items = PaginateOffsetItems(s, query.page, query.limit)
  <2>1. a.data = PageOf(s, query, ContextOf(e, world, t))
    BY <1>2
  <2>2. QED BY <2>1 DEF PageOf
<1>6. chosen \subseteq DOMAIN records
  BY DEF Rows, Matches
<1> HIDE DEF query, chosen
<1>7. s \in Seq(S)
  BY <1>2, ShownSequence
<1> HIDE DEF S, records
<1>8. a.data.items \in Seq(S)
  BY <1>4, <1>5, <1>7, PageContents
<1>9. \A i \in DOMAIN a.data.items : a.data.items[i] \in S
  BY <1>8, ElementsOfSeq
<1>10. QED BY <1>6, <1>9 DEF S, records

\* No record has the identifier that stands for those that no record has.
UnknownIsUnknown ==
  \A r \in Release : \A e \in RecordEndpoint :
    Broken \notin ReadBy(e, Content[r], None)
    => \A i \in DOMAIN Records(e, Content[r]) :
         Records(e, Content[r])[i].id # UnknownId

\* What is told of one version names one version.
LEMMA OneVersion ==
  ASSUME NEW e, NEW world, NEW row, IsRow(e, world, row),
         NEW found, IsRow(e, world, found),
         ContextOf(e, world, row).release # None,
         ContextOf(e, world, found).release # None
  PROVE  ContextOf(e, world, row).release.version
           = ContextOf(e, world, found).release.version
<1>1. CASE e \notin GeographyEndpoint
  <2>1. row = None /\ found = None
    BY <1>1 DEF IsRow
  <2>2. QED BY <2>1
<1>2. CASE e \in GeographyEndpoint
  <2> DEFINE told(t) == IF t # None THEN t ELSE world.geo.manifest
  <2>1. \A t : ContextOf(e, world, t).release = ReleaseContext(told(t))
    BY <1>2, KindsOfEndpoints DEF ContextOf, Context
  <2>2. \A v, d : [version |-> v, releasedAt |-> d].version = v
    OBVIOUS
  <2>3. \A m : ReleaseContext(m) # None => ReleaseContext(m).version = m.version
    BY <2>2 DEF ReleaseContext
  <2>4. told(row).version = world.geo.manifest.version
        /\ told(found).version = world.geo.manifest.version
    BY DEF IsRow
  <2> HIDE DEF told
  <2>5. QED BY <2>1, <2>3, <2>4
<1>3. QED BY <1>1, <1>2

\* Every record of a page opens, with the same data and of the same version,
\* whether the page and the detail came from the artifact or from the tables, and
\* whatever manifest of that version they were imported with; an identifier that
\* no record has is not found.
THEOREM DetailsAgree ==
  ASSUME IdentifiersDistinct, UnknownIsUnknown
  PROVE  Spec => []DetailAgrees
<1>1. ASSUME BrowsingInv PROVE DetailAgrees
  <2> DEFINE n == session.page
             e == session.endpoint
             world == Content[served]
             raw == [session.raw EXCEPT !.page = n]
             a == pages[n].answer
             records == Records(e, world)
             row == pages[n].row
             found == RowFound(e)
             DetailOf(id) == DetailAnswer(e, id, world, found)
  <2> SUFFICES ASSUME OnPage, pages[n].release = served, e \in RecordEndpoint
               PROVE  /\ \A i \in DOMAIN a.data.items :
                           /\ Succeeded(DetailOf(a.data.items[i].id))
                           /\ DetailOf(a.data.items[i].id).data.item = a.data.items[i]
                           /\ row = found =>
                                DetailOf(a.data.items[i].id).data.release = a.data.release
                           /\ DetailOf(a.data.items[i].id).data.release # None
                                /\ a.data.release # None =>
                                DetailOf(a.data.items[i].id).data.release.version
                                  = a.data.release.version
                      /\ DetailOf(UnknownId) = NotFound
    BY DEF DetailAgrees
  <2>1. session # None /\ n \in DOMAIN pages /\ Succeeded(a)
    BY <1>1 DEF OnPage, BrowsingInv, WalkInv
  <2>2. /\ served \in Release /\ raw \in RawQuery(FilterOf(e))
        /\ IsAnswer(e, raw, world, row, a)
        /\ IsRow(e, world, row)
    BY <1>1, <2>1, PagesAnswer
  <2>3. a \in ListAnswers(e, raw, world, row)
    BY <1>1, <2>1 DEF BrowsingInv, WalkInv, IsPage
  <2>4. world \in World /\ \A d \in DOMAIN world : Complete(world[d])
    BY <2>2, ContentFacts
  <2>5. IsRow(e, world, found)
    BY <1>1, RowFoundIsRow DEF BrowsingInv
  <2>6. e \notin DiscoveryEndpoint
    BY KindsOfEndpoints DEF RecordEndpoint
  <2>7. RecordAnswer(e, raw, world, row, a)
    BY <2>2, <2>6 DEF IsAnswer
  <2>8. AllRead(e, world)
    <3> HIDE DEF e, world, raw, a, n, row
    <3>1. QED BY <2>1, <2>2, <2>3, <2>4, ReadForList DEF IsRow
  <2>9. Broken \notin ReadBy(e, world, None) /\ \E S : records \in Seq(S)
    BY <2>4, <2>8, RecordsRead
  <2>10. Keyed(records) /\ \A i \in DOMAIN records : records[i].id # UnknownId
    BY <2>2, <2>9 DEF IdentifiersDistinct, UnknownIsUnknown
  <2>11. a.data.release = ContextOf(e, world, row).release
    BY <2>1, <2>7, ReleaseOfAnswer
  <2>12. \A i \in DOMAIN a.data.items :
           \E j \in DOMAIN records : a.data.items[i] = records[j]
    BY <2>1, <2>2, <2>7, ItemsAreRecords
  <2>13. \A id : DetailOf(id) = BuildResponse(Detail(records, id, ContextOf(e, world, found)))
    <3> HIDE DEF e, world, found
    <3>1. QED BY <2>4, <2>5, <2>8, DetailsAnswer DEF IsRow
  <2> DEFINE context == ContextOf(e, world, found)
  <2>18. /\ row = found => context.release = a.data.release
         /\ context.release # None /\ a.data.release # None =>
              context.release.version = a.data.release.version
    <3> HIDE DEF e, world, row, found, a
    <3>1. QED BY <2>2, <2>5, <2>11, OneVersion
  <2> HIDE DEF records, DetailOf, row, found
  <2>14. PICK S : records \in Seq(S)
    BY <2>9
  <2>15. /\ \A i \in DOMAIN records :
              DetailOf(records[i].id) = Opened(records[i], context)
         /\ DetailOf(UnknownId) = NotFound
    <3> HIDE DEF context
    <3>1. /\ \A i \in DOMAIN records :
               BuildResponse(Detail(records, records[i].id, context))
                 = Opened(records[i], context)
          /\ BuildResponse(Detail(records, UnknownId, context)) = NotFound
      BY <2>10, <2>14, DetailOfRecords
    <3>2. QED BY <2>13, <3>1 DEF context
  <2>16. ASSUME NEW i \in DOMAIN a.data.items
         PROVE  /\ Succeeded(DetailOf(a.data.items[i].id))
                /\ DetailOf(a.data.items[i].id).data.item = a.data.items[i]
                /\ row = found =>
                     DetailOf(a.data.items[i].id).data.release = a.data.release
                /\ DetailOf(a.data.items[i].id).data.release # None
                     /\ a.data.release # None =>
                     DetailOf(a.data.items[i].id).data.release.version
                       = a.data.release.version
    <3>1. PICK j \in DOMAIN records : a.data.items[i] = records[j]
      BY <2>12
    <3> HIDE DEF a
    <3>2. DetailOf(a.data.items[i].id) = Opened(records[j], context)
      BY <2>15, <3>1
    <3> HIDE DEF context
    <3>3. QED BY <2>18, <3>1, <3>2 DEF Succeeded, Opened
  <2>17. QED BY <2>15, <2>16 DEF DetailOf
<1>2. QED BY <1>1, BrowsingIsInvariant, PTL

-----------------------------------------------------------------------------
(* What discovery tells.                                                   *)

\* An entry tells the status and the version of a manifest of each dataset
\* that it stands for, and no version of one without.
LEMMA SummaryTells ==
  ASSUME NEW e \in DiscoveryEndpoint, NEW manifests,
         NEW j \in DOMAIN Summaries(e, manifests),
         NEW d \in IF e = "datasets" THEN {Summaries(e, manifests)[j].id}
                                     ELSE Summaries(e, manifests)[j].datasets
  PROVE  /\ d \in Datasets
         /\ manifests[d] = None => Summaries(e, manifests)[j].version = None
         /\ manifests[d] # None =>
              /\ Summaries(e, manifests)[j].version = manifests[d].version
              /\ Summaries(e, manifests)[j].status = manifests[d].status
<1>1. CASE e = "datasets"
  <2> DEFINE item == EnrichDatasetFromManifest(StaticDataset(DatasetOrder[j]), manifests)
             k == DatasetOrder[j]
  <2>1. Summaries(e, manifests)[j] = item /\ j \in DOMAIN DatasetOrder
    BY <1>1 DEF Summaries, DatasetSummaries
  <2>2. k \in Datasets
    BY <2>1, DatasetOrderFacts, ElementsOfSeq
  <2> HIDE DEF k
  <2>3. item = EnrichDatasetFromManifest(StaticDataset(k), manifests)
    BY DEF k
  <2> HIDE DEF item
  <2>4. /\ item.id = k
        /\ manifests[k] = None => item.version = None
        /\ manifests[k] # None => /\ item.version = manifests[k].version
                                  /\ item.status = manifests[k].status
    BY <2>3 DEF EnrichDatasetFromManifest, StaticDataset
  <2>5. d = k
    BY <1>1, <2>1, <2>4
  <2>6. QED BY <2>1, <2>2, <2>4, <2>5
<1>2. CASE e = "releases"
  <2> DEFINE released == ReleasedInOrder(manifests)
             releases == ReleaseSummaries(manifests)
  <2>1. releases = IF released = << >> THEN << StaticRelease >>
                   ELSE [i \in DOMAIN released |->
                           ReleaseSummary(released[i], manifests[released[i]])]
    BY Zenon DEF ReleaseSummaries, ReleasedInOrder, Chosen
  <2>2. Summaries(e, manifests) = releases
    BY <1>2 DEF Summaries
  <2>3. CASE released = << >>
    <3>1. \A k \in Datasets : manifests[k] = None
      BY <2>3, ReleasedInOrderFacts DEF Released
    <3>2. releases[j] = StaticRelease
      BY <2>1, <2>2, <2>3
    <3>3. /\ Summaries(e, manifests)[j].version = None
          /\ Summaries(e, manifests)[j].datasets = Datasets
      BY <2>2, <3>2 DEF StaticRelease
    <3>4. QED BY <1>2, <3>1, <3>3
  <2>4. CASE released # << >>
    <3> DEFINE k == released[j]
    <3>1. j \in DOMAIN released /\ releases[j] = ReleaseSummary(k, manifests[k])
      BY <2>1, <2>2, <2>4
    <3>2. k \in Datasets /\ manifests[k] # None
      BY <3>1, ReleasedInOrderFacts DEF Released
    <3> HIDE DEF k, releases
    <3>3. /\ releases[j].datasets = {k}
          /\ releases[j].version = manifests[k].version
          /\ releases[j].status = manifests[k].status
      BY <3>1 DEF ReleaseSummary
    <3>4. d = k
      BY <1>2, <2>2, <3>3
    <3>5. QED BY <2>2, <3>2, <3>3, <3>4
  <2>5. QED BY <2>3, <2>4
<1>3. QED BY <1>1, <1>2 DEF DiscoveryEndpoint

\* Manifests of one key have the same status and version.
LEMMA OneKeyTells ==
  ASSUME NEW e \in DiscoveryEndpoint, NEW m, NEW mine,
         CachePayload(e, m) = CachePayload(e, mine), NEW d \in Datasets
  PROVE  /\ m[d] = None <=> mine[d] = None
         /\ m[d] # None => /\ m[d].version = mine[d].version
                           /\ m[d].status = mine[d].status
<1>1. ASSUME DatasetCachePayload(m) = DatasetCachePayload(mine)
      PROVE  /\ Released(m) = Released(mine)
             /\ d \in Released(m) => /\ m[d].version = mine[d].version
                                     /\ m[d].status = mine[d].status
  <2>1. /\ DOMAIN DatasetCachePayload(m) = Released(m)
        /\ DOMAIN DatasetCachePayload(mine) = Released(mine)
    BY DEF DatasetCachePayload
  <2>2. Released(m) = Released(mine)
    BY <1>1, <2>1
  <2>3. ASSUME d \in Released(m)
        PROVE  m[d].version = mine[d].version /\ m[d].status = mine[d].status
    <3>1. /\ DatasetCachePayload(m)[d]
               = << m[d].generatedAt, m[d].status, m[d].version, m[d].publishedAt >>
          /\ DatasetCachePayload(mine)[d]
               = << mine[d].generatedAt, mine[d].status, mine[d].version,
                    mine[d].publishedAt >>
      BY <2>2, <2>3 DEF DatasetCachePayload
    <3>2. QED BY <1>1, <3>1
  <2>4. QED BY <2>2, <2>3
<1>2. ASSUME ReleaseCachePayload(m) = ReleaseCachePayload(mine)
      PROVE  /\ Released(m) = Released(mine)
             /\ d \in Released(m) => /\ m[d].version = mine[d].version
                                     /\ m[d].status = mine[d].status
  <2>1. /\ DOMAIN ReleaseCachePayload(m) = Released(m)
        /\ DOMAIN ReleaseCachePayload(mine) = Released(mine)
    BY DEF ReleaseCachePayload
  <2>2. Released(m) = Released(mine)
    BY <1>2, <2>1
  <2>3. ASSUME d \in Released(m)
        PROVE  m[d].version = mine[d].version /\ m[d].status = mine[d].status
    <3>1. /\ ReleaseCachePayload(m)[d]
               = << m[d].generatedAt, m[d].status, m[d].version, m[d].artifacts >>
          /\ ReleaseCachePayload(mine)[d]
               = << mine[d].generatedAt, mine[d].status, mine[d].version,
                    mine[d].artifacts >>
      BY <2>2, <2>3 DEF ReleaseCachePayload
    <3>2. QED BY <1>2, <3>1
  <2>4. QED BY <2>2, <2>3
<1>3. CachePayload(e, m) = CachePayload(e, mine)
  OBVIOUS
<1>4. \/ DatasetCachePayload(m) = DatasetCachePayload(mine)
      \/ ReleaseCachePayload(m) = ReleaseCachePayload(mine)
  BY <1>3 DEF CachePayload, DiscoveryEndpoint
<1>5. QED BY <1>1, <1>2, <1>4 DEF Released

\* The endpoints of a dataset answer for its manifest.
LEMMA ContextOfDataset ==
  ASSUME NEW world, NEW d \in Datasets, NEW e \in PublicDatasetEndpoints[d],
         NEW row, IsRow(e, world, row)
  PROVE  /\ e \in RecordEndpoint
         /\ e \in GeographyEndpoint => Manifests(world)[d] = world.geo.manifest
         /\ \A told : told = (IF row # None THEN row ELSE Manifests(world)[d]) =>
              /\ ContextOf(e, world, row).release = ReleaseContext(told)
              /\ told # None =>
                   /\ Manifests(world)[d] # None
                   /\ told.version = Manifests(world)[d].version
                   /\ ContextOf(e, world, row).dataset.status = told.status
              /\ told = None => Manifests(world)[d] = None
<1>1. d \in {"geography", "universities", "transport", "heritage", "telecom"}
  BY DatasetOrderFacts
<1>2. \A name, manifest :
        /\ Context(name, manifest).release = ReleaseContext(manifest)
        /\ manifest # None => Context(name, manifest).dataset.status = manifest.status
  BY DEF Context, DatasetContext
<1>3. CASE d = "geography"
  <2>1. e \in GeographyEndpoint
    BY <1>3 DEF PublicDatasetEndpoints, GeographyEndpoint
  <2>2. ContextOf(e, world, row)
          = Context("opensyria-geography", IF row # None THEN row ELSE world.geo.manifest)
    BY <2>1, KindsOfEndpoints DEF ContextOf
  <2>3. Manifests(world)[d] = world.geo.manifest
    BY <1>3 DEF Manifests
  <2>4. row # None => /\ world.geo.manifest # None
                      /\ row.version = world.geo.manifest.version
    BY DEF IsRow, Importable
  <2>5. QED BY <1>2, <2>1, <2>2, <2>3, <2>4 DEF RecordEndpoint
<1>4. CASE d = "universities"
  <2>1. e = "universities"
    BY <1>4 DEF PublicDatasetEndpoints
  <2>2. ContextOf(e, world, row) = UniversitiesContext(world.uni)
    BY <2>1, KindsOfEndpoints DEF ContextOf
  <2>3. Manifests(world)[d] = world.uni.manifest
    BY <1>4 DEF Manifests
  <2>4. e \notin GeographyEndpoint /\ row = None
    BY <2>1, KindsOfEndpoints DEF IsRow
  <2>5. QED BY <1>2, <2>1, <2>2, <2>3, <2>4 DEF UniversitiesContext, RecordEndpoint
<1>5. CASE d = "transport"
  <2>1. e \in TransportEndpoint
    BY <1>5 DEF PublicDatasetEndpoints, TransportEndpoint
  <2>2. ContextOf(e, world, row) = TransportContext(world.trn)
    BY <2>1, KindsOfEndpoints DEF ContextOf
  <2>3. Manifests(world)[d] = world.trn.manifest
    BY <1>5 DEF Manifests
  <2>4. e \notin GeographyEndpoint /\ row = None
    BY <2>1, KindsOfEndpoints DEF IsRow
  <2>5. QED BY <1>2, <2>1, <2>2, <2>3, <2>4 DEF TransportContext, RecordEndpoint
<1>6. CASE d = "telecom"
  <2>1. e \in TelecomEndpoint
    BY <1>6 DEF PublicDatasetEndpoints, TelecomEndpoint
  <2>2. ContextOf(e, world, row) = TelecomContext(world.tel)
    BY <2>1, KindsOfEndpoints DEF ContextOf
  <2>3. Manifests(world)[d] = world.tel.manifest
    BY <1>6 DEF Manifests
  <2>4. e \notin GeographyEndpoint /\ row = None
    BY <2>1, KindsOfEndpoints DEF IsRow
  <2>5. QED BY <1>2, <2>1, <2>2, <2>3, <2>4 DEF TelecomContext, RecordEndpoint
<1>7. CASE d = "heritage"
  BY <1>7 DEF PublicDatasetEndpoints
<1>8. QED BY <1>1, <1>3, <1>4, <1>5, <1>6, <1>7

\* What an answer of records says of its dataset.
LEMMA DatasetOfAnswer ==
  ASSUME NEW e, NEW raw, NEW world, NEW t, NEW a, RecordAnswer(e, raw, world, t, a),
         Succeeded(a)
  PROVE  a.data.dataset = ContextOf(e, world, t).dataset
<1>1. a # Failure(400) /\ a # ServerError
  BY DEF Succeeded, Failure, ServerError
<1>2. PICK s : a = [status |-> 200, data |-> PageOf(s, ParsedQuery(raw), ContextOf(e, world, t))]
  BY <1>1 DEF RecordAnswer
<1>3. a.data = PageOf(s, ParsedQuery(raw), ContextOf(e, world, t))
  BY <1>2
<1>4. QED BY <1>3 DEF PageOf

\* What a page of discovery shows is among its entries.
LEMMA ItemsAreEntries ==
  ASSUME NEW e, NEW Filters, NEW raw \in RawQuery(Filters), NEW m, NEW a,
         DiscoveryAnswer(e, raw, m, a), Succeeded(a)
  PROVE  \A i \in DOMAIN a.data.items :
           \E j \in DOMAIN Summaries(e, m) : a.data.items[i] = Summaries(e, m)[j]
<1> DEFINE query == ParsedQuery(raw)
           records == Summaries(e, m)
           chosen == Matches(e, records, query)
           s == ListOf(e, records, query)
           S == { records[i] : i \in chosen }
<1>1. /\ ValidQuery(raw) /\ Shows(s, e, records, chosen, query.order)
      /\ IsPageOf(s, query, a.data)
  BY EntriesShown
<1>2. query.page \in Nat \ {0} /\ query.limit \in Nat \ {0}
  BY <1>1, ParsedQueryType, LimitFacts
<1>3. chosen \subseteq DOMAIN records
  BY DEF Matches
<1> HIDE DEF query, chosen, s
<1>4. s \in Seq(S)
  BY <1>1, ShownSequence
<1> HIDE DEF S, records
<1>5. a.data.items = PaginateOffsetItems(s, query.page, query.limit)
  BY <1>1 DEF IsPageOf
<1>6. a.data.items \in Seq(S)
  <2>1. Holds(PaginateOffsetItems(s, query.page, query.limit), s, S,
              (query.page - 1) * query.limit, query.limit)
    BY <1>2, <1>4, PageHolds
  <2>2. QED BY <1>5, <2>1 DEF Holds
<1>7. \A i \in DOMAIN a.data.items : a.data.items[i] \in S
  BY <1>6, ElementsOfSeq
<1>8. QED BY <1>3, <1>7 DEF S, records

\* The manifests of a release tell a version.
LEMMA VersionsNamed ==
  ASSUME NEW m, NEW mine, NEW e, m \in OfOneKey(e, mine), NEW d \in Datasets, m[d] # None
  PROVE  m[d].version # None
<1>1. PICK r \in Release : m = Manifests(Content[r])
  BY DEF OfOneKey
<1>2. Content[r] \in World
  BY ContentFacts
<1>3. \A k \in {"geo", "uni", "trn", "tel"} : Content[r][k].manifest \in Optional(Manifest)
  BY <1>2 DEF World, GeographyData, UniversitiesData, TransportData, TelecomData
<1>4. m[d] \in Optional(Manifest)
  BY <1>1, <1>3, DatasetOrderFacts DEF Manifests, Optional
<1>5. m[d] \in Manifest
  BY <1>4 DEF Optional
<1>6. m[d].version \in Nat
  BY <1>5 DEF Manifest, Text
<1>7. QED BY <1>6, LimitFacts

\* Discovery tells of each dataset the version that its endpoints tell, and the
\* same status unless they answer from a row of another one, whether a page of it
\* comes from the cache or not (enrichDatasetFromManifest,
\* mapManifestToReleaseSummary, the keys of the cache, mapReleaseManifest).
THEOREM DiscoveryTells == Spec => []DiscoveryAgrees
<1>1. ASSUME BrowsingInv PROVE DiscoveryAgrees
  <2> DEFINE n == session.page
             e == session.endpoint
             world == Content[served]
             mine == Manifests(world)
             asked == [session.raw EXCEPT !.page = n]
             page == pages[n].answer
  <2> SUFFICES ASSUME OnPage, pages[n].release = served, e \in DiscoveryEndpoint,
                      NEW i \in DOMAIN Items(n),
                      NEW d \in IF e = "datasets" THEN {Items(n)[i].id}
                                                  ELSE Items(n)[i].datasets,
                      NEW f \in PublicDatasetEndpoints[d],
                      NEW raw \in { x \in Queries[f] : x.page = None /\ x.limit = None },
                      NEW a \in ListAnswers(f, raw, Content[served], RowFound(f)),
                      Succeeded(a)
               PROVE  IF Items(n)[i].version = None
                        THEN a.data.release = None
                        ELSE /\ f \notin GeographyEndpoint \/ RowAsServed =>
                                  a.data.dataset.status = Items(n)[i].status
                             /\ a.data.release # None
                                => a.data.release.version = Items(n)[i].version
    BY DEF DiscoveryAgrees
  <2>1. session # None /\ n \in DOMAIN pages /\ Succeeded(page)
    BY <1>1 DEF OnPage, BrowsingInv, WalkInv
  <2>2. /\ served \in Release /\ asked \in RawQuery(FilterOf(e))
        /\ IsAnswer(e, asked, world, pages[n].row, page)
    BY <1>1, <2>1, PagesAnswer
  <2>3. PICK m \in OfOneKey(e, mine) : DiscoveryAnswer(e, asked, m, page)
    BY <2>2, KindsOfEndpoints DEF IsAnswer, RecordEndpoint
  <2> DEFINE item == Items(n)[i]
  <2>4. PICK j \in DOMAIN Summaries(e, m) : item = Summaries(e, m)[j]
    <3> HIDE DEF e, asked, world, mine
    <3>1. Items(n) = page.data.items
      BY DEF Items
    <3> HIDE DEF page, n
    <3>2. \A k \in DOMAIN page.data.items :
            \E l \in DOMAIN Summaries(e, m) : page.data.items[k] = Summaries(e, m)[l]
      <4>1. Succeeded(page) /\ asked \in RawQuery(FilterOf(e)) /\ DiscoveryAnswer(e, asked, m, page)
        BY <2>1, <2>2, <2>3
      <4>2. QED BY ONLY <4>1, ItemsAreEntries
    <3>3. QED BY <3>1, <3>2
  <2>5. /\ d \in Datasets
        /\ m[d] = None => item.version = None
        /\ m[d] # None => item.version = m[d].version /\ item.status = m[d].status
    <3> HIDE DEF item
    <3>1. d \in IF e = "datasets" THEN {Summaries(e, m)[j].id}
                                  ELSE Summaries(e, m)[j].datasets
      BY <2>4 DEF item
    <3> HIDE DEF e
    <3>2. QED BY <2>4, <3>1, SummaryTells
  <2>6. /\ m[d] = None <=> mine[d] = None
        /\ m[d] # None => m[d].version = mine[d].version /\ m[d].status = mine[d].status
    <3>1. CachePayload(e, m) = CachePayload(e, mine)
      BY <2>3 DEF OfOneKey
    <3> HIDE DEF e, mine
    <3>2. QED BY <2>5, <3>1, OneKeyTells
  <2>7. m[d] # None => m[d].version # None
    <3> HIDE DEF e, mine
    <3>1. QED BY <2>3, <2>5, VersionsNamed
  <2> DEFINE row == RowFound(f)
             told == IF row # None THEN row ELSE mine[d]
  <2>13. IsRow(f, world, row)
    BY <1>1, RowFoundIsRow DEF BrowsingInv
  <2>8. /\ f \in RecordEndpoint
        /\ f \in GeographyEndpoint => mine[d] = world.geo.manifest
        /\ ContextOf(f, world, row).release = ReleaseContext(told)
        /\ told # None => /\ mine[d] # None /\ told.version = mine[d].version
                          /\ ContextOf(f, world, row).dataset.status = told.status
        /\ told = None => mine[d] = None
    <3>1. told = IF row # None THEN row ELSE Manifests(world)[d]
      OBVIOUS
    <3>2. d \in Datasets /\ f \in PublicDatasetEndpoints[d]
      BY <2>5
    <3>3. mine[d] = Manifests(world)[d]
      OBVIOUS
    <3> HIDE DEF world, row, told, mine
    <3>4. QED BY ONLY <2>13, <3>1, <3>2, <3>3, ContextOfDataset
  <2>14. f \notin GeographyEndpoint \/ RowAsServed =>
           (told # None => told.status = mine[d].status)
    <3>1. CASE row = None
      BY <3>1
    <3>2. CASE row # None
      <4>1. f \in GeographyEndpoint /\ row \in RowsOf(served)
        BY <3>2 DEF RowFound
      <4> HIDE DEF row
      <4>2. RowAsServed => row.status = world.geo.manifest.status
        BY <4>1 DEF RowAsServed
      <4> HIDE DEF mine, world
      <4>3. QED BY <2>8, <3>2, <4>1, <4>2
    <3>3. QED BY <3>1, <3>2
  <2>9. RecordAnswer(f, raw, world, row, a)
    <3>1. world \in World /\ \A k \in DOMAIN world : Complete(world[k])
      BY <2>2, ContentFacts
    <3>3. row # None => f \in GeographyEndpoint /\ Importable(world.geo)
      BY <2>13 DEF IsRow
    <3>4. raw \in RawQuery(FilterOf(f))
      BY <2>8, ContentFacts DEF Endpoint
    <3>2. a \in ListAnswers(f, raw, world, row)
      OBVIOUS
    <3> HIDE DEF world, row
    <3>5. QED BY <2>8, <3>1, <3>2, <3>3, <3>4, RecordLists
  <2>10. /\ a.data.release = ReleaseContext(told)
         /\ told # None => a.data.dataset.status = told.status
    <3> HIDE DEF row, told
    <3>1. QED BY <2>8, <2>9, ReleaseOfAnswer, DatasetOfAnswer
  <2> HIDE DEF item, mine, told
  <2>11. IF item.version = None
           THEN a.data.release = None
           ELSE /\ f \notin GeographyEndpoint \/ RowAsServed =>
                     a.data.dataset.status = item.status
                /\ a.data.release # None => a.data.release.version = item.version
    <3>1. CASE m[d] = None
      BY <2>5, <2>6, <2>8, <2>10, <3>1 DEF ReleaseContext
    <3>2. CASE m[d] # None
      <4>1. /\ item.version = mine[d].version /\ item.version # None
            /\ item.status = mine[d].status /\ told # None
            /\ told.version = mine[d].version
        BY <2>5, <2>6, <2>7, <2>8, <3>2
      <4>2. \A v, w : [version |-> v, releasedAt |-> w].version = v
        OBVIOUS
      <4>3. ReleaseContext(told) # None => ReleaseContext(told).version = told.version
        BY <4>2 DEF ReleaseContext
      <4>4. QED BY <2>10, <2>14, <4>1, <4>3
    <3>3. QED BY <3>1, <3>2
  <2>12. QED BY <2>11 DEF item
<1>2. QED BY <1>1, BrowsingIsInvariant, PTL

-----------------------------------------------------------------------------
(* The order of records: artifacts.                                        *)

\* A release whose artifacts list their records in the opposite order.
Mirrored(world) == [d \in DOMAIN world |-> Reordered(world[d])]

LEMMA EmptyBackwards == Backwards(<< >>) = << >>
<1>1. << >> \in Seq({}) /\ Len(<< >>) = 0
  BY EmptySeq
<1>2. Backwards(<< >>) \in Seq({}) /\ Len(Backwards(<< >>)) = 0
  BY <1>1, BackwardsFacts
<1>3. QED BY <1>2, EmptySeq

\* What is in an artifact: it is absent, damaged or a list of records.
IsArtifact(artifact, S) == artifact \in Optional(Seq(S) \cup {Broken})

LEMMA ReversedArtifact ==
  ASSUME MarksApart, NEW S, NEW artifact, IsArtifact(artifact, S)
  PROVE  /\ IsArtifact(Reversed(artifact), S)
         /\ Reversed(artifact) = Broken <=> artifact = Broken
         /\ Reversed(artifact) = None <=> artifact = None
         /\ artifact # Broken => /\ DataOf(artifact) \in Seq(S)
                                 /\ DataOf(Reversed(artifact)) = Backwards(DataOf(artifact))
<1>1. None # Broken
  BY LimitFacts
<1>2. CASE artifact \in {None, Broken}
  <2>1. Reversed(artifact) = artifact
    BY <1>2 DEF Reversed
  <2>2. QED BY <1>1, <1>2, <2>1, EmptyBackwards, EmptySeq DEF IsArtifact, DataOf
<1>3. CASE artifact \notin {None, Broken}
  <2>1. artifact \in Seq(S)
    BY <1>3 DEF IsArtifact, Optional
  <2>2. Reversed(artifact) = Backwards(artifact)
    BY <1>3 DEF Reversed, Backwards
  <2>3. Backwards(artifact) \in Seq(S)
    BY <2>1, BackwardsFacts
  <2>4. Backwards(artifact) \in [1 .. Len(Backwards(artifact)) -> S]
    BY <2>3, LenProperties
  <2>5. Backwards(artifact) \notin {None, Broken}
    BY <2>4 DEF MarksApart
  <2>6. QED BY <1>3, <2>1, <2>2, <2>3, <2>5 DEF IsArtifact, Optional, DataOf
<1>4. QED BY <1>2, <1>3

LEMMA ReversedAbsent ==
  ASSUME MarksApart, NEW S, NEW artifact, IsArtifact(artifact, S)
  PROVE  (Reversed(artifact) = None) <=> (artifact = None)
BY ReversedArtifact

LEMMA MirroredGeography ==
  ASSUME MarksApart, NEW geo \in GeographyData
  PROVE  /\ Reordered(geo) \in GeographyData
         /\ Reordered(geo).manifest = geo.manifest
         /\ \A e \in GeographyEndpoint : Reordered(geo)[e] = Reversed(geo[e])
         /\ Complete(geo) => Complete(Reordered(geo))
<1> DEFINE other == Reordered(geo)
<1>1. /\ IsArtifact(geo.governorates, GovernorateRecord)
      /\ IsArtifact(geo.districts, DistrictRecord)
      /\ IsArtifact(geo.subdistricts, SubdistrictRecord)
      /\ IsArtifact(geo.localities, LocalityRecord)
      /\ geo.manifest \in Optional(Manifest) /\ geo.row \in Optional(Manifest)
  BY DEF GeographyData, IsArtifact, GeographyArtifact
<1>2. DOMAIN geo = {"manifest", "row", "governorates", "districts", "subdistricts",
                    "localities"}
  BY DEF GeographyData
<1>3. other = [manifest |-> geo.manifest, row |-> geo.row,
               governorates |-> Reversed(geo.governorates),
               districts |-> Reversed(geo.districts),
               subdistricts |-> Reversed(geo.subdistricts),
               localities |-> Reversed(geo.localities)]
  BY <1>2 DEF Reordered
<1> HIDE DEF other
<1>4. other \in GeographyData
  BY <1>1, <1>3, ReversedArtifact DEF GeographyData, IsArtifact, GeographyArtifact
<1>5. \A f \in DOMAIN geo \ {"row"} : (other[f] = None) <=> (geo[f] = None)
  <2>1. /\ (Reversed(geo.governorates) = None) <=> (geo.governorates = None)
        /\ (Reversed(geo.districts) = None) <=> (geo.districts = None)
        /\ (Reversed(geo.subdistricts) = None) <=> (geo.subdistricts = None)
        /\ (Reversed(geo.localities) = None) <=> (geo.localities = None)
    BY <1>1, ReversedAbsent
  <2>2. QED BY <1>2, <1>3, <2>1
<1>6. DOMAIN other = DOMAIN geo
  BY <1>2, <1>3
<1>7. other.row = geo.row
  BY <1>3
<1>8. Complete(geo) => Complete(other)
  BY <1>2, <1>5, <1>6, <1>7 DEF Complete
<1>9. other.manifest = geo.manifest /\ \A e \in GeographyEndpoint : other[e] = Reversed(geo[e])
  BY <1>3 DEF GeographyEndpoint
<1>10. QED BY <1>4, <1>8, <1>9 DEF other

LEMMA MirroredTransport ==
  ASSUME MarksApart, NEW trn \in TransportData
  PROVE  /\ Reordered(trn) \in TransportData
         /\ Reordered(trn).manifest = trn.manifest
         /\ Reordered(trn).locations = Reversed(trn.locations)
         /\ Reordered(trn).statusSnapshots = Reversed(trn.statusSnapshots)
         /\ Reordered(trn).routeSnapshots = Reversed(trn.routeSnapshots)
         /\ Complete(trn) => Complete(Reordered(trn))
<1> DEFINE other == Reordered(trn)
<1>1. /\ IsArtifact(trn.locations, TransportLocation)
      /\ IsArtifact(trn.statusSnapshots, TransportStatusSnapshot)
      /\ IsArtifact(trn.routeSnapshots, TransportRouteSnapshot)
      /\ trn.manifest \in Optional(Manifest)
  BY DEF TransportData, IsArtifact, TransportArtifact
<1>2. DOMAIN trn = {"manifest", "locations", "statusSnapshots", "routeSnapshots"}
  BY DEF TransportData
<1>3. other = [manifest |-> trn.manifest, locations |-> Reversed(trn.locations),
               statusSnapshots |-> Reversed(trn.statusSnapshots),
               routeSnapshots |-> Reversed(trn.routeSnapshots)]
  BY <1>2 DEF Reordered
<1> HIDE DEF other
<1>4. other \in TransportData
  BY <1>1, <1>3, ReversedArtifact DEF TransportData, IsArtifact, TransportArtifact
<1>5. \A f \in DOMAIN trn : (other[f] = None) <=> (trn[f] = None)
  <2>1. /\ (Reversed(trn.locations) = None) <=> (trn.locations = None)
        /\ (Reversed(trn.statusSnapshots) = None) <=> (trn.statusSnapshots = None)
        /\ (Reversed(trn.routeSnapshots) = None) <=> (trn.routeSnapshots = None)
    BY <1>1, ReversedAbsent
  <2>2. QED BY <1>2, <1>3, <2>1
<1>6. DOMAIN other = DOMAIN trn
  BY <1>2, <1>3
<1>7. Complete(trn) => Complete(other)
  BY <1>5, <1>6 DEF Complete
<1>8. QED BY <1>3, <1>4, <1>7 DEF other

LEMMA MirroredTelecom ==
  ASSUME MarksApart, NEW tel \in TelecomData
  PROVE  /\ Reordered(tel) \in TelecomData
         /\ Reordered(tel).manifest = tel.manifest
         /\ Reordered(tel).plans = Reversed(tel.plans)
         /\ Reordered(tel).operators = Reversed(tel.operators)
         /\ Reordered(tel).areaCodes = Reversed(tel.areaCodes)
         /\ Reordered(tel).prefixes = Reversed(tel.prefixes)
         /\ Reordered(tel).ranges = Reversed(tel.ranges)
         /\ Complete(tel) => Complete(Reordered(tel))
<1> DEFINE other == Reordered(tel)
<1>1. /\ IsArtifact(tel.plans, CountryNumberingPlan)
      /\ IsArtifact(tel.operators, TelecomOperator)
      /\ IsArtifact(tel.areaCodes, FixedAreaCode)
      /\ IsArtifact(tel.prefixes, MobilePrefix)
      /\ IsArtifact(tel.ranges, NumberRange)
      /\ tel.manifest \in Optional(Manifest)
  BY DEF TelecomData, IsArtifact, TelecomArtifact
<1>2. DOMAIN tel = {"manifest", "plans", "operators", "areaCodes", "prefixes", "ranges"}
  BY DEF TelecomData
<1>3. other = [manifest |-> tel.manifest, plans |-> Reversed(tel.plans),
               operators |-> Reversed(tel.operators),
               areaCodes |-> Reversed(tel.areaCodes),
               prefixes |-> Reversed(tel.prefixes),
               ranges |-> Reversed(tel.ranges)]
  BY <1>2 DEF Reordered
<1> HIDE DEF other
<1>4. other \in TelecomData
  BY <1>1, <1>3, ReversedArtifact DEF TelecomData, IsArtifact, TelecomArtifact
<1>5. \A f \in DOMAIN tel : (other[f] = None) <=> (tel[f] = None)
  <2>1. /\ (Reversed(tel.plans) = None) <=> (tel.plans = None)
        /\ (Reversed(tel.operators) = None) <=> (tel.operators = None)
        /\ (Reversed(tel.areaCodes) = None) <=> (tel.areaCodes = None)
        /\ (Reversed(tel.prefixes) = None) <=> (tel.prefixes = None)
        /\ (Reversed(tel.ranges) = None) <=> (tel.ranges = None)
    BY <1>1, ReversedAbsent
  <2>2. QED BY <1>2, <1>3, <2>1
<1>6. DOMAIN other = DOMAIN tel
  BY <1>2, <1>3
<1>7. Complete(tel) => Complete(other)
  BY <1>5, <1>6 DEF Complete
<1>8. QED BY <1>3, <1>4, <1>7 DEF other

LEMMA MirroredUniversities ==
  ASSUME MarksApart, NEW uni \in UniversitiesData
  PROVE  /\ Reordered(uni) \in UniversitiesData
         /\ Reordered(uni).manifest = uni.manifest
         /\ Reordered(uni).universities = Reversed(uni.universities)
         /\ Reordered(uni).assets = Reversed(uni.assets)
         /\ Reordered(uni).rankings = Reversed(uni.rankings)
         /\ Complete(uni) => Complete(Reordered(uni))
<1> DEFINE other == Reordered(uni)
<1>1. /\ IsArtifact(uni.universities, UniversityRecord)
      /\ IsArtifact(uni.assets, UniversityLogoAsset)
      /\ IsArtifact(uni.rankings, UniversityRanking)
      /\ uni.manifest \in Optional(Manifest)
  BY DEF UniversitiesData, IsArtifact, UniversityArtifact
<1>2. DOMAIN uni = {"manifest", "universities", "assets", "rankings"}
  BY DEF UniversitiesData
<1>3. other = [manifest |-> uni.manifest, universities |-> Reversed(uni.universities),
               assets |-> Reversed(uni.assets), rankings |-> Reversed(uni.rankings)]
  BY <1>2 DEF Reordered
<1> HIDE DEF other
<1>4. other \in UniversitiesData
  BY <1>1, <1>3, ReversedArtifact DEF UniversitiesData, IsArtifact, UniversityArtifact
<1>5. \A f \in DOMAIN uni : (other[f] = None) <=> (uni[f] = None)
  <2>1. /\ (Reversed(uni.universities) = None) <=> (uni.universities = None)
        /\ (Reversed(uni.assets) = None) <=> (uni.assets = None)
        /\ (Reversed(uni.rankings) = None) <=> (uni.rankings = None)
    BY <1>1, ReversedAbsent
  <2>2. QED BY <1>2, <1>3, <2>1
<1>6. DOMAIN other = DOMAIN uni
  BY <1>2, <1>3
<1>7. Complete(uni) => Complete(other)
  BY <1>5, <1>6 DEF Complete
<1>8. QED BY <1>3, <1>4, <1>7 DEF other

\* The mirrored release is one as well, with the same manifests.
LEMMA MirroredWorld ==
  ASSUME MarksApart, NEW world \in World, \A d \in DOMAIN world : Complete(world[d])
  PROVE  /\ Mirrored(world) \in World
         /\ \A d \in DOMAIN Mirrored(world) : Complete(Mirrored(world)[d])
         /\ Mirrored(world).geo = Reordered(world.geo)
         /\ Mirrored(world).uni = Reordered(world.uni)
         /\ Mirrored(world).trn = Reordered(world.trn)
         /\ Mirrored(world).tel = Reordered(world.tel)
         /\ Manifests(Mirrored(world)) = Manifests(world)
         /\ \A e \in RecordEndpoint : \A row :
              ContextOf(e, Mirrored(world), row) = ContextOf(e, world, row)
<1> DEFINE other == Mirrored(world)
<1>1. DOMAIN world = {"geo", "uni", "trn", "tel"}
      /\ world.geo \in GeographyData /\ world.uni \in UniversitiesData
      /\ world.trn \in TransportData /\ world.tel \in TelecomData
  BY DEF World
<1>2. other = [geo |-> Reordered(world.geo), uni |-> Reordered(world.uni),
               trn |-> Reordered(world.trn), tel |-> Reordered(world.tel)]
  BY <1>1 DEF Mirrored
<1> HIDE DEF other
<1>3. other \in World
  BY <1>1, <1>2, MirroredGeography, MirroredUniversities, MirroredTransport, MirroredTelecom DEF World
<1>4. Complete(other.geo) /\ Complete(other.uni) /\ Complete(other.trn) /\ Complete(other.tel)
  BY <1>1, <1>2, CompleteWorld, MirroredGeography, MirroredUniversities, MirroredTransport,
     MirroredTelecom
<1>5. \A d \in DOMAIN other : Complete(other[d])
  BY <1>2, <1>4
<1>6. /\ other.geo.manifest = world.geo.manifest /\ other.uni.manifest = world.uni.manifest
      /\ other.trn.manifest = world.trn.manifest /\ other.tel.manifest = world.tel.manifest
  BY <1>1, <1>2, MirroredGeography, MirroredUniversities, MirroredTransport, MirroredTelecom
<1>7. Manifests(other) = Manifests(world)
  BY <1>6 DEF Manifests
<1>8. \A e \in RecordEndpoint : \A row : ContextOf(e, other, row) = ContextOf(e, world, row)
  BY <1>6, KindsOfEndpoints DEF RecordEndpoint, ContextOf, GeographyContext,
     UniversitiesContext, TransportContext, TelecomContext
<1>9. QED BY <1>2, <1>3, <1>5, <1>7, <1>8 DEF other

-----------------------------------------------------------------------------
(* The order of records: the join of universities.                         *)

\* The logos of a university have identifiers of their own, and its rankings
\* differ in the year, the scope, the rank or the system.
ToldApart(assets, rankings) ==
  /\ \A i, j \in DOMAIN assets :
       (/\ i # j /\ assets[i].assetRole = "logo" /\ assets[j].assetRole = "logo"
        /\ assets[i].universityId = assets[j].universityId)
       => assets[i].id # assets[j].id
  /\ \A i, j \in DOMAIN rankings :
       (i # j /\ rankings[i].universityId = rankings[j].universityId)
       => \/ rankings[i].year # rankings[j].year
          \/ rankings[i].rankScope # rankings[j].rankScope
          \/ rankings[i].rank # rankings[j].rank
          \/ rankings[i].rankingSystem # rankings[j].rankingSystem

LEMMA ScopesInOrder ==
  /\ \A s \in RankScopes : ScopeOrder[s] \in Int
  /\ \A s, t \in RankScopes : ScopeOrder[s] = ScopeOrder[t] => s = t
<1>1. /\ ScopeOrder["national"] = 0 /\ ScopeOrder["regional"] = 1
      /\ ScopeOrder["global"] = 2 /\ ScopeOrder["subject"] = 3 /\ ScopeOrder["other"] = 4
  BY DEF ScopeOrder, RankScopes
<1>2. QED BY <1>1 DEF RankScopes

LEMMA RankingFields ==
  ASSUME NEW x \in UniversityRanking
  PROVE  /\ x.year \in Int /\ ScopeOrder[x.rankScope] \in Int /\ x.rankScope \in RankScopes
         /\ x.rank = None \/ x.rank \in Int
         /\ x.rankingSystem \in Int
BY ScopesInOrder DEF UniversityRanking, Optional, Rank

\* The comparison of rankings sorts, and tells apart those that differ.
LEMMA RankingsCompare ==
  /\ \A x, y \in UniversityRanking : CompareRankings(x, y) => ~ CompareRankings(y, x)
  /\ \A x, y, z \in UniversityRanking :
       CompareRankings(x, y) /\ CompareRankings(y, z) => CompareRankings(x, z)
  /\ \A x, y \in UniversityRanking :
       (\/ x.year # y.year \/ x.rankScope # y.rankScope
        \/ x.rank # y.rank \/ x.rankingSystem # y.rankingSystem)
       => CompareRankings(x, y) \/ CompareRankings(y, x)
<1>1. None \notin Int
  BY LimitFacts
<1>2. ASSUME NEW x \in UniversityRanking, NEW y \in UniversityRanking,
             CompareRankings(x, y)
      PROVE  ~ CompareRankings(y, x)
  BY <1>1, <1>2, RankingFields DEF CompareRankings, BetterRank, Unranked
<1>3. ASSUME NEW x \in UniversityRanking, NEW y \in UniversityRanking,
             NEW z \in UniversityRanking, CompareRankings(x, y), CompareRankings(y, z)
      PROVE  CompareRankings(x, z)
  BY <1>1, <1>3, RankingFields DEF CompareRankings, BetterRank, Unranked
<1>4. ASSUME NEW x \in UniversityRanking, NEW y \in UniversityRanking,
             \/ x.year # y.year \/ x.rankScope # y.rankScope
             \/ x.rank # y.rank \/ x.rankingSystem # y.rankingSystem
      PROVE  CompareRankings(x, y) \/ CompareRankings(y, x)
  BY <1>1, <1>4, RankingFields, ScopesInOrder DEF CompareRankings, BetterRank, Unranked
<1>5. QED BY <1>2, <1>3, <1>4

\* The rankings of a university are shown in one order.
LEMMA RankingsBackwards ==
  ASSUME NEW rankings \in Seq(UniversityRanking), NEW assets, ToldApart(assets, rankings),
         NEW id
  PROVE  RankingsOf(Backwards(rankings), id) = RankingsOf(rankings, id)
<1> DEFINE n == Len(rankings)
           other == Backwards(rankings)
           Of(s) == { i \in DOMAIN s : s[i].universityId = id }
           Pairs(s) == { p \in (DOMAIN s) \X (DOMAIN s) : CompareRankings(s[p[1]], s[p[2]]) }
<1>1. /\ n \in Nat /\ DOMAIN rankings = 1 .. n /\ DOMAIN other = 1 .. n
      /\ \A i \in 1 .. n : n + 1 - i \in 1 .. n /\ n + 1 - (n + 1 - i) = i
                           /\ other[i] = rankings[n + 1 - i]
  BY BackwardsFacts
<1>2. \A s : RankingsOf(s, id) = Arranged(s, Of(s), Pairs(s))
  BY Zenon DEF RankingsOf, Chosen, Compared
<1>3. \A i \in 1 .. n : rankings[i] \in UniversityRanking
  BY <1>1, ElementsOfSeq
<1>4. \A i, j \in 1 .. n : << i, j >> \in Pairs(rankings)
                           <=> CompareRankings(rankings[i], rankings[j])
  BY <1>1
<1>5. \A i, j \in 1 .. n : << i, j >> \in Pairs(other)
                           <=> CompareRankings(other[i], other[j])
  BY <1>1
<1>6. Of(other) = Opposite(n, Of(rankings))
  BY <1>1 DEF Opposite
<1>7. Of(rankings) \in SUBSET (1 .. n)
  BY <1>1
<1>8. TellsApart(Of(rankings), Pairs(rankings))
  <2>1. ASSUME NEW i \in Of(rankings), NEW j \in Of(rankings), i # j
        PROVE  << i, j >> \in Pairs(rankings) \/ << j, i >> \in Pairs(rankings)
    <3>1. \/ rankings[i].year # rankings[j].year
          \/ rankings[i].rankScope # rankings[j].rankScope
          \/ rankings[i].rank # rankings[j].rank
          \/ rankings[i].rankingSystem # rankings[j].rankingSystem
      BY <2>1 DEF ToldApart
    <3>2. i \in 1 .. n /\ j \in 1 .. n
      BY <1>7
    <3> HIDE DEF Of, Pairs, n
    <3>3. QED BY <1>3, <1>4, <3>1, <3>2, RankingsCompare
  <2>2. QED BY <2>1 DEF TellsApart
<1> HIDE DEF other, Of, Pairs, n
<1>9. WeakOrder(Of(rankings), Pairs(rankings))
  <2>1. ASSUME NEW i \in Of(rankings), NEW j \in Of(rankings), << i, j >> \in Pairs(rankings)
        PROVE  << j, i >> \notin Pairs(rankings)
    BY <1>3, <1>4, <1>7, <2>1, RankingsCompare
  <2>2. ASSUME NEW i \in Of(rankings), NEW j \in Of(rankings), NEW k \in Of(rankings),
               << i, j >> \notin Pairs(rankings), << j, k >> \notin Pairs(rankings)
        PROVE  << i, k >> \notin Pairs(rankings)
    <3>1. i = j \/ << j, i >> \in Pairs(rankings)
      BY <1>8, <2>2 DEF TellsApart
    <3>2. j = k \/ << k, j >> \in Pairs(rankings)
      BY <1>8, <2>2 DEF TellsApart
    <3>3. i \in 1 .. n /\ j \in 1 .. n /\ k \in 1 .. n
      BY <1>7
    <3>4. CASE i = j \/ j = k
      BY <2>2, <3>4
    <3>5. CASE << j, i >> \in Pairs(rankings) /\ << k, j >> \in Pairs(rankings)
      <4>1. << k, i >> \in Pairs(rankings)
        BY <1>3, <1>4, <3>3, <3>5, RankingsCompare
      <4>2. QED BY <2>1, <4>1
    <3>6. QED BY <3>1, <3>2, <3>4, <3>5
  <2>3. QED BY <2>1, <2>2 DEF WeakOrder
<1>10. SameComparison(n, Pairs(rankings), Pairs(other))
  BY <1>1, <1>4, <1>5 DEF SameComparison
<1>11. Arranged(other, Opposite(n, Of(rankings)), Pairs(other))
         = Arranged(rankings, Of(rankings), Pairs(rankings))
  BY <1>1, <1>7, <1>8, <1>9, <1>10, ArrangedBackwards DEF n, other
<1>12. QED BY <1>2, <1>6, <1>11 DEF other

\* The positions of the logos of a university, and the pairs of images of
\* which one has the less identifier.
Logos(assets, id) ==
  { i \in DOMAIN assets :
      /\ assets[i].assetRole = "logo"
      /\ assets[i].universityId = id }

LessIds(assets) ==
  { p \in (DOMAIN assets) \X (DOMAIN assets) : assets[p[1]].id < assets[p[2]].id }

LEMMA LogosCompare ==
  ASSUME NEW assets \in Seq(UniversityLogoAsset), NEW id
  PROVE  /\ Logos(assets, id) \in SUBSET (DOMAIN assets)
         /\ WeakOrder(Logos(assets, id), LessIds(assets))
<1>1. \A i \in DOMAIN assets : assets[i] \in UniversityLogoAsset
  BY ElementsOfSeq
<1>2. \A i \in DOMAIN assets : assets[i].id \in Int
  BY <1>1 DEF UniversityLogoAsset, Rank
<1>3. Logos(assets, id) \in SUBSET (DOMAIN assets)
  BY DEF Logos
<1>4. \A i, j \in DOMAIN assets :
        << i, j >> \in LessIds(assets) <=> assets[i].id < assets[j].id
  BY DEF LessIds
<1>5. QED BY <1>2, <1>3, <1>4 DEF WeakOrder

\* The logo of a university is the first of its logos by identifier.
LEMMA LogoIsFirst ==
  ASSUME NEW assets \in Seq(UniversityLogoAsset), NEW id, Logos(assets, id) # {}
  PROVE  LogoOf(assets, id) = Arranged(assets, Logos(assets, id), LessIds(assets))[1]
<1> DEFINE logos == Logos(assets, id)
           compared == LessIds(assets)
           N == Cardinality(logos)
           P(k) == SortedTo(logos, compared, k)
           First(i) == \A j \in logos :
                          \/ assets[i].id < assets[j].id
                          \/ assets[i].id = assets[j].id /\ i <= j
<1>1. logos \in SUBSET (DOMAIN assets) /\ WeakOrder(logos, compared)
  BY LogosCompare
<1>2. logos \in SUBSET Nat /\ IsFiniteSet(logos) /\ N \in Nat
  BY <1>1, ChosenIsFinite
<1>3. \A i \in logos : i \in DOMAIN assets /\ i \in Nat /\ assets[i].id \in Int
  <2>1. \A i \in DOMAIN assets : assets[i] \in UniversityLogoAsset
    BY ElementsOfSeq
  <2>2. QED BY <1>1, <1>2, <2>1 DEF UniversityLogoAsset, Rank
<1>4. \A i, j \in logos : << i, j >> \in compared <=> assets[i].id < assets[j].id
  BY <1>3 DEF LessIds
<1> HIDE DEF logos, compared
<1>5. /\ \A k \in 1 .. N : P(k) \in logos
      /\ \A i \in logos : \E k \in 1 .. N : P(k) = i
      /\ \A k, l \in 1 .. N : k < l => ComesBefore(compared, P(k), P(l))
  BY <1>1, <1>2, SortedPositions
<1>6. PICK i \in logos : TRUE
  BY DEF logos
<1>7. 1 \in 1 .. N
  <2>1. PICK k \in 1 .. N : P(k) = i
    BY <1>5
  <2>2. QED BY <1>2, <2>1
<1> HIDE DEF P
<1>8. First(P(1))
  <2>1. ASSUME NEW j \in logos
        PROVE  \/ assets[P(1)].id < assets[j].id
               \/ assets[P(1)].id = assets[j].id /\ P(1) <= j
    <3>1. PICK k \in 1 .. N : P(k) = j
      BY <1>5
    <3>2. CASE k = 1
      BY <1>3, <3>1, <3>2
    <3>3. CASE k # 1
      <4>1. 1 < k
        BY <3>3
      <4>2. ComesBefore(compared, P(1), P(k))
        BY <1>5, <1>7, <4>1
      <4>3. ComesBefore(compared, P(1), j) /\ P(1) \in logos
        BY <1>5, <1>7, <3>1, <4>2
      <4>4. QED BY <1>3, <1>4, <4>3 DEF ComesBefore
    <3>4. QED BY <3>2, <3>3
  <2>2. QED BY <2>1
<1>9. \A a, b \in logos : First(a) /\ First(b) => a = b
  BY <1>3
<1>10. (CHOOSE a \in logos : First(a)) = P(1)
  <2> HIDE DEF First
  <2>1. P(1) \in logos
    BY <1>5, <1>7
  <2>2. QED BY <1>8, <1>9, <2>1
<1>11. LogoOf(assets, id) = assets[CHOOSE a \in logos : First(a)]
  <2>1. LogoOf(assets, id) = IF logos = {} THEN None ELSE assets[CHOOSE a \in logos : First(a)]
    BY Zenon DEF LogoOf, Logos, logos
  <2>2. QED BY <2>1 DEF logos
<1>12. Arranged(assets, logos, compared)[1] = assets[P(1)]
  BY <1>7 DEF Arranged, P
<1>13. QED BY <1>10, <1>11, <1>12 DEF logos, compared

\* A university has one logo, in whatever order the images are listed.
LEMMA LogoBackwards ==
  ASSUME NEW assets \in Seq(UniversityLogoAsset), NEW rankings, ToldApart(assets, rankings),
         NEW id
  PROVE  LogoOf(Backwards(assets), id) = LogoOf(assets, id)
<1> DEFINE n == Len(assets)
           other == Backwards(assets)
           logos == Logos(assets, id)
<1>1. /\ n \in Nat /\ DOMAIN assets = 1 .. n /\ DOMAIN other = 1 .. n
      /\ other \in Seq(UniversityLogoAsset)
      /\ \A i \in 1 .. n : n + 1 - i \in 1 .. n /\ n + 1 - (n + 1 - i) = i
                           /\ other[i] = assets[n + 1 - i]
  BY BackwardsFacts
<1>2. Logos(other, id) = Opposite(n, logos)
  BY <1>1 DEF Logos, Opposite
<1>3. logos \in SUBSET (1 .. n) /\ WeakOrder(logos, LessIds(assets))
  BY <1>1, LogosCompare
<1>4. \A i, j \in 1 .. n : << i, j >> \in LessIds(assets) <=> assets[i].id < assets[j].id
  BY <1>1 DEF LessIds
<1>5. \A i, j \in 1 .. n : << i, j >> \in LessIds(other) <=> other[i].id < other[j].id
  BY <1>1 DEF LessIds
<1>6. TellsApart(logos, LessIds(assets))
  <2>1. \A i \in 1 .. n : assets[i] \in UniversityLogoAsset
    BY <1>1, ElementsOfSeq
  <2>2. \A i \in 1 .. n : assets[i].id \in Int
    BY <2>1 DEF UniversityLogoAsset, Rank
  <2>3. \A i, j \in logos : i # j => assets[i].id # assets[j].id
    BY DEF ToldApart, Logos
  <2>4. QED BY <1>3, <1>4, <2>2, <2>3 DEF TellsApart
<1> HIDE DEF other, logos, n
<1>7. SameComparison(n, LessIds(assets), LessIds(other))
  BY <1>1, <1>4, <1>5 DEF SameComparison
<1>8. Arranged(other, Opposite(n, logos), LessIds(other))
        = Arranged(assets, logos, LessIds(assets))
  BY <1>1, <1>3, <1>6, <1>7, ArrangedBackwards DEF n, other
<1>9. CASE logos = {}
  <2>1. Logos(other, id) = {} /\ Logos(assets, id) = {}
    BY <1>2, <1>9 DEF Opposite, logos
  <2>2. LogoOf(other, id) = None /\ LogoOf(assets, id) = None
    BY <2>1 DEF LogoOf, Logos
  <2>3. QED BY <2>2 DEF other
<1>10. CASE logos # {}
  <2>1. Logos(other, id) # {}
    <3>1. PICK i \in logos : i \in 1 .. n
      BY <1>3, <1>10
    <3>2. n + 1 - i \in Opposite(n, logos)
      BY <1>1, <3>1 DEF Opposite
    <3>3. QED BY <1>2, <3>2
  <2>2. LogoOf(other, id) = Arranged(other, Logos(other, id), LessIds(other))[1]
    BY <1>1, <2>1, LogoIsFirst
  <2>3. LogoOf(assets, id) = Arranged(assets, logos, LessIds(assets))[1]
    BY <1>10, LogoIsFirst DEF logos
  <2>4. QED BY <1>2, <1>8, <2>2, <2>3 DEF other
<1>11. QED BY <1>9, <1>10

\* What the list of universities is made of.
LEMMA UniversitiesJoined ==
  ASSUME NEW uni \in UniversitiesData, Complete(uni), ReadUniversities(uni) # Broken
  PROVE  /\ uni.universities # Broken /\ uni.assets # Broken /\ uni.rankings # Broken
         /\ ReadUniversities(uni) =
              [i \in DOMAIN DataOf(uni.universities) |->
                 EnrichUniversity(DataOf(uni.universities)[i], DataOf(uni.assets),
                                  DataOf(uni.rankings))]
<1>1. \A artifact \in {uni.universities, uni.assets, uni.rankings} :
        ReadJsonArtifact(uni.manifest, artifact) = artifact
  BY DEF Complete, ReadJsonArtifact, UniversitiesData
<1>2. uni.universities # Broken /\ uni.assets # Broken /\ uni.rankings # Broken
  BY <1>1 DEF ReadUniversities
<1>3. QED BY <1>1, <1>2 DEF ReadUniversities

\* Universities are joined to the same images and rankings.
LEMMA UniversitiesBackwards ==
  ASSUME MarksApart, NEW world \in World, \A d \in DOMAIN world : Complete(world[d]),
         ReadUniversities(world.uni) # Broken,
         ToldApart(DataOf(world.uni.assets), DataOf(world.uni.rankings))
  PROVE  /\ ReadUniversities(Mirrored(world).uni) # Broken
         /\ ReadUniversities(Mirrored(world).uni) = Backwards(ReadUniversities(world.uni))
<1> DEFINE uni == world.uni
           other == Mirrored(world).uni
           data == DataOf(uni.universities)
           n == Len(data)
<1>1. uni \in UniversitiesData /\ Complete(uni)
  BY CompleteWorld DEF World
<1>2. /\ other \in UniversitiesData /\ Complete(other)
      /\ other.manifest = uni.manifest
      /\ other.universities = Reversed(uni.universities)
      /\ other.assets = Reversed(uni.assets)
      /\ other.rankings = Reversed(uni.rankings)
  BY <1>1, MirroredWorld, MirroredUniversities
<1>3. /\ uni.universities # Broken /\ uni.assets # Broken /\ uni.rankings # Broken
      /\ ReadUniversities(uni) =
           [i \in DOMAIN data |->
              EnrichUniversity(data[i], DataOf(uni.assets), DataOf(uni.rankings))]
  BY <1>1, UniversitiesJoined
<1>4. /\ IsArtifact(uni.universities, UniversityRecord)
      /\ IsArtifact(uni.assets, UniversityLogoAsset)
      /\ IsArtifact(uni.rankings, UniversityRanking)
  BY <1>1 DEF UniversitiesData, IsArtifact, UniversityArtifact
<1>5. /\ other.universities # Broken /\ data \in Seq(UniversityRecord)
      /\ DataOf(other.universities) = Backwards(data)
  BY <1>2, <1>3, <1>4, ReversedArtifact
<1>6. /\ other.assets # Broken /\ DataOf(uni.assets) \in Seq(UniversityLogoAsset)
      /\ DataOf(other.assets) = Backwards(DataOf(uni.assets))
  BY <1>2, <1>3, <1>4, ReversedArtifact
<1>7. /\ other.rankings # Broken /\ DataOf(uni.rankings) \in Seq(UniversityRanking)
      /\ DataOf(other.rankings) = Backwards(DataOf(uni.rankings))
  BY <1>2, <1>3, <1>4, ReversedArtifact
<1>8. \A u : EnrichUniversity(u, DataOf(other.assets), DataOf(other.rankings))
               = EnrichUniversity(u, DataOf(uni.assets), DataOf(uni.rankings))
  <2>1. \A id : LogoOf(DataOf(other.assets), id) = LogoOf(DataOf(uni.assets), id)
    BY <1>6, LogoBackwards
  <2>2. \A id : RankingsOf(DataOf(other.rankings), id) = RankingsOf(DataOf(uni.rankings), id)
    BY <1>7, RankingsBackwards
  <2>3. QED BY <2>1, <2>2 DEF EnrichUniversity
<1>9. /\ n \in Nat /\ DOMAIN data = 1 .. n
      /\ DOMAIN Backwards(data) = 1 .. n
      /\ \A i \in 1 .. n : n + 1 - i \in 1 .. n /\ Backwards(data)[i] = data[n + 1 - i]
  BY <1>5, BackwardsFacts
<1> DEFINE E(u) == EnrichUniversity(u, DataOf(uni.assets), DataOf(uni.rankings))
<1>10. ReadUniversities(uni) = [i \in 1 .. n |-> E(data[i])]
  BY <1>3, <1>9
<1>11. ReadJsonArtifact(other.manifest, other.universities) = other.universities
       /\ ReadJsonArtifact(other.manifest, other.assets) = other.assets
       /\ ReadJsonArtifact(other.manifest, other.rankings) = other.rankings
  BY <1>2 DEF Complete, ReadJsonArtifact, UniversitiesData
<1>12. ReadUniversities(other)
         = [i \in DOMAIN Backwards(data) |->
              EnrichUniversity(Backwards(data)[i], DataOf(other.assets),
                               DataOf(other.rankings))]
  BY <1>5, <1>6, <1>7, <1>11 DEF ReadUniversities
<1> HIDE DEF other, uni, data, n, E
<1>13. ReadUniversities(other) = [i \in 1 .. n |-> E(data[n + 1 - i])]
  BY <1>8, <1>9, <1>12 DEF E
<1>14. Len(ReadUniversities(uni)) = n
  <2>1. [i \in 1 .. n |-> E(data[i])] \in [1 .. n -> { E(data[i]) : i \in 1 .. n }]
    OBVIOUS
  <2>2. [i \in 1 .. n |-> E(data[i])] \in Seq({ E(data[i]) : i \in 1 .. n })
    BY <1>9, <2>1, SeqDef
  <2>3. QED BY <1>9, <1>10, <2>1, <2>2, LenProperties
<1>15. ReadUniversities(other) = Backwards(ReadUniversities(uni))
  BY <1>9, <1>10, <1>13, <1>14 DEF Backwards
<1>16. ReadUniversities(other) # Broken
  <2>1. ReadUniversities(other) \in [1 .. n -> { E(data[n + 1 - i]) : i \in 1 .. n }]
    BY <1>13
  <2>2. QED BY <2>1 DEF MarksApart
<1>17. QED BY <1>15, <1>16 DEF other, uni

-----------------------------------------------------------------------------
(* The order of records: lists.                                            *)

\* Another artifact lists the records of one that can be read backwards.
TurnsTo(artifact, other) ==
  /\ other = Reversed(artifact)
  /\ other # Broken
  /\ DataOf(other) = Backwards(DataOf(artifact))

LEMMA TransportBackwards ==
  ASSUME MarksApart, NEW world \in World, \A d \in DOMAIN world : Complete(world[d]),
         ReadTransport(world.trn) # Broken
  PROVE  LET read == ReadTransport(world.trn)
             turned == ReadTransport(Mirrored(world).trn)
         IN  /\ turned # Broken
             /\ turned.locations = Backwards(read.locations)
             /\ turned.statusSnapshots = Backwards(read.statusSnapshots)
             /\ turned.routeSnapshots = Backwards(read.routeSnapshots)
<1> DEFINE trn == world.trn
           other == Mirrored(world).trn
<1>1. trn \in TransportData /\ Complete(trn)
  BY CompleteWorld DEF World
<1>2. /\ other \in TransportData /\ Complete(other)
      /\ other.locations = Reversed(trn.locations)
      /\ other.statusSnapshots = Reversed(trn.statusSnapshots)
      /\ other.routeSnapshots = Reversed(trn.routeSnapshots)
  BY <1>1, MirroredWorld, MirroredTransport
<1>3. \A artifact \in {trn.locations, trn.statusSnapshots, trn.routeSnapshots} :
        ReadJsonArtifact(trn.manifest, artifact) = artifact
  BY <1>1 DEF Complete, ReadJsonArtifact, TransportData
<1>4. /\ trn.locations # Broken /\ trn.statusSnapshots # Broken
      /\ trn.routeSnapshots # Broken
  BY <1>3 DEF ReadTransport
<1>5. /\ TurnsTo(trn.locations, other.locations)
      /\ TurnsTo(trn.statusSnapshots, other.statusSnapshots)
      /\ TurnsTo(trn.routeSnapshots, other.routeSnapshots)
  <2>1. /\ IsArtifact(trn.locations, TransportLocation)
        /\ IsArtifact(trn.statusSnapshots, TransportStatusSnapshot)
        /\ IsArtifact(trn.routeSnapshots, TransportRouteSnapshot)
    BY <1>1 DEF TransportData, IsArtifact, TransportArtifact
  <2>2. QED BY <1>2, <1>4, <2>1, ReversedArtifact DEF TurnsTo
<1>6. \A artifact \in {other.locations, other.statusSnapshots, other.routeSnapshots} :
        ReadJsonArtifact(other.manifest, artifact) = artifact
  BY <1>2 DEF Complete, ReadJsonArtifact, TransportData
<1> HIDE DEF trn, other
<1>7. ReadTransport(trn) =
        [locations |-> DataOf(trn.locations),
         statusSnapshots |-> DataOf(trn.statusSnapshots),
         routeSnapshots |-> DataOf(trn.routeSnapshots)]
  BY <1>3, <1>4 DEF ReadTransport
<1>8. ReadTransport(other) =
        [locations |-> DataOf(other.locations),
         statusSnapshots |-> DataOf(other.statusSnapshots),
         routeSnapshots |-> DataOf(other.routeSnapshots)]
  BY <1>5, <1>6 DEF ReadTransport, TurnsTo
<1>9. ReadTransport(other) # Broken
  <2>1. \A x, y, z : [locations |-> x, statusSnapshots |-> y, routeSnapshots |-> z] # Broken
    BY MarkOfArtifact
  <2>2. QED BY <1>8, <2>1
<1>10. QED BY <1>5, <1>7, <1>8, <1>9 DEF TurnsTo, trn, other

LEMMA TelecomBackwards ==
  ASSUME MarksApart, NEW world \in World, \A d \in DOMAIN world : Complete(world[d]),
         ReadTelecom(world.tel) # Broken
  PROVE  LET read == ReadTelecom(world.tel)
             turned == ReadTelecom(Mirrored(world).tel)
         IN  /\ turned # Broken
             /\ turned.plans = Backwards(read.plans)
             /\ turned.operators = Backwards(read.operators)
             /\ turned.areaCodes = Backwards(read.areaCodes)
             /\ turned.prefixes = Backwards(read.prefixes)
             /\ turned.ranges = Backwards(read.ranges)
<1> DEFINE tel == world.tel
           other == Mirrored(world).tel
<1>1. tel \in TelecomData /\ Complete(tel)
  BY CompleteWorld DEF World
<1>2. /\ other \in TelecomData /\ Complete(other)
      /\ other.plans = Reversed(tel.plans)
      /\ other.operators = Reversed(tel.operators)
      /\ other.areaCodes = Reversed(tel.areaCodes)
      /\ other.prefixes = Reversed(tel.prefixes)
      /\ other.ranges = Reversed(tel.ranges)
  BY <1>1, MirroredWorld, MirroredTelecom
<1>3. \A artifact \in {tel.plans, tel.operators, tel.areaCodes, tel.prefixes, tel.ranges} :
        ReadJsonArtifact(tel.manifest, artifact) = artifact
  BY <1>1 DEF Complete, ReadJsonArtifact, TelecomData
<1>4. /\ tel.plans # Broken /\ tel.operators # Broken /\ tel.areaCodes # Broken
      /\ tel.prefixes # Broken /\ tel.ranges # Broken
  BY <1>3 DEF ReadTelecom
<1>5. /\ TurnsTo(tel.plans, other.plans)
      /\ TurnsTo(tel.operators, other.operators)
      /\ TurnsTo(tel.areaCodes, other.areaCodes)
      /\ TurnsTo(tel.prefixes, other.prefixes)
      /\ TurnsTo(tel.ranges, other.ranges)
  <2>1. /\ IsArtifact(tel.plans, CountryNumberingPlan)
        /\ IsArtifact(tel.operators, TelecomOperator)
        /\ IsArtifact(tel.areaCodes, FixedAreaCode)
        /\ IsArtifact(tel.prefixes, MobilePrefix)
        /\ IsArtifact(tel.ranges, NumberRange)
    BY <1>1 DEF TelecomData, IsArtifact, TelecomArtifact
  <2>2. QED BY <1>2, <1>4, <2>1, ReversedArtifact DEF TurnsTo
<1>6. \A artifact \in { other.plans, other.operators, other.areaCodes, other.prefixes,
                        other.ranges } :
        ReadJsonArtifact(other.manifest, artifact) = artifact
  BY <1>2 DEF Complete, ReadJsonArtifact, TelecomData
<1> HIDE DEF tel, other
<1>7. ReadTelecom(tel) =
        [plans |-> DataOf(tel.plans), operators |-> DataOf(tel.operators),
         areaCodes |-> DataOf(tel.areaCodes), prefixes |-> DataOf(tel.prefixes),
         ranges |-> DataOf(tel.ranges)]
  BY <1>3, <1>4 DEF ReadTelecom
<1>8. ReadTelecom(other) =
        [plans |-> DataOf(other.plans), operators |-> DataOf(other.operators),
         areaCodes |-> DataOf(other.areaCodes), prefixes |-> DataOf(other.prefixes),
         ranges |-> DataOf(other.ranges)]
  BY <1>5, <1>6 DEF ReadTelecom, TurnsTo
<1>9. ReadTelecom(other) # Broken
  <2>1. \A v, w, x, y, z : [plans |-> v, operators |-> w, areaCodes |-> x, prefixes |-> y,
                            ranges |-> z] # Broken
    BY MarkOfArtifact
  <2>2. QED BY <1>8, <2>1
<1>10. QED BY <1>5, <1>7, <1>8, <1>9 DEF TurnsTo, tel, other

\* The join of a release depends on no order.
Joined(world) ==
  ReadUniversities(world.uni) # Broken
  => ToldApart(DataOf(world.uni.assets), DataOf(world.uni.rankings))

\* An endpoint that reads its artifacts reads them listed backwards, and has
\* its records backwards.
LEMMA MirroredRecords ==
  ASSUME MarksApart, NEW world \in World, \A d \in DOMAIN world : Complete(world[d]),
         NEW e \in RecordEndpoint, AllRead(e, world), Joined(world)
  PROVE  /\ AllRead(e, Mirrored(world))
         /\ Records(e, Mirrored(world)) = Backwards(Records(e, world))
<1> DEFINE other == Mirrored(world)
<1>1. other \in World /\ \A d \in DOMAIN other : Complete(other[d])
  BY MirroredWorld
<1>2. CASE e \in GeographyEndpoint
  <2>1. world.geo[e] # Broken
    BY <1>2, KindsOfEndpoints DEF AllRead
  <2>2. world.geo \in GeographyData /\ other.geo = Reordered(world.geo)
    BY MirroredWorld DEF World
  <2>3. other.geo[e] = Reversed(world.geo[e])
    BY <1>2, <2>2, MirroredGeography
  <2>4. \E S : IsArtifact(world.geo[e], S)
    BY <1>2, <2>2 DEF GeographyData, GeographyEndpoint, IsArtifact, GeographyArtifact
  <2>5. PICK S : IsArtifact(world.geo[e], S)
    BY <2>4
  <2>6. other.geo[e] # Broken /\ DataOf(other.geo[e]) = Backwards(DataOf(world.geo[e]))
    BY <2>1, <2>3, <2>5, ReversedArtifact
  <2>7. Records(e, world) = DataOf(world.geo[e])
    BY <1>2, CompleteWorld, GeographyRead
  <2> HIDE DEF other
  <2>8. Records(e, other) = DataOf(other.geo[e])
    BY <1>1, <1>2, CompleteWorld, GeographyRead
  <2>9. AllRead(e, other)
    BY <1>2, <2>6, KindsOfEndpoints DEF AllRead
  <2>10. QED BY <2>6, <2>7, <2>8, <2>9 DEF other
<1>3. CASE e = "universities"
  <2>1. ReadUniversities(world.uni) # Broken
    BY <1>3, KindsOfEndpoints DEF AllRead
  <2>2. /\ ReadUniversities(other.uni) # Broken
        /\ ReadUniversities(other.uni) = Backwards(ReadUniversities(world.uni))
    BY <2>1, UniversitiesBackwards DEF Joined
  <2> HIDE DEF other
  <2>3. \A w : Records(e, w) = ReadUniversities(w.uni)
    BY <1>3, KindsOfEndpoints DEF Records
  <2>4. AllRead(e, other)
    BY <1>3, <2>2, KindsOfEndpoints DEF AllRead
  <2>5. QED BY <2>2, <2>3, <2>4 DEF other
<1>4. CASE e \in TransportEndpoint
  <2>1. ReadTransport(world.trn) # Broken
    BY <1>4, KindsOfEndpoints DEF AllRead
  <2>2. /\ ReadTransport(other.trn) # Broken
        /\ ReadTransport(other.trn).locations = Backwards(ReadTransport(world.trn).locations)
        /\ ReadTransport(other.trn).statusSnapshots
             = Backwards(ReadTransport(world.trn).statusSnapshots)
        /\ ReadTransport(other.trn).routeSnapshots
             = Backwards(ReadTransport(world.trn).routeSnapshots)
    BY <2>1, TransportBackwards
  <2> HIDE DEF other
  <2>3. AllRead(e, other)
    BY <1>4, <2>2, KindsOfEndpoints DEF AllRead
  <2>4. Records(e, other) = Backwards(Records(e, world))
    <3>1. CASE e = "locations"
      BY <1>4, <2>2, <3>1, KindsOfEndpoints DEF Records
    <3>2. CASE e = "status-snapshots"
      BY <1>4, <2>2, <3>2, KindsOfEndpoints DEF Records
    <3>3. CASE e = "route-snapshots"
      BY <1>4, <2>2, <3>3, KindsOfEndpoints DEF Records
    <3>4. QED BY <1>4, <3>1, <3>2, <3>3 DEF TransportEndpoint
  <2>5. QED BY <2>3, <2>4 DEF other
<1>5. CASE e \in TelecomEndpoint
  <2>1. ReadTelecom(world.tel) # Broken
    BY <1>5, KindsOfEndpoints DEF AllRead
  <2>2. /\ ReadTelecom(other.tel) # Broken
        /\ ReadTelecom(other.tel).plans = Backwards(ReadTelecom(world.tel).plans)
        /\ ReadTelecom(other.tel).operators = Backwards(ReadTelecom(world.tel).operators)
        /\ ReadTelecom(other.tel).areaCodes = Backwards(ReadTelecom(world.tel).areaCodes)
        /\ ReadTelecom(other.tel).prefixes = Backwards(ReadTelecom(world.tel).prefixes)
        /\ ReadTelecom(other.tel).ranges = Backwards(ReadTelecom(world.tel).ranges)
    BY <2>1, TelecomBackwards
  <2> HIDE DEF other
  <2>3. AllRead(e, other)
    BY <1>5, <2>2, KindsOfEndpoints DEF AllRead
  <2>4. Records(e, other) = Backwards(Records(e, world))
    <3>1. CASE e = "country-numbering-plans"
      BY <1>5, <2>2, <3>1, KindsOfEndpoints DEF Records
    <3>2. CASE e = "operators"
      BY <1>5, <2>2, <3>2, KindsOfEndpoints DEF Records
    <3>3. CASE e = "fixed-area-codes"
      BY <1>5, <2>2, <3>3, KindsOfEndpoints DEF Records
    <3>4. CASE e = "mobile-prefixes"
      BY <1>5, <2>2, <3>4, KindsOfEndpoints DEF Records
    <3>5. CASE e = "number-ranges"
      BY <1>5, <2>2, <3>5, KindsOfEndpoints DEF Records
    <3>6. QED BY <1>5, <3>1, <3>2, <3>3, <3>4, <3>5 DEF TelecomEndpoint
  <2>5. QED BY <2>3, <2>4 DEF other
<1>6. QED BY <1>2, <1>3, <1>4, <1>5 DEF RecordEndpoint

\* What the records of an endpoint are sorted by are numbers.
LEMMA KeysRead ==
  ASSUME NEW world \in World, \A d \in DOMAIN world : Complete(world[d]),
         NEW e \in RecordEndpoint, AllRead(e, world)
  PROVE  \A i \in DOMAIN Records(e, world) :
           /\ SortKey(e, Records(e, world)[i]) \in Int
           /\ TieKey(e, Records(e, world)[i]) \in Int
<1> DEFINE records == Records(e, world)
<1>1. CASE e \in GeographyEndpoint
  <2>1. world.geo[e] # Broken
    BY <1>1, KindsOfEndpoints DEF AllRead
  <2>2. records \in Seq(GeographyRecord)
    BY <1>1, <2>1, CompleteWorld, GeographyRead
  <2> HIDE DEF records
  <2>3. \A i \in DOMAIN records : records[i] \in GeographyRecord
    BY <2>2, ElementsOfSeq
  <2>4. \A i \in DOMAIN records : records[i].nameEn \in Int
    BY <2>3 DEF GeographyRecord, GovernorateRecord, DistrictRecord, SubdistrictRecord,
       LocalityRecord, Rank
  <2>5. \A x : SortKey(e, x) = x.nameEn
    BY <1>1 DEF SortKey, GeographyEndpoint
  <2>6. \A x : TieKey(e, x) = 0
    BY <1>1, KindsOfEndpoints DEF TieKey
  <2>7. QED BY <2>4, <2>5, <2>6 DEF records
<1>2. CASE e = "universities"
  <2>1. ReadUniversities(world.uni) # Broken
    BY <1>2, KindsOfEndpoints DEF AllRead
  <2>2. records = ReadUniversities(world.uni)
    BY <1>2, KindsOfEndpoints DEF Records
  <2>3. records \in Seq(EnrichedUniversity(world.uni))
    BY <2>1, <2>2, CompleteWorld, UniversitiesRead
  <2> HIDE DEF records
  <2>4. \A i \in DOMAIN records : records[i] \in EnrichedUniversity(world.uni)
    BY <2>3, ElementsOfSeq
  <2>5. \A i \in DOMAIN records : records[i].nameEn \in Int
    BY <2>4 DEF EnrichedUniversity, EnrichUniversity, UniversityRecord, Rank
  <2>6. \A x : SortKey(e, x) = x.nameEn /\ TieKey(e, x) = 0
    BY <1>2, KindsOfEndpoints DEF SortKey, TieKey
  <2>7. QED BY <2>5, <2>6 DEF records
<1>3. CASE e \in TransportEndpoint
  <2> DEFINE read == ReadTransport(world.trn)
  <2>1. read # Broken
    BY <1>3, KindsOfEndpoints DEF AllRead
  <2>2. /\ read.locations \in Seq(TransportLocation)
        /\ read.statusSnapshots \in Seq(TransportStatusSnapshot)
        /\ read.routeSnapshots \in Seq(TransportRouteSnapshot)
    BY <1>3, <2>1, CompleteWorld, TransportRead
  <2> HIDE DEF read
  <2>3. \A x : TieKey(e, x) = x.id
    BY <1>3 DEF TieKey
  <2>4. CASE e = "locations"
    <3>1. records = read.locations
      BY <1>3, <2>4, KindsOfEndpoints DEF Records, read
    <3> HIDE DEF records
    <3>2. \A i \in DOMAIN records : records[i] \in TransportLocation
      BY <2>2, <3>1, ElementsOfSeq
    <3>3. \A i \in DOMAIN records : records[i].nameEn \in Int /\ records[i].id \in Int
      BY <3>2 DEF TransportLocation, Rank
    <3>4. \A x : SortKey(e, x) = x.nameEn
      BY <2>4 DEF SortKey
    <3>5. QED BY <2>3, <3>3, <3>4 DEF records
  <2>5. CASE e = "status-snapshots"
    <3>1. records = read.statusSnapshots
      BY <1>3, <2>5, KindsOfEndpoints DEF Records, read
    <3> HIDE DEF records
    <3>2. \A i \in DOMAIN records : records[i] \in TransportStatusSnapshot
      BY <2>2, <3>1, ElementsOfSeq
    <3>3. \A i \in DOMAIN records : records[i].statusAsOf \in Int /\ records[i].id \in Int
      BY <3>2 DEF TransportStatusSnapshot, Rank
    <3>4. \A x : SortKey(e, x) = x.statusAsOf
      BY <2>5 DEF SortKey, GeographyEndpoint
    <3>5. QED BY <2>3, <3>3, <3>4 DEF records
  <2>6. CASE e = "route-snapshots"
    <3>1. records = read.routeSnapshots
      BY <1>3, <2>6, KindsOfEndpoints DEF Records, read
    <3> HIDE DEF records
    <3>2. \A i \in DOMAIN records : records[i] \in TransportRouteSnapshot
      BY <2>2, <3>1, ElementsOfSeq
    <3>3. \A i \in DOMAIN records : records[i].statusAsOf \in Int /\ records[i].id \in Int
      BY <3>2 DEF TransportRouteSnapshot, Rank
    <3>4. \A x : SortKey(e, x) = x.statusAsOf
      BY <2>6 DEF SortKey, GeographyEndpoint
    <3>5. QED BY <2>3, <3>3, <3>4 DEF records
  <2>7. QED BY <1>3, <2>4, <2>5, <2>6 DEF TransportEndpoint
<1>4. CASE e \in TelecomEndpoint
  <2> DEFINE read == ReadTelecom(world.tel)
  <2>1. read # Broken
    BY <1>4, KindsOfEndpoints DEF AllRead
  <2>2. /\ read.plans \in Seq(CountryNumberingPlan)
        /\ read.operators \in Seq(TelecomOperator)
        /\ read.areaCodes \in Seq(FixedAreaCode)
        /\ read.prefixes \in Seq(MobilePrefix)
        /\ read.ranges \in Seq(NumberRange)
    BY <1>4, <2>1, CompleteWorld, TelecomRead
  <2> HIDE DEF read
  <2>3. \A x : TieKey(e, x) = 0
    BY <1>4, KindsOfEndpoints DEF TieKey
  <2>4. CASE e = "country-numbering-plans"
    <3>1. records = read.plans
      BY <1>4, <2>4, KindsOfEndpoints DEF Records, read
    <3> HIDE DEF records
    <3>2. \A i \in DOMAIN records : records[i] \in CountryNumberingPlan
      BY <2>2, <3>1, ElementsOfSeq
    <3>3. \A i \in DOMAIN records : records[i].countryCode \in Int
      BY <3>2 DEF CountryNumberingPlan, Rank
    <3>4. \A x : SortKey(e, x) = x.countryCode
      BY <2>4 DEF SortKey, GeographyEndpoint
    <3>5. QED BY <2>3, <3>3, <3>4 DEF records
  <2>5. CASE e = "operators"
    <3>1. records = read.operators
      BY <1>4, <2>5, KindsOfEndpoints DEF Records, read
    <3> HIDE DEF records
    <3>2. \A i \in DOMAIN records : records[i] \in TelecomOperator
      BY <2>2, <3>1, ElementsOfSeq
    <3>3. \A i \in DOMAIN records : records[i].nameEn \in Int
      BY <3>2 DEF TelecomOperator, Rank
    <3>4. \A x : SortKey(e, x) = x.nameEn
      BY <2>5 DEF SortKey
    <3>5. QED BY <2>3, <3>3, <3>4 DEF records
  <2>6. CASE e = "fixed-area-codes"
    <3>1. records = read.areaCodes
      BY <1>4, <2>6, KindsOfEndpoints DEF Records, read
    <3> HIDE DEF records
    <3>2. \A i \in DOMAIN records : records[i] \in FixedAreaCode
      BY <2>2, <3>1, ElementsOfSeq
    <3>3. \A i \in DOMAIN records : records[i].areaCode \in Int
      BY <3>2 DEF FixedAreaCode, Rank
    <3>4. \A x : SortKey(e, x) = x.areaCode
      BY <2>6 DEF SortKey, GeographyEndpoint
    <3>5. QED BY <2>3, <3>3, <3>4 DEF records
  <2>7. CASE e = "mobile-prefixes"
    <3>1. records = read.prefixes
      BY <1>4, <2>7, KindsOfEndpoints DEF Records, read
    <3> HIDE DEF records
    <3>2. \A i \in DOMAIN records : records[i] \in MobilePrefix
      BY <2>2, <3>1, ElementsOfSeq
    <3>3. \A i \in DOMAIN records : records[i].prefix \in Int
      BY <3>2 DEF MobilePrefix, Rank
    <3>4. \A x : SortKey(e, x) = x.prefix
      BY <2>7 DEF SortKey, GeographyEndpoint
    <3>5. QED BY <2>3, <3>3, <3>4 DEF records
  <2>8. CASE e = "number-ranges"
    <3>1. records = read.ranges
      BY <1>4, <2>8, KindsOfEndpoints DEF Records, read
    <3> HIDE DEF records
    <3>2. \A i \in DOMAIN records : records[i] \in NumberRange
      BY <2>2, <3>1, ElementsOfSeq
    <3>3. \A i \in DOMAIN records : records[i].id \in Int
      BY <3>2 DEF NumberRange, Rank
    <3>4. \A x : SortKey(e, x) = x.id
      BY <2>8 DEF SortKey, GeographyEndpoint
    <3>5. QED BY <2>3, <3>3, <3>4 DEF records
  <2>9. QED BY <1>4, <2>4, <2>5, <2>6, <2>7, <2>8 DEF TelecomEndpoint
<1>5. QED BY <1>1, <1>2, <1>3, <1>4 DEF RecordEndpoint

\* With no two records of one key the list is the same, in whatever order the
\* records were.
LEMMA ListBackwards ==
  ASSUME NEW S, NEW records \in Seq(S), NEW e, DistinctKeys(e, records),
         \A i \in DOMAIN records : /\ SortKey(e, records[i]) \in Int
                                   /\ TieKey(e, records[i]) \in Int,
         NEW query, query.order \in SortOrders
  PROVE  ListOf(e, Backwards(records), query) = ListOf(e, records, query)
<1> DEFINE n == Len(records)
           other == Backwards(records)
           chosen == Matches(e, records, query)
           compared == Ordering(e, records, query.order)
           turned == Ordering(e, other, query.order)
           Sooner(x, y) == IF query.order = "asc" THEN Ahead(e, x, y) ELSE Ahead(e, y, x)
<1>1. /\ n \in Nat /\ DOMAIN records = 1 .. n /\ DOMAIN other = 1 .. n
      /\ \A i \in 1 .. n : n + 1 - i \in 1 .. n /\ n + 1 - (n + 1 - i) = i
                           /\ other[i] = records[n + 1 - i]
  BY BackwardsFacts
<1>2. chosen \in SUBSET (DOMAIN records)
  BY DEF Matches
<1>3. Matches(e, other, query) = Opposite(n, chosen)
  BY <1>1 DEF Matches, Opposite
<1>4. WeakOrder(chosen, compared)
  <2>1. IsOrdering(e, records, query.order, compared)
    BY DEF IsOrdering
  <2> HIDE DEF chosen, compared
  <2>2. QED BY <1>2, <2>1, OrderingIsWeak
<1>5. \A i, j \in 1 .. n :
        /\ << i, j >> \in compared <=> Sooner(records[i], records[j])
        /\ << i, j >> \in turned <=> Sooner(other[i], other[j])
  BY <1>1 DEF Ordering
<1>6. \A i, j \in 1 .. n :
        i # j => Sooner(records[i], records[j]) \/ Sooner(records[j], records[i])
  <2>1. ASSUME NEW i \in 1 .. n, NEW j \in 1 .. n, i # j
        PROVE  Ahead(e, records[i], records[j]) \/ Ahead(e, records[j], records[i])
    <3>1. SortKey(e, records[i]) # SortKey(e, records[j])
      BY <1>1, <2>1 DEF DistinctKeys
    <3>2. SortKey(e, records[i]) \in Int /\ SortKey(e, records[j]) \in Int
      BY <1>1
    <3>3. QED BY <3>1, <3>2 DEF Ahead
  <2>2. QED BY <2>1
<1> HIDE DEF n, other, chosen, compared, turned, Sooner
<1>7. TellsApart(chosen, compared)
  BY <1>1, <1>2, <1>5, <1>6 DEF TellsApart
<1>8. SameComparison(n, compared, turned)
  BY <1>1, <1>5 DEF SameComparison
<1>9. Arranged(other, Opposite(n, chosen), turned) = Arranged(records, chosen, compared)
  BY <1>2, <1>4, <1>7, <1>8, ArrangedBackwards DEF n, other
<1>10. QED BY <1>3, <1>9 DEF ListOf, other, chosen, compared, turned

\* A list that is not of a table has one answer at least.
LEMMA ListHasAnswer ==
  ASSUME NEW world \in World, NEW e \in RecordEndpoint, NEW raw
  PROVE  \E a : a \in ListAnswers(e, raw, world, None)
<1>1. CASE e \in GeographyEndpoint
  <2> DEFINE geo == [world.geo EXCEPT !.row = None]
  <2>1. ListAnswers(e, raw, world, None) = GeographyList(e, raw, geo)
    BY <1>1, KindsOfEndpoints DEF ListAnswers
  <2>2. geo.row = None
    BY MarkedImported DEF IsMarked
  <2> HIDE DEF geo
  <2>3. ASSUME NEW x PROVE \E a : a \in GeographyPages(raw, {x})
    <3>1. GeographyPages(raw, {x}) =
            IF ValidQuery(raw)
              THEN { BuildOffsetPaginatedResponse(a, ParsedQuery(raw)) : a \in {x} }
              ELSE { Failure(400) }
      BY DEF GeographyPages
    <3>2. CASE ValidQuery(raw)
      <4>1. BuildOffsetPaginatedResponse(x, ParsedQuery(raw)) \in GeographyPages(raw, {x})
        BY <3>1, <3>2
      <4>2. QED BY <4>1
    <3>3. CASE ~ ValidQuery(raw)
      BY <3>1, <3>3
    <3>4. QED BY <3>2, <3>3
  <2>4. \E x : GeographyList(e, raw, geo) = GeographyPages(raw, {x})
    <3>1. CASE e = "governorates"
      <4>1. GeographyList(e, raw, geo) = GeographyPages(raw, ListGovernorates(ParsedQuery(raw), geo))
        BY <3>1 DEF GeographyList, GovernoratesController
      <4>2. \E x : ListGovernorates(ParsedQuery(raw), geo) = {x}
        BY <2>2, Zenon DEF ListGovernorates, Imported
      <4>3. QED BY <4>1, <4>2
    <3>2. CASE e = "districts"
      <4>1. GeographyList(e, raw, geo) = GeographyPages(raw, ListDistricts(ParsedQuery(raw), geo))
        BY <3>2 DEF GeographyList, DistrictsController
      <4>2. \E x : ListDistricts(ParsedQuery(raw), geo) = {x}
        BY <2>2, Zenon DEF ListDistricts, Imported
      <4>3. QED BY <4>1, <4>2
    <3>3. CASE e = "subdistricts"
      <4>1. GeographyList(e, raw, geo) = GeographyPages(raw, ListSubdistricts(ParsedQuery(raw), geo))
        BY <3>3 DEF GeographyList, SubdistrictsController
      <4>2. \E x : ListSubdistricts(ParsedQuery(raw), geo) = {x}
        BY <2>2, Zenon DEF ListSubdistricts, Imported
      <4>3. QED BY <4>1, <4>2
    <3>4. CASE e = "localities"
      <4>1. GeographyList(e, raw, geo) = GeographyPages(raw, ListLocalities(ParsedQuery(raw), geo))
        BY <3>4 DEF GeographyList, LocalitiesController
      <4>2. \E x : ListLocalities(ParsedQuery(raw), geo) = {x}
        BY <2>2, Zenon DEF ListLocalities, Imported
      <4>3. QED BY <4>1, <4>2
    <3>5. QED BY <1>1, <3>1, <3>2, <3>3, <3>4 DEF GeographyEndpoint
  <2>5. QED BY <2>1, <2>3, <2>4
<1>2. CASE e = "universities"
  <2>1. ListAnswers(e, raw, world, None) = { UniversitiesController(raw, world.uni) }
    BY <1>2, KindsOfEndpoints DEF ListAnswers
  <2>2. QED BY <2>1
<1>3. CASE e \in TransportEndpoint
  <2>1. ListAnswers(e, raw, world, None) = { TransportList(e, raw, world.trn) }
    BY <1>3, KindsOfEndpoints DEF ListAnswers
  <2>2. QED BY <2>1
<1>4. CASE e \in TelecomEndpoint
  <2>1. ListAnswers(e, raw, world, None) = { TelecomList(e, raw, world.tel) }
    BY <1>4, KindsOfEndpoints DEF ListAnswers
  <2>2. QED BY <2>1
<1>5. QED BY <1>1, <1>2, <1>3, <1>4 DEF RecordEndpoint

\* What the artifacts of an endpoint answer when they can be read: the page of
\* one list.
LEMMA OneAnswer ==
  ASSUME MarksApart, NEW world \in World, \A d \in DOMAIN world : Complete(world[d]),
         NEW e \in RecordEndpoint, AllRead(e, world), NEW raw \in RawQuery(FilterOf(e)),
         ValidQuery(raw), NEW a \in ListAnswers(e, raw, world, None)
  PROVE  a = [status |-> 200,
              data |-> PageOf(ListOf(e, Records(e, world), ParsedQuery(raw)),
                              ParsedQuery(raw), ContextOf(e, world, None))]
<1>1. RecordAnswer(e, raw, world, None, a)
  BY RecordLists
<1>2. Broken \notin ReadBy(e, world, None)
  BY RecordsRead
<1>3. QED BY <1>1, <1>2 DEF RecordAnswer, ListOf

\* What an endpoint answers from artifacts it answers from them backwards.
LEMMA AnswersBackwards ==
  ASSUME MarksApart, NEW world \in World, \A d \in DOMAIN world : Complete(world[d]),
         Joined(world), NEW e \in RecordEndpoint, NEW raw \in RawQuery(FilterOf(e)),
         NEW a \in ListAnswers(e, raw, world, None), Succeeded(a),
         DistinctKeys(e, Records(e, world))
  PROVE  a \in ListAnswers(e, raw, Mirrored(world), None)
<1> DEFINE other == Mirrored(world)
           records == Records(e, world)
           query == ParsedQuery(raw)
<1>1. AllRead(e, world)
  BY ReadForList
<1>2. /\ other \in World /\ \A d \in DOMAIN other : Complete(other[d])
      /\ ContextOf(e, other, None) = ContextOf(e, world, None)
  BY MirroredWorld
<1>3. AllRead(e, other) /\ Records(e, other) = Backwards(records)
  BY <1>1, MirroredRecords
<1>4. ValidQuery(raw)
  <2>1. RecordAnswer(e, raw, world, None, a)
    BY RecordLists
  <2>2. a # Failure(400) /\ a # ServerError
    BY DEF Succeeded, Failure, ServerError
  <2>3. QED BY <2>1, <2>2 DEF RecordAnswer
<1>5. query.order \in SortOrders
  BY <1>4, ParsedQueryType
<1>6. PICK S : records \in Seq(S)
  BY <1>1, RecordsRead
<1>7. \A i \in DOMAIN records : /\ SortKey(e, records[i]) \in Int
                                /\ TieKey(e, records[i]) \in Int
  BY <1>1, KeysRead
<1> HIDE DEF other
<1>8. PICK b : b \in ListAnswers(e, raw, other, None)
  BY <1>2, ListHasAnswer
<1>9. b = [status |-> 200,
           data |-> PageOf(ListOf(e, Records(e, other), query), query, ContextOf(e, other, None))]
  BY <1>2, <1>3, <1>4, <1>8, OneAnswer
<1>10. a = [status |-> 200,
            data |-> PageOf(ListOf(e, records, query), query, ContextOf(e, world, None))]
  BY <1>1, <1>4, OneAnswer
<1> HIDE DEF records, query
<1>11. ListOf(e, Backwards(records), query) = ListOf(e, records, query)
  BY <1>5, <1>6, <1>7, ListBackwards DEF records
<1>12. a = b
  BY <1>2, <1>3, <1>9, <1>10, <1>11
<1>13. QED BY <1>8, <1>12 DEF other

\* An order in which a table shows rows is one in which it shows them when
\* they were written in the opposite order.
LEMMA TableBackwards ==
  ASSUME NEW S, NEW records \in Seq(S), \A i \in DOMAIN records : records[i].nameEn \in Nat,
         NEW chosen \in SUBSET (DOMAIN records), NEW e \in GeographyEndpoint,
         NEW order \in SortOrders, NEW s, Shows(s, e, records, chosen, order)
  PROVE  s \in DatabaseOrders(Backwards(records), Opposite(Len(records), chosen), order)
<1> DEFINE n == Len(records)
           N == Cardinality(chosen)
           other == Backwards(records)
           turned == Opposite(n, chosen)
<1>1. /\ n \in Nat /\ DOMAIN records = 1 .. n
      /\ \A i \in 1 .. n : n + 1 - i \in 1 .. n /\ n + 1 - (n + 1 - i) = i
                           /\ other[i] = records[n + 1 - i]
  BY BackwardsFacts
<1>2. /\ \A i \in chosen : n + 1 - i \in turned
      /\ Cardinality(turned) = N
  <2>1. chosen \in SUBSET (1 .. n)
    BY <1>1
  <2> HIDE DEF n
  <2>2. QED BY <1>1, <2>1, OppositeCounts
<1>3. N \in Nat
  BY <1>1, ChosenIsFinite
<1>4. PICK f \in [1 .. N -> chosen] :
        /\ s = [k \in 1 .. N |-> records[f[k]]]
        /\ \A k, l \in 1 .. N :
             k < l => f[k] # f[l] /\ ~ Less(e, records[f[l]], records[f[k]], order)
  BY DEF Shows
<1> DEFINE g == [k \in 1 .. N |-> n + 1 - f[k]]
<1>5. \A k \in 1 .. N : f[k] \in chosen /\ f[k] \in 1 .. n
  BY <1>1, <1>4
<1>6. \A k \in 1 .. N : g[k] = n + 1 - f[k] /\ g[k] \in turned /\ other[g[k]] = records[f[k]]
  <2>1. ASSUME NEW k \in 1 .. N
        PROVE  g[k] = n + 1 - f[k] /\ g[k] \in turned /\ other[g[k]] = records[f[k]]
    <3>1. g[k] = n + 1 - f[k] /\ g[k] \in 1 .. n /\ n + 1 - g[k] = f[k]
      BY <1>1, <1>5
    <3>2. other[g[k]] = records[n + 1 - g[k]]
      BY <1>1, <3>1
    <3>3. QED BY <1>2, <1>5, <3>1, <3>2
  <2>2. QED BY <2>1
<1>7. ASSUME NEW k \in 1 .. N, NEW l \in 1 .. N, k < l
      PROVE  /\ g[k] # g[l]
             /\ IF order = "asc" THEN other[g[k]].nameEn <= other[g[l]].nameEn
                                 ELSE other[g[k]].nameEn >= other[g[l]].nameEn
  <2>1. g[k] # g[l]
    <3>1. f[k] # f[l] /\ f[k] \in 1 .. n /\ f[l] \in 1 .. n
      BY <1>4, <1>5, <1>7
    <3>2. QED BY <1>1, <1>6, <3>1
  <2>2. \A x : SortKey(e, x) = x.nameEn
    BY DEF SortKey, GeographyEndpoint
  <2>3. ~ Less(e, records[f[l]], records[f[k]], order)
    BY <1>4, <1>7
  <2>4. records[f[k]].nameEn \in Nat /\ records[f[l]].nameEn \in Nat
    BY <1>1, <1>5
  <2>5. IF order = "asc" THEN records[f[k]].nameEn <= records[f[l]].nameEn
                         ELSE records[f[k]].nameEn >= records[f[l]].nameEn
    BY <2>2, <2>3, <2>4 DEF Less, SortOrders
  <2>6. QED BY <1>6, <2>1, <2>5
<1>8. g \in [1 .. Cardinality(turned) -> turned] /\ DOMAIN g = 1 .. N
  BY <1>2, <1>6
<1>9. s = [k \in DOMAIN g |-> other[g[k]]]
  BY <1>4, <1>6, <1>8
<1> HIDE DEF g, turned, other, N
<1>10. s \in DatabaseOrders(other, turned, order)
  BY <1>7, <1>8, <1>9 DEF DatabaseOrders
<1>11. QED BY <1>10 DEF other, turned

\* A page of the rows that a table selects is an answer of its endpoint.
LEMMA TableGives ==
  ASSUME NEW e \in GeographyEndpoint, NEW geo, geo.row # None, NEW raw, ValidQuery(raw),
         NEW s \in DatabaseOrders(geo[e], Rows(e, geo[e], ParsedQuery(raw)),
                                  ParsedQuery(raw).order)
  PROVE  [status |-> 200, data |-> PageOf(s, ParsedQuery(raw), GeographyContext(geo))]
           \in GeographyList(e, raw, geo)
<1> DEFINE query == ParsedQuery(raw)
           page == PageOf(s, query, GeographyContext(geo))
<1>1. ASSUME NEW answers, page \in answers
      PROVE  [status |-> 200, data |-> page] \in GeographyPages(raw, answers)
  <2>1. BuildOffsetPaginatedResponse(page, query) = [status |-> 200, data |-> page]
    BY ResponseOfPage
  <2> HIDE DEF page, query
  <2>2. BuildOffsetPaginatedResponse(page, query) \in GeographyPages(raw, answers)
    BY <1>1 DEF GeographyPages, query
  <2>3. QED BY <2>1, <2>2
<1>2. CASE e = "governorates"
  <2>1. Rows(e, geo.governorates, query)
          = { i \in DOMAIN geo.governorates : GovernorateWhere(geo.governorates[i], query) }
    BY <1>2 DEF Rows
  <2>2. ListGovernorates(query, geo) =
          { PageOf(x, query, GeographyContext(geo)) :
              x \in DatabaseOrders(geo.governorates, Rows(e, geo.governorates, query),
                                   query.order) }
    BY <2>1, Zenon DEF ListGovernorates, Imported, FindMany, PageOf, Chosen
  <2>3. page \in ListGovernorates(query, geo)
    BY <1>2, <2>2
  <2>4. GeographyList(e, raw, geo) = GeographyPages(raw, ListGovernorates(query, geo))
    BY <1>2 DEF GeographyList, GovernoratesController
  <2>5. QED BY <1>1, <2>3, <2>4
<1>3. CASE e = "districts"
  <2>1. Rows(e, geo.districts, query)
          = { i \in DOMAIN geo.districts : DistrictWhere(geo.districts[i], query) }
    BY <1>3 DEF Rows
  <2>2. ListDistricts(query, geo) =
          { PageOf(x, query, GeographyContext(geo)) :
              x \in DatabaseOrders(geo.districts, Rows(e, geo.districts, query),
                                   query.order) }
    BY <2>1, Zenon DEF ListDistricts, Imported, FindMany, PageOf, Chosen
  <2>3. page \in ListDistricts(query, geo)
    BY <1>3, <2>2
  <2>4. GeographyList(e, raw, geo) = GeographyPages(raw, ListDistricts(query, geo))
    BY <1>3 DEF GeographyList, DistrictsController
  <2>5. QED BY <1>1, <2>3, <2>4
<1>4. CASE e = "subdistricts"
  <2>1. Rows(e, geo.subdistricts, query)
          = { i \in DOMAIN geo.subdistricts : SubdistrictWhere(geo.subdistricts[i], query) }
    BY <1>4 DEF Rows
  <2>2. ListSubdistricts(query, geo) =
          { PageOf(x, query, GeographyContext(geo)) :
              x \in DatabaseOrders(geo.subdistricts, Rows(e, geo.subdistricts, query),
                                   query.order) }
    BY <2>1, Zenon DEF ListSubdistricts, Imported, FindMany, PageOf, Chosen
  <2>3. page \in ListSubdistricts(query, geo)
    BY <1>4, <2>2
  <2>4. GeographyList(e, raw, geo) = GeographyPages(raw, ListSubdistricts(query, geo))
    BY <1>4 DEF GeographyList, SubdistrictsController
  <2>5. QED BY <1>1, <2>3, <2>4
<1>5. CASE e = "localities"
  <2>1. Rows(e, geo.localities, query)
          = { i \in DOMAIN geo.localities : LocalityWhere(geo.localities[i], query) }
    BY <1>5 DEF Rows
  <2>2. ListLocalities(query, geo) =
          { PageOf(x, query, GeographyContext(geo)) :
              x \in DatabaseOrders(geo.localities, Rows(e, geo.localities, query),
                                   query.order) }
    BY <2>1, Zenon DEF ListLocalities, Imported, FindMany, PageOf, Chosen
  <2>3. page \in ListLocalities(query, geo)
    BY <1>5, <2>2
  <2>4. GeographyList(e, raw, geo) = GeographyPages(raw, ListLocalities(query, geo))
    BY <1>5 DEF GeographyList, LocalitiesController
  <2>5. QED BY <1>1, <2>3, <2>4
<1>6. QED BY <1>2, <1>3, <1>4, <1>5 DEF GeographyEndpoint

\* A page of a table is one of the table that was written in the opposite
\* order.
LEMMA TablesBackwards ==
  ASSUME MarksApart, NEW world \in World, \A d \in DOMAIN world : Complete(world[d]),
         Importable(world.geo), NEW e \in GeographyEndpoint,
         NEW raw \in RawQuery(FilterOf(e)), NEW row, row # None,
         NEW a \in ListAnswers(e, raw, world, row),
         Succeeded(a)
  PROVE  a \in ListAnswers(e, raw, Mirrored(world), row)
<1> DEFINE other == Mirrored(world)
           records == Records(e, world)
           query == ParsedQuery(raw)
           n == Len(records)
           geo == [other.geo EXCEPT !.row = row]
<1>1. e \in RecordEndpoint
  BY DEF RecordEndpoint
<1>2. RecordAnswer(e, raw, world, row, a)
  BY <1>1, RecordLists
<1>3. a # Failure(400) /\ a # ServerError
  BY DEF Succeeded, Failure, ServerError
<1>4. ValidQuery(raw)
  BY <1>2, <1>3 DEF RecordAnswer
<1>5. PICK s : /\ Shows(s, e, records, Rows(e, records, query), query.order)
               /\ a = [status |-> 200, data |-> PageOf(s, query, ContextOf(e, world, row))]
  BY <1>2, <1>3 DEF RecordAnswer
<1>6. query.order \in SortOrders
  BY <1>4, ParsedQueryType
<1>7. records = world.geo[e] /\ records \in Seq(GeographyRecord) /\ world.geo[e] # Broken
  BY CompleteWorld, GeographyRead
<1>8. /\ other \in World /\ other.geo = Reordered(world.geo)
      /\ ContextOf(e, other, row) = ContextOf(e, world, row)
  BY <1>1, MirroredWorld
<1>9. other.geo[e] = Backwards(records)
  <2>1. world.geo \in GeographyData
    BY DEF World
  <2>2. other.geo[e] = Reversed(records)
    BY <1>7, <1>8, <2>1, MirroredGeography
  <2>3. IsArtifact(records, GeographyRecord)
    BY <1>7 DEF IsArtifact, Optional
  <2>4. records # None
    <3> HIDE DEF records
    <3>1. records \in [1 .. Len(records) -> GeographyRecord]
      BY <1>7, LenProperties
    <3>2. None \notin [1 .. Len(records) -> GeographyRecord]
      BY DEF MarksApart
    <3>3. QED BY <3>1, <3>2
  <2>5. QED BY <1>7, <2>2, <2>4 DEF Reversed, Backwards
<1>10. IsMarked(geo, other, row)
  BY <1>8, MarkedImported
<1> HIDE DEF geo, other
<1>11. /\ geo.row # None /\ geo[e] = Backwards(records)
       /\ GeographyContext(geo) = ContextOf(e, world, row)
  <2>1. ContextOf(e, other, row) = GeographyContext(geo)
    BY <1>10, KindsOfEndpoints DEF ContextOf, IsMarked
  <2>2. QED BY <1>8, <1>9, <1>10, <2>1 DEF IsMarked
<1> HIDE DEF records, query
<1>12. \A i \in DOMAIN records : records[i].nameEn \in Nat
  <2>1. \A i \in DOMAIN records : records[i] \in GeographyRecord
    BY <1>7, ElementsOfSeq
  <2>2. QED BY <2>1 DEF GeographyRecord, GovernorateRecord, DistrictRecord,
        SubdistrictRecord, LocalityRecord, Rank
<1>13. Rows(e, records, query) \in SUBSET (DOMAIN records)
  BY DEF Rows
<1>14. Rows(e, Backwards(records), query) = Opposite(n, Rows(e, records, query))
  <2>1. /\ n \in Nat /\ DOMAIN records = 1 .. n /\ DOMAIN Backwards(records) = 1 .. n
        /\ \A i \in 1 .. n : n + 1 - i \in 1 .. n /\ Backwards(records)[i] = records[n + 1 - i]
    BY <1>7, BackwardsFacts
  <2> HIDE DEF n
  <2>2. QED BY <2>1 DEF Rows, Opposite
<1>15. s \in DatabaseOrders(Backwards(records), Opposite(n, Rows(e, records, query)), query.order)
  BY <1>5, <1>6, <1>7, <1>12, <1>13, TableBackwards
<1>16. s \in DatabaseOrders(geo[e], Rows(e, geo[e], query), query.order)
  BY <1>11, <1>14, <1>15
<1>17. [status |-> 200, data |-> PageOf(s, query, GeographyContext(geo))]
         \in GeographyList(e, raw, geo)
  BY <1>4, <1>11, <1>16, TableGives DEF query
<1>18. a \in GeographyList(e, raw, geo)
  BY <1>5, <1>11, <1>17
<1>19. ListAnswers(e, raw, other, row) = GeographyList(e, raw, geo)
  BY KindsOfEndpoints DEF ListAnswers, geo
<1>20. QED BY <1>18, <1>19 DEF other

\* Whatever is asked for, and whether it is in the database or not.
LEMMA ListsBackwards ==
  ASSUME MarksApart, NEW world \in World, \A d \in DOMAIN world : Complete(world[d]),
         Joined(world), NEW e \in Endpoint, NEW t, IsRow(e, world, t),
         NEW raw \in RawQuery(FilterOf(e)),
         NEW a \in ListAnswers(e, raw, world, t), Succeeded(a),
         DistinctKeys(e, Records(e, world))
  PROVE  a \in ListAnswers(e, raw, Mirrored(world), t)
<1>1. CASE e \in DiscoveryEndpoint
  <2>1. Manifests(Mirrored(world)) = Manifests(world)
    BY MirroredWorld
  <2>2. \A w : ListAnswers(e, raw, w, t)
                 = { DiscoveryList(e, raw, m) : m \in OfOneKey(e, Manifests(w)) }
    BY <1>1, KindsOfEndpoints DEF ListAnswers
  <2>3. QED BY <2>1, <2>2
<1>2. CASE e \in GeographyEndpoint
  <2>1. e \in RecordEndpoint
    BY <1>2 DEF RecordEndpoint
  <2>2. CASE t # None
    BY <1>2, <2>2, TablesBackwards DEF IsRow
  <2>3. CASE t = None
    BY <2>1, <2>3, AnswersBackwards
  <2>4. QED BY <2>2, <2>3
<1>3. CASE e \in RecordEndpoint \ GeographyEndpoint
  <2>1. \A w : ListAnswers(e, raw, w, t) = ListAnswers(e, raw, w, None)
    <3>1. CASE e = "universities"
      BY <3>1, KindsOfEndpoints DEF ListAnswers
    <3>2. CASE e \in TransportEndpoint
      BY <3>2, KindsOfEndpoints DEF ListAnswers
    <3>3. CASE e \in TelecomEndpoint
      BY <3>3, KindsOfEndpoints DEF ListAnswers
    <3>4. QED BY <1>3, <3>1, <3>2, <3>3 DEF RecordEndpoint
  <2>2. a \in ListAnswers(e, raw, world, None)
    BY <2>1
  <2>3. a \in ListAnswers(e, raw, Mirrored(world), None)
    BY <1>3, <2>2, AnswersBackwards
  <2>4. QED BY <2>1, <2>3
<1>4. QED BY <1>1, <1>2, <1>3 DEF Endpoint

\* In no release have two logos of a university one identifier, or two of its
\* rankings one year, scope, rank and system: of such the endpoint shows those
\* that the artifact lists first.
JoinsApart == \A r \in Release : Joined(Content[r])

\* An answer depends on what the artifacts contain and not on the order in
\* which they list it, nor on the order in which the rows of a table were
\* written: the sorting of lists, the logo and the rankings of a university and
\* the pages that are cut come out the same (sortByEnglishName, buildLogoMap,
\* buildRankingMap, compareRankings, paginateOffsetItems).
THEOREM OrderIsImmaterial ==
  ASSUME MarksApart, JoinsApart
  PROVE  Spec => []OrderImmaterial
<1>1. ASSUME BrowsingInv PROVE OrderImmaterial
  <2> DEFINE n == session.page
             e == session.endpoint
             world == Content[pages[n].release]
             raw == [session.raw EXCEPT !.page = n]
             a == pages[n].answer
             t == pages[n].row
  <2> SUFFICES ASSUME OnPage, DistinctKeys(e, Records(e, world))
               PROVE  a \in ListAnswers(e, raw, Mirrored(world), t)
    BY DEF OrderImmaterial, Mirrored
  <2>1. session # None /\ n \in DOMAIN pages /\ Succeeded(a)
    BY <1>1 DEF OnPage, BrowsingInv, WalkInv
  <2>2. /\ pages[n].release \in Release /\ e \in Endpoint /\ raw \in RawQuery(FilterOf(e))
        /\ IsRow(e, world, t)
    BY <1>1, <2>1, PagesAnswer
  <2>3. a \in ListAnswers(e, raw, world, t)
    BY <1>1, <2>1 DEF BrowsingInv, WalkInv, IsPage
  <2>4. world \in World /\ \A d \in DOMAIN world : Complete(world[d])
    BY <2>2, ContentFacts
  <2>5. Joined(world)
    BY <2>2 DEF JoinsApart
  <2> HIDE DEF e, world, raw, a, n, t
  <2>6. QED BY <2>1, <2>2, <2>3, <2>4, <2>5, ListsBackwards
<1>2. QED BY <1>1, BrowsingIsInvariant, PTL

===============================================================================
