-------------------------- MODULE TransportEndpoints --------------------------
(***************************************************************************)
(* The list and detail endpoints of transport locations, of snapshots of   *)
(* their status and of routes (src/api/transport).  Every request reads    *)
(* the three artifacts of the release.  trn.manifest is the manifest that  *)
(* is served, and trn.locations, trn.statusSnapshots and                   *)
(* trn.routeSnapshots are its artifacts.                                   *)
(***************************************************************************)
EXTENDS ListQueries

-----------------------------------------------------------------------------
(* Records.                                                                *)

LocationTypes ==
  { "airport", "airfield", "heliport", "seaport", "oil_terminal",
    "rail_terminal", "road_terminal", "postal_exchange", "trade_location",
    "border_crossing", "terminal", "other" }

TransportModes ==
  {"air", "maritime", "rail", "road", "postal", "multimodal", "border", "other"}

OperationalStatuses == {"active", "inactive", "closed", "unknown"}

ObservedStatuses == {"active", "limited", "closed", "inactive", "unknown"}

RouteObservedStatuses ==
  {"active", "limited", "disrupted", "inaccessible", "unknown"}

RouteTypes == {"corridor", "route"}

TransportSourced == {"id", "sourceIds", "sourceReferences", "sourceStatus"}

\* governorateId is that of the administrative location, if there is one.
TransportLocation ==
  [id : Rank, nameEn : Rank, sourceStatus : RecordSourceStatuses,
   locationTypes : (SUBSET LocationTypes) \ {{}},
   transportModes : (SUBSET TransportModes) \ {{}},
   operationalStatus : OperationalStatuses, coordinates : Optional(Text),
   governorateId : Optional(Rank),
   mentions : SUBSET (TransportSourced \cup
                { "name", "aliases", "locationTypes", "transportModes",
                  "operationalStatus", "coordinates", "administrativeLocation",
                  "externalIds", "notes" })]

TransportStatusSnapshot ==
  [id : Rank, sourceStatus : RecordSourceStatuses, locationId : Rank,
   observedStatus : ObservedStatuses, statusAsOf : Rank,
   mentions : SUBSET (TransportSourced \cup
                { "locationId", "observedStatus", "statusAsOf", "countryPair",
                  "sourceNames", "statusNote" })]

TransportRouteSnapshot ==
  [id : Rank, sourceStatus : RecordSourceStatuses, routeType : RouteTypes,
   transportModes : (SUBSET TransportModes) \ {{}},
   observedStatus : RouteObservedStatuses, statusAsOf : Rank,
   locationIds : (SUBSET Rank) \ {{}},
   mentions : SUBSET (TransportSourced \cup
                { "name", "routeType", "transportModes", "observedStatus",
                  "statusAsOf", "origin", "destination", "transitCountries",
                  "locationIds", "sourceNames", "indicativeLeadTime",
                  "routeNote" })]

TransportArtifact(Record) == Seq(Record) \cup {Broken}

TransportData ==
  [manifest : Optional(Manifest),
   locations : Optional(TransportArtifact(TransportLocation)),
   statusSnapshots : Optional(TransportArtifact(TransportStatusSnapshot)),
   routeSnapshots : Optional(TransportArtifact(TransportRouteSnapshot))]

TransportLocationFilter ==
  [locationType : Optional(LocationTypes), transportMode : Optional(TransportModes),
   operationalStatus : Optional(OperationalStatuses),
   governorateId : Optional(Rank), sourceStatus : Optional(RecordSourceStatuses),
   hasCoordinates : Optional(BOOLEAN)]

TransportStatusSnapshotFilter ==
  [locationId : Optional(Rank), observedStatus : Optional(ObservedStatuses),
   statusAsOf : Optional(Rank), sourceStatus : Optional(RecordSourceStatuses)]

TransportRouteSnapshotFilter ==
  [routeType : Optional(RouteTypes), transportMode : Optional(TransportModes),
   observedStatus : Optional(RouteObservedStatuses), statusAsOf : Optional(Rank),
   locationId : Optional(Rank), sourceStatus : Optional(RecordSourceStatuses)]

-----------------------------------------------------------------------------
\* readTransport: the three artifacts, or the error of one.
ReadTransport(trn) ==
  LET locations == ReadJsonArtifact(trn.manifest, trn.locations)
      statusSnapshots == ReadJsonArtifact(trn.manifest, trn.statusSnapshots)
      routeSnapshots == ReadJsonArtifact(trn.manifest, trn.routeSnapshots)
  IN  IF locations = Broken \/ statusSnapshots = Broken \/ routeSnapshots = Broken
        THEN Broken
        ELSE [locations |-> DataOf(locations),
              statusSnapshots |-> DataOf(statusSnapshots),
              routeSnapshots |-> DataOf(routeSnapshots)]

TransportContext(trn) == Context("opensyria-transport", trn.manifest)

-----------------------------------------------------------------------------
(* Orders: ties are broken by the identifier.                              *)

SortByName(x, y) ==
  \/ x.nameEn < y.nameEn
  \/ x.nameEn = y.nameEn /\ x.id < y.id

SortByStatusDate(x, y) ==
  \/ x.statusAsOf < y.statusAsOf
  \/ x.statusAsOf = y.statusAsOf /\ x.id < y.id

-----------------------------------------------------------------------------
(* Filters.                                                                *)

MatchesLocationFilters(item, query) ==
  /\ Wanted(query.filter.sourceStatus, item.sourceStatus)
  /\ WantedIn(query.filter.locationType, item.locationTypes)
  /\ WantedIn(query.filter.transportMode, item.transportModes)
  /\ Wanted(query.filter.operationalStatus, item.operationalStatus)
  /\ Wanted(query.filter.governorateId, item.governorateId)
  /\ Wanted(query.filter.hasCoordinates, item.coordinates # None)
  /\ MatchesSearch(TransportSourced \cup
       { "name", "aliases", "locationTypes", "transportModes",
         "operationalStatus", "coordinates", "administrativeLocation",
         "externalIds", "notes" }, item, query.q)

MatchesStatusSnapshotFilters(item, query) ==
  /\ Wanted(query.filter.sourceStatus, item.sourceStatus)
  /\ Wanted(query.filter.locationId, item.locationId)
  /\ Wanted(query.filter.observedStatus, item.observedStatus)
  /\ Wanted(query.filter.statusAsOf, item.statusAsOf)
  /\ MatchesSearch(TransportSourced \cup
       { "locationId", "observedStatus", "statusAsOf", "countryPair",
         "sourceNames", "statusNote" }, item, query.q)

MatchesRouteSnapshotFilters(item, query) ==
  /\ Wanted(query.filter.sourceStatus, item.sourceStatus)
  /\ Wanted(query.filter.routeType, item.routeType)
  /\ WantedIn(query.filter.transportMode, item.transportModes)
  /\ Wanted(query.filter.observedStatus, item.observedStatus)
  /\ Wanted(query.filter.statusAsOf, item.statusAsOf)
  /\ WantedIn(query.filter.locationId, item.locationIds)
  /\ MatchesSearch(TransportSourced \cup
       { "name", "routeType", "transportModes", "observedStatus", "statusAsOf",
         "origin", "destination", "transitCountries", "locationIds",
         "sourceNames", "indicativeLeadTime", "routeNote" }, item, query.q)

-----------------------------------------------------------------------------
(* Lists and details.                                                      *)

ListLocations(query, trn) ==
  LET read == ReadTransport(trn)
      Passes(item) == MatchesLocationFilters(item, query)
  IN  IF read = Broken
        THEN ServerError
        ELSE Listed(read.locations, Passes, SortByName, query,
                    TransportContext(trn))

GetLocation(id, trn) ==
  LET read == ReadTransport(trn)
  IN  IF read = Broken THEN ServerError
                       ELSE Detail(read.locations, id, TransportContext(trn))

ListStatusSnapshots(query, trn) ==
  LET read == ReadTransport(trn)
      Passes(item) == MatchesStatusSnapshotFilters(item, query)
  IN  IF read = Broken
        THEN ServerError
        ELSE Listed(read.statusSnapshots, Passes, SortByStatusDate, query,
                    TransportContext(trn))

GetStatusSnapshot(id, trn) ==
  LET read == ReadTransport(trn)
  IN  IF read = Broken THEN ServerError
                       ELSE Detail(read.statusSnapshots, id, TransportContext(trn))

ListRouteSnapshots(query, trn) ==
  LET read == ReadTransport(trn)
      Passes(item) == MatchesRouteSnapshotFilters(item, query)
  IN  IF read = Broken
        THEN ServerError
        ELSE Listed(read.routeSnapshots, Passes, SortByStatusDate, query,
                    TransportContext(trn))

GetRouteSnapshot(id, trn) ==
  LET read == ReadTransport(trn)
  IN  IF read = Broken THEN ServerError
                       ELSE Detail(read.routeSnapshots, id, TransportContext(trn))

-----------------------------------------------------------------------------
(* Controllers.                                                            *)

TransportPages(raw, answer) ==
  IF ValidQuery(raw) THEN BuildOffsetPaginatedResponse(answer, ParsedQuery(raw))
                     ELSE Failure(400)

LocationsController(raw, trn) ==
  TransportPages(raw, ListLocations(ParsedQuery(raw), trn))

LocationController(id, trn) == BuildResponse(GetLocation(id, trn))

StatusSnapshotsController(raw, trn) ==
  TransportPages(raw, ListStatusSnapshots(ParsedQuery(raw), trn))

StatusSnapshotController(id, trn) == BuildResponse(GetStatusSnapshot(id, trn))

RouteSnapshotsController(raw, trn) ==
  TransportPages(raw, ListRouteSnapshots(ParsedQuery(raw), trn))

RouteSnapshotController(id, trn) == BuildResponse(GetRouteSnapshot(id, trn))

=============================================================================
