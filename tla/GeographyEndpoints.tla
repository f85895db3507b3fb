-------------------------- MODULE GeographyEndpoints --------------------------
(***************************************************************************)
(* The list and detail endpoints of governorates, districts, subdistricts  *)
(* and localities (src/api/geography), over the artifacts of a release or, *)
(* once that release has been imported, over the tables of the read model. *)
(* Caching, imports that run meanwhile and the choice of the release are   *)
(* in ReadModel; here an answer is made at one moment.                     *)
(*                                                                         *)
(* geo.manifest is the manifest that is served, geo.row what the database   *)
(* has of that release: the manifest it was imported with, or None.        *)
(* geo.governorates ... are its artifacts.                                 *)
(***************************************************************************)
EXTENDS ListQueries

-----------------------------------------------------------------------------
(* Records.  "aliases" is the text of an alias, "aliasTypes" its language  *)
(* and type; "acrossFields" stands for two neighbours in the search text   *)
(* of the database, which is one string.                                   *)

BaseFields ==
  { "id", "name", "aliases", "aliasTypes", "centroid", "externalIds",
    "sourceIds", "sourceReferences", "sourceStatus", "notes", "acrossFields" }

AdministrativeFields ==
  BaseFields \cup { "area", "population", "populationHistory" }

GovernorateRecord ==
  [id : Rank, nameEn : Rank, sourceStatus : RecordSourceStatuses,
   mentions : SUBSET (AdministrativeFields \cup {"iso31662"})]

DistrictRecord ==
  [id : Rank, nameEn : Rank, sourceStatus : RecordSourceStatuses,
   governorateId : Rank,
   mentions : SUBSET (AdministrativeFields \cup {"governorateId"})]

SubdistrictRecord ==
  [id : Rank, nameEn : Rank, sourceStatus : RecordSourceStatuses,
   governorateId : Rank, districtId : Rank,
   mentions : SUBSET (AdministrativeFields \cup {"governorateId", "districtId"})]

LocalityKinds == {"city", "town", "village", "locality"}

LocalityRecord ==
  [id : Rank, nameEn : Rank, sourceStatus : RecordSourceStatuses,
   governorateId : Rank, districtId : Optional(Rank),
   subdistrictId : Optional(Rank), kind : LocalityKinds,
   mentions : SUBSET (BaseFields \cup
                {"governorateId", "districtId", "subdistrictId", "kind"})]

\* A JSON array of records, or an object whose items they are.
GeographyArtifact(Record) == Seq(Record) \cup {Broken}

GeographyData ==
  [manifest : Optional(Manifest), row : Optional(Manifest),
   governorates : Optional(GeographyArtifact(GovernorateRecord)),
   districts : Optional(GeographyArtifact(DistrictRecord)),
   subdistricts : Optional(GeographyArtifact(SubdistrictRecord)),
   localities : Optional(GeographyArtifact(LocalityRecord))]

\* Filters of the lists.
GovernorateFilter == [sourceStatus : Optional(RecordSourceStatuses)]

DistrictFilter ==
  [governorateId : Optional(Rank), sourceStatus : Optional(RecordSourceStatuses)]

SubdistrictFilter ==
  [governorateId : Optional(Rank), districtId : Optional(Rank),
   sourceStatus : Optional(RecordSourceStatuses)]

LocalityFilter ==
  [governorateId : Optional(Rank), districtId : Optional(Rank),
   subdistrictId : Optional(Rank), kind : Optional(LocalityKinds),
   sourceStatus : Optional(RecordSourceStatuses)]

-----------------------------------------------------------------------------
(* The fields that are searched: in the artifacts, and in the search text  *)
(* that the importer writes.                                               *)

AdministrativeSearch ==
  { "id", "name", "aliases", "aliasTypes", "externalIds", "sourceIds",
    "sourceStatus" }

AdministrativeText ==
  AdministrativeSearch \cup
  { "area", "population", "populationHistory", "sourceReferences", "acrossFields" }

GovernorateText == AdministrativeText \cup {"iso31662"}

DistrictText == AdministrativeText \cup {"governorateId"}

SubdistrictText == AdministrativeText \cup {"governorateId", "districtId"}

\* Mutation: the external identifiers are not written.
LocalityTextShort ==
  { "id", "governorateId", "districtId", "subdistrictId", "kind", "name",
    "sourceStatus", "aliases", "sourceIds", "sourceReferences",
    "acrossFields" }

LocalityText ==
  { "id", "governorateId", "districtId", "subdistrictId", "kind", "name",
    "sourceStatus", "aliases", "externalIds", "sourceIds", "sourceReferences",
    "acrossFields" }

-----------------------------------------------------------------------------
(* Artifacts and database.                                                 *)

\* The keys of the tables, and what their rows refer to.
Keyed(rows) == \A i, j \in DOMAIN rows : rows[i].id = rows[j].id => i = j

RefersTo(rows, field, parents) ==
  \A i \in DOMAIN rows :
     rows[i][field] # None =>
       \E j \in DOMAIN parents : parents[j].id = rows[i][field]

GovernorateTable(geo) == Keyed(geo.governorates)

DistrictTable(geo) ==
  Keyed(geo.districts) /\ RefersTo(geo.districts, "governorateId", geo.governorates)

SubdistrictTable(geo) ==
  /\ Keyed(geo.subdistricts)
  /\ RefersTo(geo.subdistricts, "governorateId", geo.governorates)
  /\ RefersTo(geo.subdistricts, "districtId", geo.districts)

LocalityTable(geo) ==
  /\ Keyed(geo.localities)
  /\ RefersTo(geo.localities, "governorateId", geo.governorates)
  /\ RefersTo(geo.localities, "districtId", geo.districts)
  /\ RefersTo(geo.localities, "subdistrictId", geo.subdistricts)

\* A release that the importer can write: every artifact is read, and every
\* row fits its table.
Importable(geo) ==
  /\ geo.manifest # None
  /\ Broken \notin
       {geo.governorates, geo.districts, geo.subdistricts, geo.localities}
  /\ GovernorateTable(geo) /\ DistrictTable(geo)
  /\ SubdistrictTable(geo) /\ LocalityTable(geo)

Imported(geo) == geo.row # None

\* The release of the tables is told by its row, that of the artifacts by the
\* manifest.
GeographyContext(geo) ==
  Context("opensyria-geography", IF Imported(geo) THEN geo.row ELSE geo.manifest)

\* read...: one artifact, or the error it raises.
ReadGeography(geo, artifact) == ReadJsonArtifact(geo.manifest, artifact)

\* sortByEnglishName and paginateRecords, of the records that pass a filter.
ListFromArtifact(geo, artifact, Passes(_), query) ==
  LET read == ReadGeography(geo, artifact)
  IN  IF read = Broken
        THEN ServerError
        ELSE Listed(DataOf(read), Passes, ByName, query, GeographyContext(geo))

DetailFromArtifact(geo, artifact, id) ==
  LET read == ReadGeography(geo, artifact)
  IN  IF read = Broken
        THEN ServerError
        ELSE Detail(DataOf(read), id, GeographyContext(geo))

\* The chosen rows of a table in an order that ORDER BY can give: any, by name.
DatabaseOrders(rows, chosen, order) ==
  LET Orders ==
        { f \in [1 .. Cardinality(chosen) -> chosen] :
            \A k, l \in DOMAIN f :
               k < l => /\ f[k] # f[l]
                        /\ IF order = "asc" THEN rows[f[k]].nameEn <= rows[f[l]].nameEn
                                            ELSE rows[f[k]].nameEn >= rows[f[l]].nameEn }
  IN  { [k \in DOMAIN f |-> rows[f[k]]] : f \in Orders }

\* findMany with skip and take, and count, of the rows a where clause selects.
FindMany(geo, rows, Where(_), query) ==
  { LET items == PaginateOffsetItems(s, query.page, query.limit)
    IN  [items |-> items,
         pagination |-> BuildOffsetPagination(Len(s), query.page, query.limit,
                                              Len(items)),
         dataset |-> GeographyContext(geo).dataset,
         release |-> GeographyContext(geo).release] :
      s \in DatabaseOrders(rows, Chosen(rows, Where), query.order) }

\* Mutation: a detail tells of the manifest that is served.
FindUniqueOfServed(geo, rows, id) ==
  Detail(rows, id, Context("opensyria-geography", geo.manifest))

\* findUnique by release and identifier.
FindUnique(geo, rows, id) == Detail(rows, id, GeographyContext(geo))

-----------------------------------------------------------------------------
(* Governorates.                                                           *)

FilterGovernorates(item, query) ==
  /\ Wanted(query.filter.sourceStatus, item.sourceStatus)
  /\ MatchesSearch(AdministrativeSearch \cup {"iso31662"}, item, query.q)

GovernorateWhere(item, query) ==
  /\ Wanted(query.filter.sourceStatus, item.sourceStatus)
  /\ MatchesSearch(GovernorateText, item, query.q)

ListGovernorates(query, geo) ==
  LET Passes(item) == FilterGovernorates(item, query)
      Where(item) == GovernorateWhere(item, query)
  IN  IF Imported(geo)
        THEN FindMany(geo, geo.governorates, Where, query)
        ELSE { ListFromArtifact(geo, geo.governorates, Passes, query) }

GetGovernorate(id, geo) ==
  IF Imported(geo) THEN FindUnique(geo, geo.governorates, id)
                  ELSE DetailFromArtifact(geo, geo.governorates, id)

-----------------------------------------------------------------------------
(* Districts.                                                              *)

FilterDistricts(item, query) ==
  /\ Wanted(query.filter.governorateId, item.governorateId)
  /\ Wanted(query.filter.sourceStatus, item.sourceStatus)
  /\ MatchesSearch(AdministrativeSearch \cup {"governorateId"}, item, query.q)

DistrictWhere(item, query) ==
  /\ Wanted(query.filter.governorateId, item.governorateId)
  /\ Wanted(query.filter.sourceStatus, item.sourceStatus)
  /\ MatchesSearch(DistrictText, item, query.q)

ListDistricts(query, geo) ==
  LET Passes(item) == FilterDistricts(item, query)
      Where(item) == DistrictWhere(item, query)
  IN  IF Imported(geo)
        THEN FindMany(geo, geo.districts, Where, query)
        ELSE { ListFromArtifact(geo, geo.districts, Passes, query) }

GetDistrict(id, geo) ==
  IF Imported(geo) THEN FindUnique(geo, geo.districts, id)
                  ELSE DetailFromArtifact(geo, geo.districts, id)

-----------------------------------------------------------------------------
(* Subdistricts.                                                           *)

FilterSubdistricts(item, query) ==
  /\ Wanted(query.filter.governorateId, item.governorateId)
  /\ Wanted(query.filter.districtId, item.districtId)
  /\ Wanted(query.filter.sourceStatus, item.sourceStatus)
  /\ MatchesSearch(AdministrativeSearch \cup {"governorateId", "districtId"},
                   item, query.q)

SubdistrictWhere(item, query) ==
  /\ Wanted(query.filter.governorateId, item.governorateId)
  /\ Wanted(query.filter.districtId, item.districtId)
  /\ Wanted(query.filter.sourceStatus, item.sourceStatus)
  /\ MatchesSearch(SubdistrictText, item, query.q)

ListSubdistricts(query, geo) ==
  LET Passes(item) == FilterSubdistricts(item, query)
      Where(item) == SubdistrictWhere(item, query)
  IN  IF Imported(geo)
        THEN FindMany(geo, geo.subdistricts, Where, query)
        ELSE { ListFromArtifact(geo, geo.subdistricts, Passes, query) }

GetSubdistrict(id, geo) ==
  IF Imported(geo) THEN FindUnique(geo, geo.subdistricts, id)
                  ELSE DetailFromArtifact(geo, geo.subdistricts, id)

-----------------------------------------------------------------------------
(* Localities.                                                             *)

LocalityParents(item, query) ==
  /\ Wanted(query.filter.governorateId, item.governorateId)
  /\ Wanted(query.filter.districtId, item.districtId)
  /\ Wanted(query.filter.subdistrictId, item.subdistrictId)
  /\ Wanted(query.filter.kind, item.kind)
  /\ Wanted(query.filter.sourceStatus, item.sourceStatus)

FilterLocalities(item, query) ==
  /\ LocalityParents(item, query)
  /\ MatchesSearch({ "id", "governorateId", "districtId", "subdistrictId", "kind",
                     "name", "aliases", "aliasTypes", "externalIds", "sourceIds",
                     "sourceStatus" }, item, query.q)

LocalityWhere(item, query) ==
  /\ LocalityParents(item, query)
  /\ MatchesSearch(LocalityText, item, query.q)

ListLocalities(query, geo) ==
  LET Passes(item) == FilterLocalities(item, query)
      Where(item) == LocalityWhere(item, query)
  IN  IF Imported(geo)
        THEN FindMany(geo, geo.localities, Where, query)
        ELSE { ListFromArtifact(geo, geo.localities, Passes, query) }

GetLocality(id, geo) ==
  IF Imported(geo) THEN FindUnique(geo, geo.localities, id)
                  ELSE DetailFromArtifact(geo, geo.localities, id)

-----------------------------------------------------------------------------
(* Controllers.  A query that the schema rejects is a 400.                 *)

GeographyPages(raw, answers) ==
  IF ValidQuery(raw)
    THEN { BuildOffsetPaginatedResponse(a, ParsedQuery(raw)) : a \in answers }
    ELSE { Failure(400) }

GovernoratesController(raw, geo) ==
  GeographyPages(raw, ListGovernorates(ParsedQuery(raw), geo))

GovernorateController(id, geo) == BuildResponse(GetGovernorate(id, geo))

DistrictsController(raw, geo) ==
  GeographyPages(raw, ListDistricts(ParsedQuery(raw), geo))

DistrictController(id, geo) == BuildResponse(GetDistrict(id, geo))

SubdistrictsController(raw, geo) ==
  GeographyPages(raw, ListSubdistricts(ParsedQuery(raw), geo))

SubdistrictController(id, geo) == BuildResponse(GetSubdistrict(id, geo))

LocalitiesController(raw, geo) ==
  GeographyPages(raw, ListLocalities(ParsedQuery(raw), geo))

LocalityController(id, geo) == BuildResponse(GetLocality(id, geo))

=============================================================================
