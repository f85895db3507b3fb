------------------------------ MODULE MCBrowsing ------------------------------
(***************************************************************************)
(* Small instances of Browsing for TLC: r1 and r2 are complete releases of *)
(* every dataset, in r2 names repeat and the term of a search occurs in    *)
(* fields that only one of artifact and table is searched in; in r3 one    *)
(* artifact of every dataset cannot be read; r0 has no release yet; in r4  *)
(* and r5 the manifest of one dataset of r1 is published again, that of    *)
(* telecom without a date and with other notes, that of the geography with *)
(* another status, date and sources.                                       *)
(***************************************************************************)
EXTENDS Browsing, TLC

CONSTANTS
  r0, r1, r2, r3, r4, r5  \* releases

-----------------------------------------------------------------------------
(* Records.                                                                *)

Gov(id, name, status, mentions) ==
  [id |-> id, nameEn |-> name, sourceStatus |-> status, mentions |-> mentions]

Dis(id, name, governorate, mentions) ==
  [id |-> id, nameEn |-> name, sourceStatus |-> "released",
   governorateId |-> governorate, mentions |-> mentions]

Sub(id, name, governorate, district, mentions) ==
  [id |-> id, nameEn |-> name, sourceStatus |-> "released",
   governorateId |-> governorate, districtId |-> district, mentions |-> mentions]

Loc(id, name, district, subdistrict, kind, mentions) ==
  [id |-> id, nameEn |-> name, sourceStatus |-> "released", governorateId |-> 1,
   districtId |-> district, subdistrictId |-> subdistrict, kind |-> kind,
   mentions |-> mentions]

Uni(id, name, type, website, governorates, mentions) ==
  [id |-> id, nameEn |-> name, institutionType |-> type, website |-> website,
   governorates |-> governorates, sourceStatus |-> "released",
   mentions |-> mentions]

Img(id, university, role, mentions) ==
  [id |-> id, universityId |-> university, assetRole |-> role,
   mentions |-> mentions]

Rnk(id, university, system, scope, year, rank, mentions) ==
  [id |-> id, universityId |-> university, rankingSystem |-> system,
   rankScope |-> scope, year |-> year, rank |-> rank, mentions |-> mentions]

Place(id, name, types, coordinates, mentions) ==
  [id |-> id, nameEn |-> name, sourceStatus |-> "seed", locationTypes |-> types,
   transportModes |-> {"road"}, operationalStatus |-> "active",
   coordinates |-> coordinates, governorateId |-> None, mentions |-> mentions]

Seen(id, location, date, observed, mentions) ==
  [id |-> id, sourceStatus |-> "seed", locationId |-> location,
   observedStatus |-> observed, statusAsOf |-> date, mentions |-> mentions]

Route(id, locations, date, mentions) ==
  [id |-> id, sourceStatus |-> "seed", routeType |-> "corridor",
   transportModes |-> {"road"}, observedStatus |-> "limited",
   statusAsOf |-> date, locationIds |-> locations, mentions |-> mentions]

Plan(id, code, mentions) ==
  [id |-> id, sourceStatus |-> "released", countryCode |-> code,
   mentions |-> mentions]

Operator(id, name, type, mentions) ==
  [id |-> id, nameEn |-> name, sourceStatus |-> "released", operatorType |-> type,
   assignmentStatus |-> "assigned", mentions |-> mentions]

Area(id, code, operator, governorates, mentions) ==
  [id |-> id, sourceStatus |-> "released", areaCode |-> code,
   dialingPrefix |-> code, operatorId |-> operator,
   governorateIds |-> governorates, mentions |-> mentions]

Mobile(id, prefix, operator, mentions) ==
  [id |-> id, sourceStatus |-> "released", prefix |-> prefix,
   dialingPrefix |-> prefix, operatorId |-> operator,
   assignmentStatus |-> "assigned", mentions |-> mentions]

Numbers(id, type, mentions) ==
  [id |-> id, sourceStatus |-> "released", rangeType |-> type,
   assignmentStatus |-> "used", mentions |-> mentions]

-----------------------------------------------------------------------------
(* Releases.                                                               *)

\* The versions of each dataset are its own; telecom is not released yet.
ManifestOf(version) ==
  [version |-> version, status |-> IF version > 40 THEN "seed" ELSE "released",
   generatedAt |-> version, publishedAt |-> version, artifacts |-> version,
   sources |-> version,
   mentions |-> CASE version = 21 -> {"status"} [] version = 31 -> {"sources"}
                  [] version = 32 -> {"publishedAt"} [] OTHER -> {}]

Geography(version, governorates, districts, subdistricts, localities) ==
  [manifest |-> ManifestOf(version), row |-> None,
   governorates |-> governorates, districts |-> districts,
   subdistricts |-> subdistricts, localities |-> localities]

Universities(version, universities, assets, rankings) ==
  [manifest |-> ManifestOf(version), universities |-> universities,
   assets |-> assets, rankings |-> rankings]

Transport(version, locations, statusSnapshots, routeSnapshots) ==
  [manifest |-> ManifestOf(version), locations |-> locations,
   statusSnapshots |-> statusSnapshots, routeSnapshots |-> routeSnapshots]

Telecom(version, plans, operators, areaCodes, prefixes, ranges) ==
  [manifest |-> ManifestOf(version), plans |-> plans, operators |-> operators,
   areaCodes |-> areaCodes, prefixes |-> prefixes, ranges |-> ranges]

First ==
  [geo |-> Geography(11,
     << Gov(2, 1, "released", {"iso31662"}), Gov(1, 3, "seed", {}),
        Gov(3, 2, "released", {"name", "area"}) >>,
     << Dis(1, 2, 1, {"governorateId"}), Dis(2, 1, 2, {}), Dis(3, 3, 1, {"id"}) >>,
     << Sub(2, 2, 1, 1, {"districtId"}), Sub(1, 1, 1, 3, {}),
        Sub(3, 3, 2, 2, {"aliases"}) >>,
     << Loc(3, 4, None, None, "village", {"externalIds"}),
        Loc(1, 2, 1, 2, "city", {"kind"}), Loc(2, 1, 1, None, "town", {}),
        Loc(4, 3, 3, 1, "city", {"externalIds"}) >>),
   uni |-> Universities(21,
     << Uni(3, 1, "public", 1, {1}, {"name"}), Uni(1, 3, "private", None, {1, 2}, {}),
        Uni(2, 2, "public", None, {}, {"notes"}) >>,
     << Img(4, 1, "campus", {}), Img(3, 1, "logo", {"title"}), Img(2, 1, "logo", {}),
        Img(5, 1, "logo", {}), Img(1, 3, "logo", {}) >>,
     << Rnk(1, 2, 1, "global", 3, 9, {}), Rnk(2, 2, 1, "national", 3, 2, {"year"}),
        Rnk(3, 2, 2, "national", 3, None, {}), Rnk(4, 2, 1, "other", 4, 5, {}),
        Rnk(5, 2, 2, "national", 3, 2, {}) >>),
   trn |-> Transport(31,
     << Place(3, 1, {"airport"}, 1, {"notes"}), Place(1, 2, {"seaport"}, None, {}),
        Place(2, 1, {"terminal", "airport"}, None, {"aliases"}) >>,
     << Seen(1, 3, 2, "active", {"statusNote"}), Seen(3, 1, 1, "closed", {}),
        Seen(2, 3, 2, "limited", {"statusAsOf"}) >>,
     << Route(2, {1, 2}, 1, {}), Route(1, {2}, 1, {"origin"}),
        Route(3, {3}, 2, {"routeNote"}) >>),
   tel |-> Telecom(41,
     << Plan(1, 963, {"planScope"}) >>,
     << Operator(2, 1, "mobile", {"name"}), Operator(1, 2, "fixed", {}),
        Operator(3, 3, "mobile", {"numberingRole"}) >>,
     << Area(1, 11, 1, {1, 2}, {"areaCode"}), Area(2, 21, 1, {3}, {}),
        Area(3, 15, 1, {1}, {"notes"}) >>,
     << Mobile(1, 93, 2, {"operatorId"}), Mobile(2, 94, 3, {}),
        Mobile(3, 98, 2, {"prefix"}) >>,
     << Numbers(2, "short_number", {"ranges"}), Numbers(1, "used_range", {}),
        Numbers(3, "short_number", {"name"}) >>)]

\* The next release: fewer governorates and more localities, names that
\* repeat, and terms that only artifact or only table is searched for.
Second ==
  [geo |-> Geography(12,
     << Gov(1, 2, "released", {"area"}), Gov(2, 1, "seed", {"aliasTypes"}) >>,
     << Dis(1, 2, 1, {"population"}), Dis(2, 2, 2, {"id"}) >>,
     << Sub(1, 1, 1, 1, {"sourceReferences"}), Sub(2, 1, 2, 2, {}) >>,
     << Loc(1, 1, 1, None, "city", {"aliasTypes"}), Loc(2, 2, 1, 1, "city", {"name"}),
        Loc(3, 2, None, None, "town", {"acrossFields"}), Loc(4, 2, 2, 2, "city", {}),
        Loc(5, 4, 2, None, "village", {"id"}) >>),
   uni |-> Universities(22,
     << Uni(1, 1, "private", 1, {1}, {}), Uni(2, 1, "private", None, {2}, {"id"}) >>,
     << Img(1, 2, "logo", {}) >>, << Rnk(1, 1, 1, "subject", 5, 1, {"sourceUrl"}) >>),
   trn |-> Transport(32, << Place(1, 1, {"airport"}, 1, {}) >>,
     << Seen(1, 1, 3, "unknown", {}) >>, << Route(1, {1}, 3, {"name"}) >>),
   tel |-> Telecom(42, << Plan(2, 963, {}), Plan(1, 963, {"notes"}) >>,
     << Operator(1, 1, "fixed", {}) >>, << Area(1, 11, 1, {1}, {}) >>,
     << Mobile(1, 93, 1, {"id"}) >>, << >>)]

\* One artifact of every dataset is damaged, another one each time.
Damaged ==
  [geo |-> [First.geo EXCEPT !.manifest = ManifestOf(13), !.districts = Broken],
   uni |-> [First.uni EXCEPT !.manifest = ManifestOf(23), !.rankings = Broken],
   trn |-> [First.trn EXCEPT !.manifest = ManifestOf(33), !.locations = Broken],
   tel |-> [First.tel EXCEPT !.manifest = ManifestOf(43), !.ranges = Broken]]

\* The first release with one manifest that tells no date and other notes.
Republished ==
  [First EXCEPT !.tel.manifest.publishedAt = None,
                !.tel.manifest.mentions = {"notes"}]

\* The first release with the geography deprecated.
Deprecated ==
  [First EXCEPT !.geo.manifest.status = "deprecated",
                !.geo.manifest.publishedAt = 12, !.geo.manifest.sources = 12]

\* The term of a search is one that names telecom and education.
MCMentioned ==
  [d \in StaticEntry |->
     CASE d = "telecom" -> {"name", "repository"}
       [] d = "universities" -> {"category", "status"}
       [] d = "heritage" -> {"description"}
       [] OTHER -> {}]

Unreleased ==
  [d \in DOMAIN First |->
     [f \in DOMAIN First[d] |-> None]]

MCContent ==
  (r0 :> Unreleased) @@ (r1 :> First) @@ (r2 :> Second) @@ (r3 :> Damaged)
    @@ (r4 :> Republished) @@ (r5 :> Deprecated)

-----------------------------------------------------------------------------
(* Queries.                                                                *)

\* The values that each list is filtered by, one at a time.
MCFilters ==
  [e \in Endpoint |->
     CASE e = "governorates" -> { <<"sourceStatus", "released">> }
       [] e = "districts" -> { <<"governorateId", 1>>, <<"sourceStatus", "seed">> }
       [] e = "subdistricts" -> { <<"governorateId", 1>>, <<"districtId", 1>> }
       [] e = "localities" ->
            { <<"governorateId", 1>>, <<"districtId", 1>>, <<"subdistrictId", 2>>,
              <<"kind", "city">> }
       [] e = "universities" ->
            { <<"institutionType", "public">>, <<"governorate", 1>>,
              <<"hasWebsite", FALSE>> }
       [] e = "locations" ->
            { <<"locationType", "airport">>, <<"transportMode", "road">>,
              <<"operationalStatus", "closed">>, <<"governorateId", 1>>,
              <<"hasCoordinates", TRUE>> }
       [] e = "status-snapshots" ->
            { <<"locationId", 3>>, <<"observedStatus", "closed">>, <<"statusAsOf", 2>> }
       [] e = "route-snapshots" ->
            { <<"routeType", "route">>, <<"transportMode", "road">>,
              <<"observedStatus", "limited">>, <<"statusAsOf", 1>>,
              <<"locationId", 2>> }
       [] e = "country-numbering-plans" -> { <<"countryCode", 963>> }
       [] e = "operators" ->
            { <<"operatorType", "mobile">>, <<"assignmentStatus", "assigned">> }
       [] e = "fixed-area-codes" ->
            { <<"areaCode", 11>>, <<"dialingPrefix", 21>>, <<"operatorId", 1>>,
              <<"governorateId", 1>> }
       [] e = "mobile-prefixes" ->
            { <<"prefix", 93>>, <<"dialingPrefix", 94>>, <<"operatorId", 2>>,
              <<"assignmentStatus", "assigned">> }
       [] e = "number-ranges" ->
            { <<"rangeType", "short_number">>, <<"assignmentStatus", "unused">> }
       [] e \in DiscoveryEndpoint -> {}]

FilterFields ==
  [e \in Endpoint |->
     (IF e \in DiscoveryEndpoint THEN {} ELSE {"sourceStatus"})
       \cup { f[1] : f \in MCFilters[e] }]

Unfiltered(e) ==
  [page |-> None, limit |-> None, q |-> None, order |-> None,
   filter |-> [f \in FilterFields[e] |-> None]]

\* Each list with every page to begin with, both orders, the search, and
\* each filter.
MCQueries ==
  [e \in Endpoint |->
     LET all == Unfiltered(e)
     IN  { all, [all EXCEPT !.page = 0], [all EXCEPT !.page = 2],
           [all EXCEPT !.page = 9], [all EXCEPT !.limit = 1],
           [all EXCEPT !.limit = 3, !.order = "desc"],
           [all EXCEPT !.q = "term", !.limit = 1],
           [all EXCEPT !.q = "term", !.order = "desc"] }
         \cup { [all EXCEPT !.filter[f[1]] = f[2], !.limit = 1] : f \in MCFilters[e] }]

=============================================================================
