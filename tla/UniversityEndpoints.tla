------------------------- MODULE UniversityEndpoints --------------------------
(***************************************************************************)
(* The list and detail of universities (src/api/universities), which join  *)
(* three artifacts of one release: the records, their images and their     *)
(* rankings.  uni.manifest is the manifest that is served, and             *)
(* uni.universities, uni.assets and uni.rankings are its artifacts.        *)
(***************************************************************************)
EXTENDS ListQueries

-----------------------------------------------------------------------------
(* Records.                                                                *)

InstitutionTypes ==
  {"public", "private", "virtual", "technical", "religious", "other"}

AssetRoles == {"campus", "logo", "building", "other"}

RankScopes == {"global", "regional", "national", "subject", "other"}

\* "governorates" are the English and Arabic names of the governorate, in
\* lower case, as the filter compares them.
UniversityRecord ==
  [id : Rank, nameEn : Rank, institutionType : InstitutionTypes,
   website : Optional(Text), governorates : SUBSET Text,
   sourceStatus : RecordSourceStatuses,
   mentions : SUBSET { "id", "name", "aliases", "institutionType",
                       "operationalStatus", "foundedYear", "website",
                       "location", "externalIds", "sourceIds",
                       "sourceReferences", "sourceStatus", "notes" }]

UniversityLogoAsset ==
  [id : Rank, universityId : Rank, assetRole : AssetRoles,
   mentions : SUBSET { "title", "variants", "attribution", "sourceIds",
                       "sourceReferences", "sourceStatus", "notes" }]

UniversityRanking ==
  [id : Rank, universityId : Rank, rankingSystem : Rank,
   rankScope : RankScopes, year : Nat, rank : Optional(Nat \ {0}),
   mentions : SUBSET { "rankingSystem", "rankScope", "year", "rankDisplay",
                       "sourceUrl", "retrievedAt", "sourceIds",
                       "sourceReferences", "sourceStatus", "notes" }]

UniversityArtifact(Record) == Seq(Record) \cup {Broken}

UniversitiesData ==
  [manifest : Optional(Manifest),
   universities : Optional(UniversityArtifact(UniversityRecord)),
   assets : Optional(UniversityArtifact(UniversityLogoAsset)),
   rankings : Optional(UniversityArtifact(UniversityRanking))]

UniversityFilter ==
  [institutionType : Optional(InstitutionTypes), governorate : Optional(Text),
   sourceStatus : Optional(RecordSourceStatuses), hasWebsite : Optional(BOOLEAN)]

-----------------------------------------------------------------------------
(* The join.                                                               *)

\* Mutation: the last logo in the artifact.
LastLogo(assets, universityId) ==
  LET logos == { i \in DOMAIN assets :
                   /\ assets[i].assetRole = "logo"
                   /\ assets[i].universityId = universityId }
  IN  IF logos = {} THEN None
                    ELSE assets[CHOOSE i \in logos : \A j \in logos : j <= i]

\* buildLogoMap: of the logos of a university the one with the least id, and
\* the first such one.
LogoOf(assets, universityId) ==
  LET logos == { i \in DOMAIN assets :
                   /\ assets[i].assetRole = "logo"
                   /\ assets[i].universityId = universityId }
      First(i) == \A j \in logos :
                     \/ assets[i].id < assets[j].id
                     \/ assets[i].id = assets[j].id /\ i <= j
  IN  IF logos = {} THEN None ELSE assets[CHOOSE i \in logos : First(i)]

ScopeOrder ==
  [s \in RankScopes |->
     CASE s = "national" -> 0 [] s = "regional" -> 1 [] s = "global" -> 2
       [] s = "subject" -> 3 [] s = "other" -> 4]

\* The rank in a comparison: without one, after all others.
Unranked(x) == x.rank = None

BetterRank(x, y) ==
  \/ ~ Unranked(x) /\ Unranked(y)
  \/ ~ Unranked(x) /\ ~ Unranked(y) /\ x.rank < y.rank

\* compareRankings: the latest year, the narrowest scope, the best rank, and
\* the system by name.
CompareRankings(x, y) ==
  \/ x.year > y.year
  \/ /\ x.year = y.year
     /\ \/ ScopeOrder[x.rankScope] < ScopeOrder[y.rankScope]
        \/ /\ x.rankScope = y.rankScope
           /\ \/ BetterRank(x, y)
              \/ x.rank = y.rank /\ x.rankingSystem < y.rankingSystem

\* buildRankingMap.
RankingsOf(rankings, universityId) ==
  LET OfUniversity(r) == r.universityId = universityId
  IN  Arranged(rankings, Chosen(rankings, OfUniversity),
               Compared(rankings, CompareRankings))

\* A record with its logo and rankings.
EnrichUniversity(university, assets, rankings) ==
  [university |-> university, id |-> university.id, nameEn |-> university.nameEn,
   logo |-> LogoOf(assets, university.id),
   rankings |-> RankingsOf(rankings, university.id)]

\* Mutation: an artifact that cannot be read is left out.
ReadUniversitiesSettled(uni) ==
  LET Settled(a) == IF a = Broken THEN << >> ELSE DataOf(a)
      assets == Settled(ReadJsonArtifact(uni.manifest, uni.assets))
      rankings == Settled(ReadJsonArtifact(uni.manifest, uni.rankings))
      records == ReadJsonArtifact(uni.manifest, uni.universities)
  IN  IF records = Broken
        THEN Broken
        ELSE [i \in DOMAIN DataOf(records) |->
                EnrichUniversity(DataOf(records)[i], assets, rankings)]

\* readUniversities: all three artifacts, or the error of one.
ReadUniversities(uni) ==
  LET records == ReadJsonArtifact(uni.manifest, uni.universities)
      assets == ReadJsonArtifact(uni.manifest, uni.assets)
      rankings == ReadJsonArtifact(uni.manifest, uni.rankings)
  IN  IF records = Broken \/ assets = Broken \/ rankings = Broken
        THEN Broken
        ELSE [i \in DOMAIN DataOf(records) |->
                EnrichUniversity(DataOf(records)[i], DataOf(assets),
                                 DataOf(rankings))]

-----------------------------------------------------------------------------
(* Filters, list and detail.                                               *)

UniversitySearch ==
  { "id", "name", "aliases", "institutionType", "operationalStatus",
    "foundedYear", "website", "location", "externalIds", "sourceIds",
    "sourceReferences", "sourceStatus" }

RankingSearch ==
  {"rankingSystem", "rankScope", "year", "rankDisplay", "sourceReferences"}

MatchesUniversitySearch(item, q) ==
  \/ MatchesSearch(UniversitySearch, item.university, q)
  \/ item.logo # None /\ MatchesSearch({"title", "sourceReferences"}, item.logo, q)
  \/ \E i \in DOMAIN item.rankings :
        MatchesSearch(RankingSearch, item.rankings[i], q)

FilterUniversities(item, query) ==
  /\ Wanted(query.filter.sourceStatus, item.university.sourceStatus)
  /\ Wanted(query.filter.institutionType, item.university.institutionType)
  /\ WantedIn(query.filter.governorate, item.university.governorates)
  /\ Wanted(query.filter.hasWebsite, item.university.website # None)
  /\ MatchesUniversitySearch(item, query.q)

UniversitiesContext(uni) == Context("opensyria-universities", uni.manifest)

ListUniversities(query, uni) ==
  LET read == ReadUniversities(uni)
      Passes(item) == FilterUniversities(item, query)
  IN  IF read = Broken
        THEN ServerError
        ELSE Listed(read, Passes, ByName, query, UniversitiesContext(uni))

GetUniversity(id, uni) ==
  LET read == ReadUniversities(uni)
  IN  IF read = Broken THEN ServerError
                       ELSE Detail(read, id, UniversitiesContext(uni))

UniversitiesController(raw, uni) ==
  IF ValidQuery(raw)
    THEN BuildOffsetPaginatedResponse(ListUniversities(ParsedQuery(raw), uni),
                                      ParsedQuery(raw))
    ELSE Failure(400)

UniversityController(id, uni) == BuildResponse(GetUniversity(id, uni))

=============================================================================
