--------------------------- MODULE TelecomEndpoints ---------------------------
(***************************************************************************)
(* The list and detail endpoints of telecom numbering (src/api/telecom):   *)
(* country numbering plans, operators, fixed area codes, mobile prefixes   *)
(* and number ranges.  Every request reads all five artifacts of the       *)
(* release.  tel.manifest is the manifest that is served, and tel.plans,   *)
(* tel.operators, tel.areaCodes, tel.prefixes, tel.ranges its artifacts.   *)
(***************************************************************************)
EXTENDS ListQueries

-----------------------------------------------------------------------------
(* Records.                                                                *)

OperatorTypes == {"fixed", "mobile"}

OperatorAssignmentStatuses == {"assigned", "reserved", "inactive", "unknown"}

RangeTypes ==
  { "reserved_mobile_prefix", "used_range", "unused_range", "short_number",
    "private_numbering" }

RangeAssignmentStatuses ==
  {"assigned", "reserved", "unused", "used", "private_numbering"}

TelecomSourced == {"id", "sourceIds", "sourceReferences", "sourceStatus", "notes"}

CountryNumberingPlanFields ==
  TelecomSourced \cup { "countryCode", "countryIso2", "countryIso3",
                        "nationalPrefix", "internationalPrefix", "planScope" }

CountryNumberingPlan ==
  [id : Rank, sourceStatus : RecordSourceStatuses, countryCode : Rank,
   mentions : SUBSET CountryNumberingPlanFields]

OperatorFields ==
  TelecomSourced \cup {"name", "operatorType", "numberingRole", "assignmentStatus"}

TelecomOperator ==
  [id : Rank, nameEn : Rank, sourceStatus : RecordSourceStatuses,
   operatorType : OperatorTypes, assignmentStatus : OperatorAssignmentStatuses,
   mentions : SUBSET OperatorFields]

FixedAreaCodeFields ==
  TelecomSourced \cup
  { "name", "areaCode", "dialingPrefix", "operatorId", "governorateIds",
    "subscriberNumberLength", "nationalSignificantNumberLength" }

FixedAreaCode ==
  [id : Rank, sourceStatus : RecordSourceStatuses, areaCode : Rank,
   dialingPrefix : Rank, operatorId : Rank, governorateIds : (SUBSET Rank) \ {{}},
   mentions : SUBSET FixedAreaCodeFields]

MobilePrefixFields ==
  TelecomSourced \cup
  { "prefix", "dialingPrefix", "operatorId", "subscriberNumberLength",
    "assignmentStatus" }

MobilePrefix ==
  [id : Rank, sourceStatus : RecordSourceStatuses, prefix : Rank,
   dialingPrefix : Rank, operatorId : Rank,
   assignmentStatus : OperatorAssignmentStatuses,
   mentions : SUBSET MobilePrefixFields]

NumberRangeFields ==
  TelecomSourced \cup {"name", "rangeType", "ranges", "assignmentStatus"}

NumberRange ==
  [id : Rank, sourceStatus : RecordSourceStatuses, rangeType : RangeTypes,
   assignmentStatus : RangeAssignmentStatuses,
   mentions : SUBSET NumberRangeFields]

TelecomArtifact(Record) == Seq(Record) \cup {Broken}

TelecomData ==
  [manifest : Optional(Manifest),
   plans : Optional(TelecomArtifact(CountryNumberingPlan)),
   operators : Optional(TelecomArtifact(TelecomOperator)),
   areaCodes : Optional(TelecomArtifact(FixedAreaCode)),
   prefixes : Optional(TelecomArtifact(MobilePrefix)),
   ranges : Optional(TelecomArtifact(NumberRange))]

CountryNumberingPlanFilter ==
  [countryCode : Optional(Rank), sourceStatus : Optional(RecordSourceStatuses)]

OperatorFilter ==
  [operatorType : Optional(OperatorTypes),
   assignmentStatus : Optional(OperatorAssignmentStatuses),
   sourceStatus : Optional(RecordSourceStatuses)]

FixedAreaCodeFilter ==
  [areaCode : Optional(Rank), dialingPrefix : Optional(Rank),
   operatorId : Optional(Rank), governorateId : Optional(Rank),
   sourceStatus : Optional(RecordSourceStatuses)]

MobilePrefixFilter ==
  [prefix : Optional(Rank), dialingPrefix : Optional(Rank),
   operatorId : Optional(Rank),
   assignmentStatus : Optional(OperatorAssignmentStatuses),
   sourceStatus : Optional(RecordSourceStatuses)]

NumberRangeFilter ==
  [rangeType : Optional(RangeTypes),
   assignmentStatus : Optional(RangeAssignmentStatuses),
   sourceStatus : Optional(RecordSourceStatuses)]

-----------------------------------------------------------------------------
\* readTelecom: the five artifacts, or the error of one.
ReadTelecom(tel) ==
  LET Read(artifact) == ReadJsonArtifact(tel.manifest, artifact)
  IN  IF \/ Read(tel.plans) = Broken \/ Read(tel.operators) = Broken
         \/ Read(tel.areaCodes) = Broken \/ Read(tel.prefixes) = Broken
         \/ Read(tel.ranges) = Broken
        THEN Broken
        ELSE [plans |-> DataOf(Read(tel.plans)),
              operators |-> DataOf(Read(tel.operators)),
              areaCodes |-> DataOf(Read(tel.areaCodes)),
              prefixes |-> DataOf(Read(tel.prefixes)),
              ranges |-> DataOf(Read(tel.ranges))]

TelecomContext(tel) == Context("opensyria-telecom", tel.manifest)

-----------------------------------------------------------------------------
(* Filters.                                                                *)

MatchesCountryNumberingPlanFilters(item, query) ==
  /\ Wanted(query.filter.sourceStatus, item.sourceStatus)
  /\ Wanted(query.filter.countryCode, item.countryCode)
  /\ MatchesSearch(CountryNumberingPlanFields, item, query.q)

MatchesOperatorFilters(item, query) ==
  /\ Wanted(query.filter.sourceStatus, item.sourceStatus)
  /\ Wanted(query.filter.operatorType, item.operatorType)
  /\ Wanted(query.filter.assignmentStatus, item.assignmentStatus)
  /\ MatchesSearch(OperatorFields, item, query.q)

MatchesFixedAreaCodeFilters(item, query) ==
  /\ Wanted(query.filter.sourceStatus, item.sourceStatus)
  /\ Wanted(query.filter.areaCode, item.areaCode)
  /\ Wanted(query.filter.dialingPrefix, item.dialingPrefix)
  /\ Wanted(query.filter.operatorId, item.operatorId)
  /\ WantedIn(query.filter.governorateId, item.governorateIds)
  /\ MatchesSearch(FixedAreaCodeFields, item, query.q)

MatchesMobilePrefixFilters(item, query) ==
  /\ Wanted(query.filter.sourceStatus, item.sourceStatus)
  /\ Wanted(query.filter.prefix, item.prefix)
  /\ Wanted(query.filter.dialingPrefix, item.dialingPrefix)
  /\ Wanted(query.filter.operatorId, item.operatorId)
  /\ Wanted(query.filter.assignmentStatus, item.assignmentStatus)
  /\ MatchesSearch(MobilePrefixFields, item, query.q)

MatchesNumberRangeFilters(item, query) ==
  /\ Wanted(query.filter.sourceStatus, item.sourceStatus)
  /\ Wanted(query.filter.rangeType, item.rangeType)
  /\ Wanted(query.filter.assignmentStatus, item.assignmentStatus)
  /\ MatchesSearch(NumberRangeFields, item, query.q)

-----------------------------------------------------------------------------
(* Lists, each in an order of its own, and details.                        *)

ByCountryCode(x, y) == x.countryCode < y.countryCode

ByAreaCode(x, y) == x.areaCode < y.areaCode

ByPrefix(x, y) == x.prefix < y.prefix

ById(x, y) == x.id < y.id

ListCountryNumberingPlans(query, tel) ==
  LET read == ReadTelecom(tel)
      Passes(item) == MatchesCountryNumberingPlanFilters(item, query)
  IN  IF read = Broken
        THEN ServerError
        ELSE Listed(read.plans, Passes, ByCountryCode, query,
                    TelecomContext(tel))

GetCountryNumberingPlan(id, tel) ==
  LET read == ReadTelecom(tel)
  IN  IF read = Broken THEN ServerError
                       ELSE Detail(read.plans, id, TelecomContext(tel))

ListOperators(query, tel) ==
  LET read == ReadTelecom(tel)
      Passes(item) == MatchesOperatorFilters(item, query)
  IN  IF read = Broken
        THEN ServerError
        ELSE Listed(read.operators, Passes, ByName, query,
                    TelecomContext(tel))

GetOperator(id, tel) ==
  LET read == ReadTelecom(tel)
  IN  IF read = Broken THEN ServerError
                       ELSE Detail(read.operators, id, TelecomContext(tel))

ListFixedAreaCodes(query, tel) ==
  LET read == ReadTelecom(tel)
      Passes(item) == MatchesFixedAreaCodeFilters(item, query)
  IN  IF read = Broken
        THEN ServerError
        ELSE Listed(read.areaCodes, Passes, ByAreaCode, query,
                    TelecomContext(tel))

GetFixedAreaCode(id, tel) ==
  LET read == ReadTelecom(tel)
  IN  IF read = Broken THEN ServerError
                       ELSE Detail(read.areaCodes, id, TelecomContext(tel))

ListMobilePrefixes(query, tel) ==
  LET read == ReadTelecom(tel)
      Passes(item) == MatchesMobilePrefixFilters(item, query)
  IN  IF read = Broken
        THEN ServerError
        ELSE Listed(read.prefixes, Passes, ByPrefix, query,
                    TelecomContext(tel))

GetMobilePrefix(id, tel) ==
  LET read == ReadTelecom(tel)
  IN  IF read = Broken THEN ServerError
                       ELSE Detail(read.prefixes, id, TelecomContext(tel))

ListNumberRanges(query, tel) ==
  LET read == ReadTelecom(tel)
      Passes(item) == MatchesNumberRangeFilters(item, query)
  IN  IF read = Broken
        THEN ServerError
        ELSE Listed(read.ranges, Passes, ById, query,
                    TelecomContext(tel))

GetNumberRange(id, tel) ==
  LET read == ReadTelecom(tel)
  IN  IF read = Broken THEN ServerError
                       ELSE Detail(read.ranges, id, TelecomContext(tel))

-----------------------------------------------------------------------------
(* Controllers.                                                            *)

TelecomPages(raw, answer) ==
  IF ValidQuery(raw) THEN BuildOffsetPaginatedResponse(answer, ParsedQuery(raw))
                     ELSE Failure(400)

CountryNumberingPlansController(raw, tel) ==
  TelecomPages(raw, ListCountryNumberingPlans(ParsedQuery(raw), tel))

CountryNumberingPlanController(id, tel) ==
  BuildResponse(GetCountryNumberingPlan(id, tel))

OperatorsController(raw, tel) ==
  TelecomPages(raw, ListOperators(ParsedQuery(raw), tel))

OperatorController(id, tel) == BuildResponse(GetOperator(id, tel))

FixedAreaCodesController(raw, tel) ==
  TelecomPages(raw, ListFixedAreaCodes(ParsedQuery(raw), tel))

FixedAreaCodeController(id, tel) == BuildResponse(GetFixedAreaCode(id, tel))

MobilePrefixesController(raw, tel) ==
  TelecomPages(raw, ListMobilePrefixes(ParsedQuery(raw), tel))

MobilePrefixController(id, tel) == BuildResponse(GetMobilePrefix(id, tel))

NumberRangesController(raw, tel) ==
  TelecomPages(raw, ListNumberRanges(ParsedQuery(raw), tel))

NumberRangeController(id, tel) == BuildResponse(GetNumberRange(id, tel))

=============================================================================
