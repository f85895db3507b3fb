------------------------------- MODULE Gateway -------------------------------
(***************************************************************************)
(* What a request meets before its handler: the hook that answers for      *)
(* browsers (CORS), and the guard that counts it against the daily quota   *)
(* of its client.  A request is a record of what these two look at.        *)
(***************************************************************************)
EXTENDS Configuration, Integers, Sequences

CONSTANTS
  Limit,        \* THROTTLE_FREE_TIER_DAILY_LIMIT
  UnknownClient \* the tracker of clients without any address

ASSUME GatewayAssumption == Limit \in Nat \ {0}

-----------------------------------------------------------------------------
(* CORS.                                                                   *)

AllowedCorsMethods == {"GET", "HEAD", "OPTIONS"}

AllowedCorsHeaders == {"content-type", "authorization", "x-requested-with", "x-lang"}

IsOriginAllowed(origin, allowedOrigins) ==
  /\ NormalizeOrigin[origin] # None
  /\ NormalizeOrigin[origin] \in allowedOrigins

\* Mutation: the wildcard goes with credentials.
WildcardResponseOrigin(origin, app) ==
  CASE app.corsOrigin.kind = "false" -> None
    [] app.corsOrigin.kind = "true" -> origin
    [] app.corsOrigin.kind = "*" -> "*"
    [] app.corsOrigin.kind = "list" -> origin

\* The value of Access-Control-Allow-Origin, or None.
GetCorsResponseOrigin(origin, app) ==
  CASE app.corsOrigin.kind = "false" -> None
    [] app.corsOrigin.kind = "true" -> origin
    [] app.corsOrigin.kind = "*" -> IF app.corsCredentials THEN origin ELSE "*"
    [] app.corsOrigin.kind = "list" ->
         IF IsOriginAllowed(origin, app.corsOrigin.origins) THEN origin ELSE None

ResponseOrigin(request, app) ==
  IF request.origin = None THEN None ELSE GetCorsResponseOrigin(request.origin, app)

\* The headers that the hook gives to an answer, whatever comes of it.
CorsHeaders(request, app) ==
  LET responseOrigin == ResponseOrigin(request, app)
  IN  [ allowOrigin |-> responseOrigin,
        allowCredentials |->
          responseOrigin # None /\ app.corsCredentials /\ responseOrigin # "*" ]

IsPreflight(request) == request.method = "OPTIONS"

\* A preflight never reaches a route.
PreflightStatus(request, app) ==
  IF \/ request.origin # None /\ ResponseOrigin(request, app) = None
     \/ request.requestMethod \notin AllowedCorsMethods \cup {None}
     \/ ~ request.requestHeaders \subseteq AllowedCorsHeaders
    THEN 403
    ELSE 204

-----------------------------------------------------------------------------
(* The quota.                                                              *)

\* The first that is there, or UnknownClient.
FirstOf(values) ==
  LET there == SelectSeq(values, LAMBDA value : value # None)
  IN  IF there = << >> THEN UnknownClient ELSE Head(there)

GetForwardedClientIp(header) == IF header = << >> THEN None ELSE Head(header)

\* Mutation: the address that the nearest proxy has seen wins.
RealIpFirst(from, trustProxy) ==
  FirstOf(<< from.realIp, from.cfConnectingIp, GetForwardedClientIp(from.forwardedFor),
             from.ip, from.remoteAddress >>)

\* The address that a process takes for that of the client.
GetClientTracker(from, trustProxy) ==
  LET proxied ==
        << from.cfConnectingIp, GetForwardedClientIp(from.forwardedFor), from.realIp >>
  IN  FirstOf((IF trustProxy THEN proxied ELSE << >>) \o << from.ip, from.remoteAddress >>)

\* The prefix is written out here; that of the routes is configurable.
ApiPathPrefix == "api"

ShouldSkipFreeTierQuota(request) ==
  IsPreflight(request) \/ request.prefix # ApiPathPrefix

\* Mutation: every process counts in its own memory.
MemoryOf(process, redis) == process

\* The storage that a process counts in: Redis, or its own memory.
StorageOf(process, redis) == IF redis.enabled THEN "redis" ELSE process

Bucket == [hits : 0 .. Limit + 1, blocked : BOOLEAN]

EmptyBucket == [hits |-> 0, blocked |-> FALSE]

\* The storage counts a hit; past the limit the bucket is blocked for the time
\* to live, and counts no more.
Increment(bucket) ==
  IF bucket.blocked
    THEN bucket
    ELSE [hits |-> bucket.hits + 1, blocked |-> bucket.hits = Limit]

=============================================================================
