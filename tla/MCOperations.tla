---------------------------- MODULE MCOperations ----------------------------
(***************************************************************************)
(* A small deployment for TLC: x1 in production, with its defaults, x2 in  *)
(* development, without a database, behind one proxy, over one Redis.      *)
(***************************************************************************)
EXTENDS Operations

CONSTANTS x1, x2, c1, c2, geography, universities, site, siteAgain, other, proxy

\* An environment with nothing set but the proxy, the lock and that it is
\* required.
Unset ==
  [ NODE_ENV |-> "development", APP_API_PREFIX |-> None, APP_TRUST_PROXY |-> TRUE,
    IS_HTTPS |-> None, APP_CORS_ORIGIN |-> None, APP_CORS_CREDENTIALS |-> None,
    REDIS_ENABLED |-> None, REDIS_REQUIRED |-> None,
    DATABASE_URL |-> FALSE, DATABASE_ENABLED |-> None, DATABASE_REQUIRED |-> None,
    DATASETS_REQUIRE_RELEASES |-> TRUE,
    DATASETS_RELEASE_SOURCES_OVERRIDE |-> None,
    DATASETS_RELEASE_SOURCES_FILE |-> {geography, universities},
    DATASETS_RELEASE_SOURCES |-> {} ]

MCEnv ==
  [x \in Api |->
     IF x = x1
       THEN [Unset EXCEPT !.NODE_ENV = "production", !.DATABASE_URL = TRUE,
                          !.APP_CORS_ORIGIN = [kind |-> "list", origins |-> {siteAgain}]]
       ELSE [Unset EXCEPT !.APP_CORS_CREDENTIALS = TRUE]]

MCNormalizeOrigin == [o \in {site, siteAgain, other} |-> IF o = other THEN other ELSE site]

Counts(n) == [t \in Tables |-> IF t = "localities" THEN n ELSE 1]

MCManifest ==
  [repository |-> "data-geography", version |-> "v1", status |-> "released",
   counts |-> Counts(2)]

\* The pinned build, and one of the same version with a locality less.
MCRow == { MCManifest, [MCManifest EXCEPT !.counts = Counts(1)] }

MCOrder == << geography, universities >>

\* Both through a proxy that puts the address it has seen in X-Real-IP; c1 also
\* through a content network, which tells its own.  With its proxy trusted, ip
\* is what Fastify takes from X-Forwarded-For.
MCFrom ==
  [c \in Client |->
     [ cfConnectingIp |-> IF c = c1 THEN c1 ELSE None, forwardedFor |-> << c, proxy >>,
       realIp |-> proxy, ip |-> c, remoteAddress |-> proxy ]]

\* c1 asks for geography and c2 for universities.
Data(c, origin) ==
  [ client |-> c, method |-> "GET", origin |-> origin, route |-> "data",
    prefix |-> "api", dataset |-> IF c = c1 THEN geography ELSE universities,
    requestMethod |-> None, requestHeaders |-> {} ]

MCRequest ==
  { Data(c1, site), Data(c2, other),
    [Data(c1, siteAgain) EXCEPT !.method = "OPTIONS", !.requestMethod = "GET",
                                !.requestHeaders = {"x-lang"}],
    [Data(c2, site) EXCEPT !.method = "OPTIONS", !.requestMethod = "DELETE"],
    [Data(c2, None) EXCEPT !.route = "live", !.prefix = "health"],
    [Data(c1, other) EXCEPT !.prefix = "v1"] }

\* The sync command ends before processes start, and one process at a time
\* starts, is probed or is sent a request.  Only production is probed.  Of one
\* source at a time are the artifacts damaged.
InOrder ==
  /\ fetch = NoFetch \/ \A x \in Api : process[x].state = "down"
  /\ Cardinality({ x \in Api : process[x].state = "starting" })
       + Cardinality({ x \in Api : probe[x] # None })
       + Cardinality({ k \in Slot : request[k] # None }) <= 1
  /\ probe[x2] = None
  /\ Cardinality(damaged) <= 1

=============================================================================
