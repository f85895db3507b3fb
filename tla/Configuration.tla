---------------------------- MODULE Configuration ----------------------------
(***************************************************************************)
(* How the environment of a process, a record of its variables, becomes    *)
(* its configuration.  A variable that is not set is None.                 *)
(***************************************************************************)
CONSTANTS
  None,
  NormalizeOrigin \* of every text, the origin of the URL it is, or None

OrElse(value, default) == IF value = None THEN default ELSE value

IsRequiredByDefault(env) == env.NODE_ENV \in {"production", "staging"}

-----------------------------------------------------------------------------
\* "false", "true" and "*" as they are; otherwise a list of origins.
GetCorsOrigin(raw) ==
  CASE raw.kind # "list" -> raw
    [] raw.kind = "list" /\ raw.origins = {} -> [kind |-> "false"]
    [] raw.kind = "list" /\ raw.origins # {} ->
         [kind |-> "list", origins |-> { NormalizeOrigin[o] : o \in raw.origins }]

CorsOriginIsValid(raw) ==
  raw.kind = "list" => \A o \in raw.origins : NormalizeOrigin[o] # None

GetCorsCredentials(corsOrigin, explicitValue) ==
  OrElse(explicitValue, corsOrigin.kind \notin {"false", "*"})

GetAppConfig(env) ==
  LET corsOrigin == GetCorsOrigin(OrElse(env.APP_CORS_ORIGIN, [kind |-> "*"]))
  IN  [ apiPrefix |-> OrElse(env.APP_API_PREFIX, "api"),
        trustProxy |-> OrElse(env.APP_TRUST_PROXY, OrElse(env.IS_HTTPS, FALSE)),
        corsOrigin |-> corsOrigin,
        corsCredentials |-> GetCorsCredentials(corsOrigin, env.APP_CORS_CREDENTIALS) ]

GetRedisConfig(env) ==
  [ enabled |-> OrElse(env.REDIS_ENABLED, env.NODE_ENV # "test"),
    required |-> OrElse(env.REDIS_REQUIRED, IsRequiredByDefault(env)) ]

\* DATABASE_URL stands for whether it is set.
GetDatabaseConfig(env) ==
  LET required == OrElse(env.DATABASE_REQUIRED, IsRequiredByDefault(env))
  IN  [ required |-> required,
        enabled |-> OrElse(env.DATABASE_ENABLED, env.DATABASE_URL \/ required) ]

\* The lock file wins over the environment, unless the override is set.
GetDatasetsConfig(env) ==
  [ requireReleases |-> OrElse(env.DATASETS_REQUIRE_RELEASES, FALSE),
    releaseSources |->
      IF \/ OrElse(env.DATASETS_RELEASE_SOURCES_OVERRIDE, FALSE)
         \/ env.DATASETS_RELEASE_SOURCES_FILE = {}
        THEN env.DATASETS_RELEASE_SOURCES
        ELSE env.DATASETS_RELEASE_SOURCES_FILE ]

\* With other environments a process does not get as far as its modules.
IsValid(env) ==
  /\ CorsOriginIsValid(OrElse(env.APP_CORS_ORIGIN, [kind |-> "*"]))
  /\ GetDatabaseConfig(env).enabled => env.DATABASE_URL

GetConfig(env) ==
  [ app |-> GetAppConfig(env), redis |-> GetRedisConfig(env),
    database |-> GetDatabaseConfig(env), datasets |-> GetDatasetsConfig(env) ]

=============================================================================
