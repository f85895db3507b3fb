------------------------------ MODULE Readiness ------------------------------
(***************************************************************************)
(* API processes that start, lose and find again the services they depend  *)
(* on, and tell whether they are ready: PrismaService,                     *)
(* RedisConnectionsService, the health of the release registry and         *)
(* HealthService.                                                          *)
(***************************************************************************)
EXTENDS Configuration, Integers, FiniteSets

CONSTANTS
  Api,       \* processes
  Env,       \* [Api -> environments]
  Source,    \* sources of releases, each with its manifest
  Geography, \* the one with the geography read model
  Manifest,  \* of geography: repository, version, status and counts
  Row        \* release rows that an import can leave in the database

VARIABLES
  redisUp,    \* whether Redis answers
  databaseUp, \* whether PostgreSQL answers
  row,        \* the row of the pinned geography release, with its counts
  released,   \* the sources whose releases are in place
  process,    \* of each process: its state, what it has loaded, its connections
  probe,      \* of each process, the request for readiness it is answering
  vouched     \* history: whether the process has been ready since it started,
              \* and is so "now", with nothing changed since it was asked

services == << redisUp, databaseUp, row >>

readinessVars == << redisUp, databaseUp, row, released, process, probe, vouched >>

ASSUME ReadinessAssumption ==
  /\ DOMAIN Env = Api
  /\ Geography \in Source
  /\ None \notin Row

Config == [x \in Api |-> GetConfig(Env[x])]

Tables == {"governorates", "districts", "subdistricts", "localities"}

Hooks == {"redis", "database", "releases"}

Connections == {"redis", "throttler"}

ConnectionStates == {"wait", "ready", "reconnecting"}

Down ==
  [state |-> "down", hooks |-> {}, loaded |-> {}, redis |-> "wait", throttler |-> "wait"]

ReadinessInit ==
  /\ redisUp \in BOOLEAN /\ databaseUp \in BOOLEAN
  /\ row = None /\ released = {}
  /\ process = [x \in Api |-> Down]
  /\ probe = [x \in Api |-> None]
  /\ vouched = [x \in Api |-> "never"]

-----------------------------------------------------------------------------
(* Redis and PostgreSQL.                                                   *)

\* A command over a connection of ioredis: whether it succeeds.  Without the
\* offline queue it fails while the connection is being made again; with it,
\* it waits for the first try.
Reaches(x, connection) ==
  CASE ~ redisUp -> {FALSE}
    [] redisUp /\ connection = "reconnecting" ->
         IF Config[x].redis.required THEN {FALSE} ELSE BOOLEAN
    [] OTHER -> {TRUE}

Used(succeeds) == IF succeeds THEN "ready" ELSE "reconnecting"

\* What probes have vouched for is no longer current.
Disturbed ==
  /\ vouched' = [x \in Api |-> IF vouched[x] = "now" THEN "once" ELSE vouched[x]]
  /\ probe' = [x \in Api |->
                 IF probe[x] = None THEN None ELSE [probe[x] EXCEPT !.calm = FALSE]]

RedisStops ==
  /\ redisUp /\ redisUp' = FALSE
  /\ process' = [x \in Api |->
                   [process[x] EXCEPT
                      !.redis = IF @ = "ready" THEN "reconnecting" ELSE @,
                      !.throttler = IF @ = "ready" THEN "reconnecting" ELSE @]]
  /\ Disturbed
  /\ UNCHANGED << databaseUp, row, released >>

RedisStarts ==
  /\ ~ redisUp /\ redisUp' = TRUE
  /\ Disturbed
  /\ UNCHANGED << databaseUp, row, released, process >>

\* Mutation: the client of the health checks is told not to try again.
ReconnectThrottler(x, c) ==
  /\ c = "throttler"
  /\ redisUp /\ process[x][c] = "reconnecting"
  /\ process' = [process EXCEPT ![x][c] = "ready"]
  /\ UNCHANGED << services, released, probe, vouched >>

\* The retry strategy of ioredis never gives up.
Reconnect(x, c) ==
  /\ redisUp /\ process[x][c] = "reconnecting"
  /\ process' = [process EXCEPT ![x][c] = "ready"]
  /\ UNCHANGED << services, released, probe, vouched >>

DatabaseChanges ==
  /\ databaseUp' = ~ databaseUp
  /\ Disturbed
  /\ UNCHANGED << redisUp, row, released, process >>

\* An import commits: a release is replaced, and never taken away.
Import(r) ==
  /\ databaseUp
  /\ row # r /\ row' = r
  /\ Disturbed
  /\ UNCHANGED << redisUp, databaseUp, released, process >>

-----------------------------------------------------------------------------
(* A process starts and stops.                                             *)

Start(x) ==
  /\ process[x].state = "down" /\ IsValid(Env[x])
  /\ process' = [process EXCEPT ![x] =
                   [Down EXCEPT !.state = "starting", !.hooks = Hooks,
                                !.throttler = IF Config[x].redis.required
                                                THEN "reconnecting" ELSE "wait"]]
  /\ UNCHANGED << services, released, probe, vouched >>

\* Mutation: the process listens without waiting for the other hooks.
ListensAtOnce(x, hook, p) ==
  process' = [process EXCEPT ![x] = [p EXCEPT !.hooks = @ \ {hook}, !.state = "up"]]

\* The hook is done; after the last one the process listens.
HookDone(x, hook, p) ==
  process' = [process EXCEPT ![x] =
                [p EXCEPT !.hooks = @ \ {hook},
                          !.state = IF process[x].hooks = {hook} THEN "up" ELSE @]]

Dies(x) == process' = [process EXCEPT ![x] = Down]

RedisOnModuleInit(x) ==
  /\ "redis" \in process[x].hooks
  /\ IF Config[x].redis.required /\ Config[x].redis.enabled
       THEN \E ok \in Reaches(x, process[x].redis) :
              IF ok THEN HookDone(x, "redis", [process[x] EXCEPT !.redis = "ready"])
                    ELSE Dies(x)
       ELSE HookDone(x, "redis", process[x])
  /\ UNCHANGED << services, released, probe, vouched >>

PrismaOnModuleInit(x) ==
  /\ "database" \in process[x].hooks
  /\ IF Config[x].database.required => Config[x].database.enabled /\ databaseUp
       THEN HookDone(x, "database", process[x])
       ELSE Dies(x)
  /\ UNCHANGED << services, released, probe, vouched >>

Missing(x, loaded) == Config[x].datasets.releaseSources \ loaded

RegistryOnModuleInit(x) ==
  /\ "releases" \in process[x].hooks
  /\ LET sources == Config[x].datasets.releaseSources
         loaded == IF sources = {} THEN released ELSE released \cap sources
     IN  IF Config[x].datasets.requireReleases /\ (Missing(x, loaded) # {} \/ loaded = {})
           THEN Dies(x)
           ELSE HookDone(x, "releases", [process[x] EXCEPT !.loaded = loaded])
  /\ UNCHANGED << services, released, probe, vouched >>

StartStep(x) == RedisOnModuleInit(x) \/ PrismaOnModuleInit(x) \/ RegistryOnModuleInit(x)

Stop(x) ==
  /\ process[x].state = "up"
  /\ Dies(x)
  /\ vouched' = [vouched EXCEPT ![x] = "never"]
  /\ probe' = [probe EXCEPT ![x] = None]
  /\ UNCHANGED << services, released >>

-----------------------------------------------------------------------------
(* GET /health/ready.                                                      *)

RegistryStatus(x) ==
  LET loaded == process[x].loaded
  IN  CASE Missing(x, loaded) # {} -> IF loaded # {} THEN "incomplete" ELSE "missing"
        [] Missing(x, loaded) = {} /\ loaded # {} -> "loaded"
        [] OTHER -> IF Config[x].datasets.requireReleases
                      THEN "missing" ELSE "not_required"

\* Mutation: Redis is not asked for.
IsReadyWithoutRedis(x, redis, database) ==
  /\ Config[x].database.required => database = "up"
  /\ Config[x].datasets.requireReleases => RegistryStatus(x) = "loaded"

IsReady(x, redis, database) ==
  /\ Config[x].redis.required => redis = "up"
  /\ Config[x].database.required => database = "up"
  /\ Config[x].datasets.requireReleases => RegistryStatus(x) = "loaded"

BeginProbe(x) ==
  /\ probe[x] = None /\ process[x].state = "up"
  /\ probe' = [probe EXCEPT ![x] = [step |-> "redis", redis |-> None, calm |-> TRUE]]
  /\ UNCHANGED << services, released, process, vouched >>

\* The answer to a probe, 200 or 503.
Answer(x, redis, database) ==
  /\ probe' = [probe EXCEPT ![x] = None]
  /\ vouched' = [vouched EXCEPT ![x] =
                   IF IsReady(x, redis, database)
                     THEN IF probe[x].calm THEN "now" ELSE "once"
                     ELSE IF @ = "never" THEN "never" ELSE "once"]

Probing(x, step) == probe[x] # None /\ probe[x].step = step

CheckRedis(x) ==
  /\ Probing(x, "redis")
  /\ IF Config[x].redis.enabled
       THEN \E ok \in Reaches(x, process[x].redis) :
              /\ probe' = [probe EXCEPT ![x].step = "database",
                                        ![x].redis = IF ok THEN "up" ELSE "down"]
              /\ process' = [process EXCEPT ![x].redis = Used(ok)]
       ELSE /\ probe' = [probe EXCEPT ![x].step = "database", ![x].redis = "disabled"]
            /\ UNCHANGED process
  /\ UNCHANGED << services, released, vouched >>

HasReadModel(x) == Config[x].database.enabled /\ Geography \in process[x].loaded

\* Mutation: a database that answers is good enough.
CheckDatabaseOnly(x) ==
  /\ Probing(x, "database")
  /\ Answer(x, probe[x].redis,
            CASE ~ Config[x].database.enabled -> "disabled"
              [] Config[x].database.enabled /\ databaseUp -> "up"
              [] OTHER -> "down")
  /\ UNCHANGED << services, released, process >>

\* SELECT 1, and for a process with a geography release the next await.
CheckDatabase(x) ==
  /\ Probing(x, "database")
  /\ \/ /\ HasReadModel(x) /\ databaseUp
        /\ probe' = [probe EXCEPT ![x].step = "model"]
        /\ UNCHANGED vouched
     \/ /\ HasReadModel(x) => ~ databaseUp
        /\ Answer(x, probe[x].redis,
                  CASE ~ Config[x].database.enabled -> "disabled"
                    [] Config[x].database.enabled /\ databaseUp -> "up"
                    [] OTHER -> "down")
  /\ UNCHANGED << services, released, process >>

\* The row is that of the pinned release, with as many records in every table
\* as its manifest declares.
IsPinned(r) ==
  /\ r # None
  /\ r.repository = Manifest.repository
  /\ r.version = Manifest.version
  /\ r.status = Manifest.status /\ r.status = "released"
  /\ \A t \in Tables : r.counts[t] = Manifest.counts[t]

CheckPinnedReadModel(x) ==
  /\ Probing(x, "model")
  /\ Answer(x, probe[x].redis, IF databaseUp /\ IsPinned(row) THEN "up" ELSE "down")
  /\ UNCHANGED << services, released, process >>

ProbeStep(x) == CheckRedis(x) \/ CheckDatabase(x) \/ CheckPinnedReadModel(x)

ReadinessNext ==
  \/ RedisStops \/ RedisStarts \/ DatabaseChanges
  \/ \E r \in Row : Import(r)
  \/ \E x \in Api :
       \/ Start(x) \/ StartStep(x) \/ Stop(x)
       \/ BeginProbe(x) \/ ProbeStep(x)
       \/ \E c \in Connections : Reconnect(x, c)

=============================================================================
