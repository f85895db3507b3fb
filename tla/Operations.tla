----------------------------- MODULE Operations -----------------------------
(***************************************************************************)
(* A deployment of the API: the sync command fetches the releases of its   *)
(* sources, processes start and are probed, clients send requests to them, *)
(* and Redis, PostgreSQL, GitHub, the artifacts and the processes fail and *)
(* come back.                                                              *)
(***************************************************************************)
EXTENDS FetchRetry, Readiness, Gateway

CONSTANTS
  Slot,    \* places for requests that are answered at the same time
  Client,  \* clients
  From,    \* [Client -> the headers and addresses of its requests]
  Request, \* requests: client, method, route, prefix and dataset, and what CORS
           \* looks at
  Order    \* the order in which the sync command goes through the sources

ASSUME OperationsAssumption ==
  /\ "redis" \notin Api
  /\ \A r \in Request : r.client \in Client /\ r.origin # "*"
  /\ None # "*" /\ None \notin 200 .. 599
  /\ \A x \in Api : /\ Config[x].app.corsOrigin.kind \in {"false", "true", "*", "list"}
                    /\ Config[x].app.corsCredentials \in BOOLEAN

VARIABLES
  damaged, \* the sources with artifacts that a process cannot read
  request, \* in each place, the request that is being answered
  bucket,  \* of each storage and tracker, what the throttler has counted
  spent    \* history: how often each client was charged in this window

opsVars == << fetch, readinessVars, damaged, request, bucket, spent >>

Storage == Api \cup {"redis"}

TrackerOf(x, c) == GetClientTracker(From[c], Config[x].app.trustProxy)

Trackers(c) == { TrackerOf(x, c) : x \in Api }

Tracker == UNION { Trackers(c) : c \in Client }

Init ==
  /\ FetchInit
  /\ ReadinessInit
  /\ damaged = {}
  /\ request = [k \in Slot |-> None]
  /\ bucket = [s \in Storage |-> [t \in Tracker |-> EmptyBucket]]
  /\ spent = [c \in Client |-> 0]

-----------------------------------------------------------------------------
(* The sync command, as far as its requests: sources in order, and none    *)
(* after one that fails.                                                   *)

IsNext(s) ==
  \E i \in DOMAIN Order :
     Order[i] = s /\ released = { Order[j] : j \in 1 .. i - 1 }

Synced == released = { Order[i] : i \in DOMAIN Order }

SyncBegins ==
  /\ ~ Synced
  /\ BeginFetch
  /\ UNCHANGED << readinessVars, damaged, request, bucket, spent >>

SyncEnds ==
  /\ EndFetch
  /\ UNCHANGED << readinessVars, damaged, request, bucket, spent >>

SyncStep ==
  /\ FetchStep
  /\ released' = IF fetch'.step = "fetched"
                   THEN released \cup { s \in Source : IsNext(s) }
                   ELSE released
  /\ UNCHANGED << services, process, probe, vouched, damaged, request, bucket, spent >>

-----------------------------------------------------------------------------
(* A request.                                                              *)

Answered(k) == request[k] # None /\ request[k].step = "answered"

Handling(k) == request[k] # None /\ request[k].step = "handler"

IsData(r) == r.route = "data" /\ ~ IsPreflight(r)

Matched(x, r) == r.route = "data" => r.prefix = Config[x].app.apiPrefix

\* What was vouched for when the request came is no longer current.
Outdated(k) ==
  IF Handling(k) /\ request[k].vouched = "now"
    THEN [request[k] EXCEPT !.vouched = "once"]
    ELSE request[k]

\* The request with the headers of its answer.
Received(x, r) ==
  [ api |-> x, of |-> r, headers |-> CorsHeaders(r, Config[x].app),
    vouched |-> vouched[x], step |-> "handler", status |-> None, source |-> None ]

Pending(k, pending) == request' = [request EXCEPT ![k] = pending]

AnswerWith(k, pending, status, source) ==
  Pending(k, [pending EXCEPT !.step = "answered", !.status = status, !.source = source])

Takes(k, x) ==
  /\ process[x].state = "up"
  /\ request[k] = None

\* The answer to a request that gets no further than its hooks and routes.
StatusBefore(x, r) ==
  CASE IsPreflight(r) -> PreflightStatus(r, Config[x].app)
    [] ~ IsPreflight(r) /\ ~ Matched(x, r) -> 404
    [] ~ IsPreflight(r) /\ Matched(x, r) /\ r.route = "live" -> 200
    [] OTHER -> None

\* Preflights, unknown paths and the liveness of a process are not counted.
ReceiveUncounted(k, x, r) ==
  /\ Takes(k, x)
  /\ IsPreflight(r) \/ ~ Matched(x, r) \/ ShouldSkipFreeTierQuota(r)
  /\ IF StatusBefore(x, r) = None
       THEN Pending(k, Received(x, r))
       ELSE AnswerWith(k, Received(x, r), StatusBefore(x, r), None)
  /\ UNCHANGED << fetch, readinessVars, damaged, bucket, spent >>

\* The storage counts the request.
Count(store, x, r) ==
  /\ bucket' = [bucket EXCEPT ![store][TrackerOf(x, r.client)] = Increment(@)]
  /\ spent' = [spent EXCEPT ![r.client] = IF @ > Limit THEN @ ELSE @ + 1]

\* The guard: the client is refused, or the handler runs.
Charge(k, x, r) ==
  LET store == StorageOf(x, Config[x].redis)
  IN  /\ Count(store, x, r)
      /\ IF bucket'[store][TrackerOf(x, r.client)].blocked
           THEN AnswerWith(k, Received(x, r), 429, None)
           ELSE Pending(k, Received(x, r))

Counted(x, r) == Matched(x, r) /\ ~ ShouldSkipFreeTierQuota(r)

\* Counted in Redis, over the connection of the throttler, or in memory.
ReceiveCounted(k, x, r) ==
  /\ Takes(k, x)
  /\ Counted(x, r)
  /\ IF Config[x].redis.enabled
       THEN /\ TRUE \in Reaches(x, process[x].throttler)
            /\ process' = [process EXCEPT ![x].throttler = "ready"]
       ELSE UNCHANGED process
  /\ Charge(k, x, r)
  /\ UNCHANGED << fetch, services, released, probe, vouched, damaged >>

\* The storage cannot be reached, and the guard throws.
StorageFails(k, x, r) ==
  /\ Takes(k, x)
  /\ Counted(x, r) /\ Config[x].redis.enabled
  /\ FALSE \in Reaches(x, process[x].throttler)
  /\ AnswerWith(k, Received(x, r), 500, None)
  /\ process' = [process EXCEPT ![x].throttler = "reconnecting"]
  /\ UNCHANGED << fetch, services, released, probe, vouched, damaged, bucket, spent >>

\* Redis has counted, and its reply is lost with the connection: the guard
\* throws.
ReplyLost(k, x, r) ==
  /\ Takes(k, x)
  /\ Counted(x, r) /\ Config[x].redis.enabled
  /\ process[x].throttler = "ready"
  /\ RedisStops
  /\ Count("redis", x, r)
  /\ request' = [j \in Slot |->
                   IF j = k THEN [Received(x, r) EXCEPT !.vouched = vouched'[x],
                                                        !.step = "answered",
                                                        !.status = 500]
                            ELSE Outdated(j)]
  /\ UNCHANGED << fetch, damaged >>

\* Whether geography is answered from the database, or not at all: getQueryContext
\* and the statements after it.
AsksDatabase(x, r) ==
  r.dataset = Geography /\ HasReadModel(x) /\ (databaseUp => row # None)

\* What a request is answered from artifacts: nothing of a dataset that is not
\* loaded, an error for what cannot be read, unless the cache has it.
ArtifactStatuses(x, r) ==
  IF r.dataset \in process[x].loaded \cap damaged THEN {200, 500} ELSE {200}

\* The handler of a list.
Handle(k) ==
  /\ Handling(k)
  /\ LET x == request[k].api
         r == request[k].of
     IN  IF AsksDatabase(x, r)
           THEN IF databaseUp THEN AnswerWith(k, request[k], 200, "database")
                              ELSE AnswerWith(k, request[k], 500, None)
           ELSE \E status \in ArtifactStatuses(x, r) :
                  AnswerWith(k, request[k], status, "artifacts")
  /\ UNCHANGED << fetch, readinessVars, damaged, bucket, spent >>

\* The answer is with the client.
Deliver(k) ==
  /\ Answered(k)
  /\ Pending(k, None)
  /\ UNCHANGED << fetch, readinessVars, damaged, bucket, spent >>

\* The time to live of a bucket has passed since its first hit, or since it
\* was blocked.
WindowEnds(s, t) ==
  /\ bucket[s][t] # EmptyBucket
  /\ bucket' = [bucket EXCEPT ![s][t] = EmptyBucket]
  /\ spent' = [c \in Client |->
                 IF /\ t \in Trackers(c)
                    /\ \A z \in Storage, u \in Trackers(c) : bucket'[z][u] = EmptyBucket
                   THEN 0 ELSE spent[c]]
  /\ UNCHANGED << fetch, readinessVars, damaged, request >>

-----------------------------------------------------------------------------
(* What happens around requests.                                           *)

ServicesChange ==
  /\ RedisStops \/ RedisStarts \/ DatabaseChanges \/ \E r \in Row : Import(r)
  /\ request' = [k \in Slot |-> Outdated(k)]
  /\ UNCHANGED << fetch, damaged, bucket, spent >>

\* An artifact of a release in place is lost, or replaced by one that its
\* manifest does not declare or the image does not accept; or can be read again.
ArtifactsChange(s) ==
  /\ s \in released
  /\ damaged' = IF s \in damaged THEN damaged \ {s} ELSE damaged \cup {s}
  /\ Disturbed
  /\ request' = [k \in Slot |-> Outdated(k)]
  /\ UNCHANGED << fetch, services, released, process, bucket, spent >>

\* The memory of a process is gone with it, and so are its requests.
ProcessStops(x) ==
  /\ Stop(x)
  /\ request' = [k \in Slot |->
                   IF request[k] # None /\ request[k].api = x THEN None ELSE request[k]]
  /\ bucket' = [bucket EXCEPT ![x] = [t \in Tracker |-> EmptyBucket]]
  /\ UNCHANGED << fetch, damaged, spent >>

ProcessStep(x) ==
  /\ \/ Start(x) \/ StartStep(x) \/ BeginProbe(x) \/ ProbeStep(x)
     \/ \E c \in Connections : Reconnect(x, c)
  /\ UNCHANGED << fetch, damaged, request, bucket, spent >>

Next ==
  \/ SyncBegins \/ SyncStep \/ SyncEnds
  \/ ServicesChange \/ \E s \in Source : ArtifactsChange(s)
  \/ \E x \in Api : ProcessStep(x) \/ ProcessStops(x)
  \/ \E k \in Slot, x \in Api, r \in Request :
       \/ ReceiveUncounted(k, x, r) \/ ReceiveCounted(k, x, r)
       \/ StorageFails(k, x, r) \/ ReplyLost(k, x, r)
  \/ \E k \in Slot : Handle(k) \/ Deliver(k)
  \/ \E s \in Storage, t \in Tracker : WindowEnds(s, t)

Spec == Init /\ [][Next]_opsVars

\* GitHub answers or the timeout fires, timers fire, connections that can be
\* made are made, and the checks of a probe end.
FairSpec ==
  /\ Spec
  /\ WF_opsVars(SyncStep)
  /\ \A x \in Api :
       /\ WF_opsVars(ProbeStep(x) /\ UNCHANGED << fetch, damaged, request, bucket, spent >>)
       /\ \A c \in Connections :
            WF_opsVars(Reconnect(x, c) /\ UNCHANGED << fetch, damaged, request, bucket, spent >>)

-----------------------------------------------------------------------------
(* Correctness.                                                            *)

\* Types of the state of a deployment.
OperationsTypeOK ==
  /\ fetch.attempt \in 1 .. MaxAttempts
  /\ fetch.outcomes \in Seq(Outcome)
  /\ << redisUp, databaseUp >> \in BOOLEAN \X BOOLEAN
  /\ row \in Row \cup {None}
  /\ released \subseteq Source /\ damaged \subseteq released
  /\ \A x \in Api :
       /\ process[x].state \in {"down", "starting", "up"}
       /\ process[x].hooks \subseteq Hooks
       /\ process[x].hooks # {} <=> process[x].state = "starting"
       /\ process[x].loaded \subseteq Source
       /\ \A c \in Connections : process[x][c] \in ConnectionStates
       /\ vouched[x] \in {"never", "once", "now"}
       /\ vouched[x] # "never" => process[x].state = "up"
  /\ \A x \in Api : probe[x] # None => process[x].state = "up"
  /\ \A k \in Slot : request[k] # None => process[request[k].api].state = "up"
  /\ bucket \in [Storage -> [Tracker -> Bucket]]
  /\ spent \in [Client -> 0 .. Limit + 1]

\* A process that has all it may use as a requirement.
RequiresWhatItUses(x) ==
  /\ Config[x].redis.enabled => Config[x].redis.required
  /\ Config[x].database.enabled => Config[x].database.required

\* In a step: request k is answered with a status.
Answers(k, status) ==
  /\ request'[k] # request[k] /\ request'[k] # None
  /\ request'[k].step = "answered" /\ request'[k].status = status

\* In a step: request k gets to its handler.
Admits(k) == ~ Handling(k) /\ Handling(k)'

\* Answered from artifacts of its dataset that cannot be read.
OfDamaged(x, r) ==
  r.dataset \in damaged /\ (r.dataset = Geography /\ HasReadModel(x) => row = None)

\* A process that says it is ready answers: if nothing has changed since it
\* was asked, a data request fails only while the throttler's own connection to
\* Redis, which readiness does not look at, is still being made, or where it is
\* answered from artifacts that cannot be read, which readiness does not look
\* at either, though docs/read-model-architecture.md:88-89 says so
\* (health.service.ts:75-103, throttler.factory.ts:122-129,
\* local-dataset-artifact-reader.service.ts:39-96).
ReadyAnswers ==
  [][\A k \in Slot :
       Answers(k, 500) /\ request'[k].vouched = "now" /\ RequiresWhatItUses(request'[k].api)
     => \/ redisUp /\ process[request'[k].api].throttler = "reconnecting"
        \/ OfDamaged(request'[k].api, request'[k].of)]_opsVars

\* "In production, geography is imported into the read model before the API is
\* marked ready" (docs/read-model-architecture.md:77): a process that uses the
\* database and has said once that it is ready never answers for geography from
\* artifacts.
ReadyFromDatabase ==
  [][\A k \in Slot :
       Answers(k, 200) /\ request'[k].vouched # "never" /\ request'[k].of.route = "data"
     /\ request'[k].of.dataset = Geography
     /\ HasReadModel(request'[k].api) /\ RequiresWhatItUses(request'[k].api)
     => request'[k].source = "database"]_opsVars

\* What a process needs to be ready.
Satisfied(x) ==
  /\ process[x].state = "up"
  /\ Config[x].redis.required => redisUp
  /\ Config[x].database.required => databaseUp /\ (HasReadModel(x) => IsPinned(row))

\* Once its dependencies stay up and the pinned release is imported, a process
\* that is asked comes to say it is ready and stays so: it finds Redis again by
\* itself, however often it was lost (redis-connections.service.ts:79-107).  One
\* that requires Redis and has it disabled is never ready.
BecomesReady ==
  \A x \in Api :
    (/\ Config[x].redis.required => Config[x].redis.enabled
     /\ <>[]Satisfied(x)
     /\ <>[][UNCHANGED << services, damaged >>]_<< services, damaged >>
     /\ []<>(Probing(x, "redis")))
    => <>[](vouched[x] = "now")

\* Every process counts in Redis, under the prefix that the guard looks for, and
\* takes the same address for that of a client.
SharedQuota ==
  \A x, y \in Api :
    /\ Config[x].redis.enabled
    /\ Config[x].app.apiPrefix = ApiPathPrefix
    /\ Config[x].app.trustProxy = Config[y].app.trustProxy

\* "500 requests per day" for "one free-tier quota bucket per client"
\* (docs/api-standards.md:776-780): over all processes that share a Redis, in
\* one window, no more than Limit data requests of a client reach a handler.
QuotaKept ==
  [][\A k \in Slot :
     SharedQuota /\ Admits(k) /\ IsData(request'[k].of)
     => spent'[request'[k].of.client] <= Limit]_opsVars

\* A client is refused for its own data requests only, not for those of
\* others behind the same proxy, and not for preflights, health checks or
\* unknown paths (docs/api-standards.md:785, 787).
OnlyOwnQuota ==
  [][\A k \in Slot : Answers(k, 429) => spent'[request'[k].of.client] > Limit]_opsVars

\* What a browser lets the page of an origin read (Fetch standard).
Readable(origin, withCredentials, headers) ==
  \/ headers.allowOrigin = origin /\ (withCredentials => headers.allowCredentials)
  \/ headers.allowOrigin = "*" /\ ~ withCredentials

\* Pages of the configured origins, however these are written, and no others
\* can read every answer, errors, refusals and preflights included, with
\* credentials where they are configured (setupCors:122-165).
CorsAsConfigured ==
  \A k \in Slot : Answered(k) /\ request[k].of.origin # None =>
    LET app == Config[request[k].api].app
        origin == request[k].of.origin
        headers == request[k].headers
        allowed == \/ app.corsOrigin.kind \in {"true", "*"}
                   \/ /\ app.corsOrigin.kind = "list"
                      /\ NormalizeOrigin[origin] \in app.corsOrigin.origins \ {None}
    IN  /\ Readable(origin, FALSE, headers) <=> allowed
        /\ Readable(origin, TRUE, headers) <=> allowed /\ app.corsCredentials
        /\ request[k].status = 204 => allowed

=============================================================================
