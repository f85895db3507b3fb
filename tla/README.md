# Verification of datasets-api

TLA+ models of `datasets-api`, the read-only API over the Open-Syria datasets,
with TLC runs over small instances and TLAPS proofs for instances of any size.
Paths below are relative to the repository; `sync:170` abbreviates
`src/datasets/sync/github-release-sync.service.ts:170`, `import:` the
`src/read-model/geography/geography-read-model-import.service.ts`, `query:` its
`...-query.service.ts` and `cache:` `src/shared/cache/public-data-cache.service.ts`.

## The system

Dataset repositories publish GitHub releases: a `release-manifest.json` and
artifacts whose SHA-256 digests the manifest declares. `dataset-releases.json`
pins the releases the API serves. Data flows one way:

```text
GitHub releases --(sync command)--> releases directory --(import command)--> PostgreSQL
                                          |                                      |
                                          +----(registry, artifact reader)--+    |
                                                                            v    v
                                       Redis or in-memory cache  <-->  API processes --> clients
```

Every box is shared by processes that no lock coordinates, apart from the row
locks of PostgreSQL. The sync and import commands are run by operators and by
the deployment, perhaps twice at once, perhaps next to API processes of two
images during a rolling update.

### Components

| Component | State it keeps | Operations | Correct when |
| --- | --- | --- | --- |
| Release sync (`sync:112-535`, `src/cli/sync-dataset-releases.ts`) | release directories, staging and backup directories | sync of every source: fetch release, download and check manifest, validate what is there, download and verify artifacts, swap directories | nothing unverified is ever visible; a release that was promoted is never lost nor exchanged; a repeated run finishes what an earlier one left |
| HTTP retries (`sync:479-512`) | attempt counter | one request with retries | at most so many attempts; the last answer or error is the one reported |
| Pins and configuration (`src/datasets/sync/dataset-release-source.utils.ts`, `src/config`) | none | choice and validation of the sources, defaults by environment | lock file before environment unless overridden; no duplicates; pins in the lock file |
| Geography importer (`import:`, `src/cli/import-geography-read-model.ts`) | rows of one release | replace the release in one transaction, then clear the cache | replacement is all or nothing, also when imports overlap or fail |
| Geography queries (`query:`) | none | context, count, find, detail; cached | an answer is of the pinned release, and of one build of it |
| Public data cache (`cache:`, `src/config/cache/cache.factory.ts`) | cached answers | get or set, clear all, expiry | errors are swallowed; stale entries do not last |
| Registry and loader (`src/datasets/dataset-release-registry.service.ts`, `loaders/local-dataset-manifest-loader.service.ts`) | manifests loaded at startup | load, select pinned or latest, health | exactly the pinned releases are served |
| Artifact reader (`loaders/local-dataset-artifact-reader.service.ts`) | cached payloads | read, verify, parse | no payload that differs from what the loaded manifest declares |
| Health (`src/api/health/health.service.ts`, `src/database/prisma.service.ts`, `src/shared/redis/redis-connections.service.ts`) | connections | start, liveness, readiness | a process that says it is ready answers, from the database it requires; one that could be ready becomes it |
| Record endpoints (`src/api/geography`, `universities`, `transport`, `telecom`, `src/common/helpers`) | none | filter, search, sort, page, join, look up | following the links shows every matching record once; the database and artifacts agree; details agree with lists |
| Discovery (`src/api/datasets`, `releases`, `public-dataset-endpoints.ts`) | cached pages | list what is served | names the release that the endpoints answer from |
| Throttling (`src/config/throttler`) | counters, in Redis or in memory | choice of the bucket, skipping, counting | no more than the limit in a window, over all processes; nobody is refused for others |
| CORS (`src/app.setup.ts`, `src/config/app`) | none | headers and preflights | exactly the configured origins can read answers |
| OpenAPI, i18n, filters, scripts | none | declarations, formatting | not modelled |

### What is hard about it

* **Interleaving.** `syncSource` awaits a dozen calls between the check of the
  existing directory (`sync:170`) and its replacement (`sync:203`); two runs of
  the command interleave freely. Two importers of one release meet in the locks
  of PostgreSQL. A request reads the release row and the records in separate
  statements (`query:455`, `query:181`).
* **Failure.** A run can die between the two renames of a swap (`sync:312`,
  `sync:321`), the rename that puts the backup back can fail (`sync:324`), a
  batch of an import can fail with the old rows already deleted
  (`import:159-212`), a commit can succeed with its reply lost (`import:220`).
* **Ordering.** The publisher can replace a tag, or half of its assets, between
  the downloads. A request that read before a commit fills the cache after the
  import cleared it.
* **Staleness.** The registry reads manifests once, at startup; caches outlive
  the data; Redis is shared by images with different pins. A list can change
  from artifacts to tables, or to another release, in the middle of a walk.
* **Two implementations of one thing.** Geography's filters, orders and searches
  are written once over artifacts and once as SQL over a search text.
* **Counting over processes.** The daily quota is kept in Redis, over a connection
  that readiness does not look at, under a name derived from headers of proxies.

`PROJECT.json` lists each of these hazards at its line, with the properties that
would catch it going wrong, or why none does yet.

## Modules

| Module | What it models |
| --- | --- |
| `ReleaseSync` | runs of the sync command over one releases directory, the publisher, failures and crashes |
| `WriteOnceStore` | what the documentation promises of the releases directory, abstractly: a directory receives one manifest, once |
| `ReleaseSyncProofs` | proofs about `ReleaseSync`, among them that it implements `WriteOnceStore` |
| `MCReleaseSync` | small instances of `ReleaseSync` |
| `ReadModel` | importers, PostgreSQL rows and locks, requests, caches, expiry, failures |
| `ReadModelProofs` | proofs about `ReadModel` |
| `MCReadModel` | small instances of `ReadModel` |
| `ReleaseServing` | API processes over the directories of `ReleaseSync`: startup, selection, artifacts through a shared cache, restarts |
| `ReleaseServingProofs` | proofs about `ReleaseServing`, on top of `ReleaseSyncProofs` |
| `ReleaseStartupProofs` | proofs about `ReleaseServing` while no two sync runs overlap: calls, startups, restarts |
| `MCReleaseServing` | small instances of `ReleaseServing` |
| `ListQueries` | what all lists share: queries, search, order, pages, envelopes |
| `GeographyEndpoints`, `UniversityEndpoints`, `TransportEndpoints`, `TelecomEndpoints` | the thirteen lists of records and their details, as operators over the artifacts of a release (geography: or over its tables) |
| `DiscoveryEndpoints` | the lists of datasets and of releases, and the keys of their cache |
| `Browsing` | clients that walk the lists and open records while releases are deployed and imported |
| `ListQueriesProofs` | lemmas about what all lists share: sorting, the slice of a page, its links |
| `BrowsingProofs` | proofs about `Browsing` |
| `MCBrowsing` | small releases and queries for `Browsing` |
| `FetchRetry` | one request to GitHub with its retries |
| `FetchRetryProofs` | proofs about `FetchRetry` |
| `Configuration` | the configuration of a process from its environment |
| `Gateway` | what a request meets before its handler: CORS and the quota |
| `Readiness` | processes that start, lose and find Redis and PostgreSQL, and answer probes |
| `Operations` | a deployment: the sync command's requests, processes, probes, requests and their counting, failing services; it extends the three above and `FetchRetry` |
| `OperationsProofs` | proofs about `Operations`, on top of `FetchRetryProofs` |
| `MCOperations` | a small deployment for `Operations` |

### ReleaseSync

*State.* `live` is what stands under `<releasesDirectory>/<slug>/<version>`, by
release directory: `None`, or a manifest and the artifacts beside it. `staging`
and `backup` are the dot directories of the runs (their names carry a UUID, so
no two runs share one); `orphan` and `debris` are the dot directories of runs
that died: whole backups, and everything else. `remote` is what GitHub holds
behind each tag. `pc` is the awaited call a run is about to make, and `seen`,
`manifest`, `todo`, `option`, `at` and `result` are the locals of `syncSources`
and `syncSource`.

*Actions.* One per awaited call that touches shared state; what the code does
synchronously after it is part of the same action, because Node runs it before
anything else in that process. The manifest's checks (pin, schema, identity of
the release and of the manifest, readiness; `sync:147-163`) are the operators
under `Accepted`. `Return` and `Throw` leave `syncSource`; a `Throw` ends the run
because nothing in `syncSources` catches it. `Promote` fails when a directory
stands in the way (a POSIX `rename` onto a directory that is not empty).

*Abstractions.* A manifest is its bytes and so its digest; SHA-256 is taken to
be injective. A run that stages and promotes its artifacts does so directory
entry by directory entry; nobody looks into a dot directory, so `rm -rf` that
fails half way is `debris`. Each loop over artifacts visits them in any order.
Paths (`resolveDatasetReleaseDirectory`, the refusal to leave the directory) are
an injective function from manifests' identities to directories. A whole
`fetchWithRetry` is one action that succeeds or fails; its loop is `FetchRetry`.

### ReadModel

*State.* `db` is the committed row of each release: its build and how many of
its tables are filled. `lock` is the transaction that holds the row's lock or
has inserted its key; `written` is what a transaction has written and nobody
else sees. `cache` maps each cache and key to an answer. A request's `answer`
remembers which build its manifest, its total and its records came from: that,
and not the records, is what the properties are about. A *build* is what was
published under a release id; a release that is rebuilt (the local workflow of
`docs/read-model-architecture.md:121` imports `../data-geography/dist/release`,
which has no pin) has several.

*Actions.* The importer's statements (`Delete`, `Insert`, `Fill` per table,
`Commit`), then `Clear`. `Delete` meets the locks of PostgreSQL: it takes the
lock of the row, waits for it, or finds no row; when the transaction it waits for
commits, the row is gone and the deletion finds nothing. `Insert` waits for an
uncommitted insertion of the key and fails on a committed one. A request goes
through `GetContext`, `LookUp`, `Count`, `Find`, `Put`, or falls back to
`ReadArtifact`. `findUnique` with `include` is one step: Prisma may split it, but
the parts it reads hang on the row it found.

*Abstractions.* PostgreSQL's default isolation, read committed, is assumed, as
nothing in `src/` sets another: every statement sees the last committed state.
The order of the tables follows the foreign keys. The application release in the
cache key (`cache:95`) is left out: it only keeps images further apart, and two
processes with the same application release can still have different pins
through the environment. A `set` that returns before Redis has stored the value
(`nonBlocking`) is covered, since a `Put` may be delayed arbitrarily.
Errors of the cache are `CacheFails`, `ClearFails`. `Expire` may happen at any
time, as Redis may evict.

### ReleaseServing

It extends `ReleaseSync`: a step is one of a run of the sync command, or one of
an API process, which reads `live` and changes nothing of it.

*State.* `boot` is how far each process is in its startup; `agenda`, `listed`
and `found` are the directories that the recursion of `findManifestFiles` has
still to read and what it has returned, `loaded` the result of `listManifests`,
`registry` the selection. `step`, `reading`, `wanted`, `outcome` and `payload`
are those of a call of `readJsonArtifact`, `payloads` the cache that all the
processes share.

*Actions.* `Boot`, `ListDataset` and `ListRelease` are the `readdir` calls of
the walk, one each, and `LoadManifest` one `readFile` after it: what was listed
can be gone or exchanged by then. `SelectPinned`, `SelectLatest` and `Refuse`
are `onModuleInit` after that, without an await. `AskArtifact`, `LookUpPayload`,
`ReadFile` and `PutPayload` are `readJsonArtifact` up to each of its awaits.
`Stop` ends a process at any moment; the cache stays.

*Abstractions.* Dot directories are passed over (`findManifestFiles:46`), so that
only `live` is ever listed. The names of the releases directory are dataset
slugs; one whose first release is being staged may be listed already. A version
is a rank (its numbers) and a timestamp. What a schema accepts is a set of
contents, which depends on the process because images differ. An entry of the
cache may have expired, or the cache may fail, whenever it is asked.

### The endpoints and Browsing

*Operators.* Every list and detail is an operator from a query and a release to
an answer: the controller, the service and its helpers. `ListQueries` has their
common parts: the parsing of a query, search, stable sorting, the slice of a page,
`BuildOffsetPagination` with its links, the context of a dataset in an answer, and
the errors. `UniversityEndpoints` joins three artifacts (`LogoOf`, `RankingsOf`),
`GeographyEndpoints` has each list twice: over the artifact (`Filter...`) and over
the table that an import has filled (`...Where`), where records of one name come
in any order.

*State and actions.* `served` is the release that processes serve, `rows` what is
in the database: of each release the manifest it was imported from. A row is found
by dataset and version, so that an answer from tables may tell the status and date of
another manifest than the one that is served (`query:455-472`, `mapReleaseManifest`);
`Imported` and `GeographyContext` of `GeographyEndpoints` are this choice. `session` is the walk of a client: `Begin` asks for a
page, `FollowNext` takes the next links to the last page, `FollowPrevious` those
back to the first; `pages` keeps the last answer to each page, with the release and
the row it was answered from. `Deploy` and `Import`, which replaces the row of its
version, come in between, up to `MaxChanges` times. A client keeps nothing
between walks, so one client at a time is enough. Details are asked for in
`DetailAgrees`, of every record on a page.

*Abstractions.* Texts are ranks in the order of `localeCompare`, which is taken
to be PostgreSQL's order too; of the text of a record only the fields are kept in
which the one search term of the model occurs (`mentions`). Search is by field in
the artifacts, and by one joined string in the tables, so that a term can be
found there across two fields, and some fields are in one and not in the other;
what the documentation of the query names is in both. `WalkIsExact` and
`LinksLead` therefore have as premise that names are distinct and that the term
occurs in a documented field, if it occurs at all. Answers come at one moment
here; requests that overlap imports are `ReadModel`. The records of a version have
one build here, under manifests that may differ; those that have several are in
`ReadModel` too. A page of discovery may come from
the cache: it is then of any release whose manifests give the same key.

### FetchRetry, Configuration, Gateway, Readiness and Operations

*State.* `fetch` is the loop of `fetchWithRetry`: the attempt and the outcomes so
far. `process` is, of each process, whether it is starting or up, which of its
`onModuleInit` hooks are to be run, the releases it has loaded and its two
connections to Redis, the client of the health checks and the throttler's own.
`redisUp`, `databaseUp` and `row` are the services; `released` what the sync
command has put in place, and `damaged` those of it with an artifact that cannot be
read: missing, other bytes than its manifest declares, or not as the image's schema
wants it. `probe` is a request for readiness between its awaits.
`request` holds the requests that are answered, `bucket` what the throttler's
storages have counted. `vouched` and `spent` are history: whether a process has
said that it is ready with nothing changed since it was asked, and how often a
client was charged in this window.

*Actions.* Sync: `SyncBegins`, one `SyncStep` per response, network error, pause
and body, `SyncEnds`; a source that fails ends the run and the sources after it
are not tried. Processes: `Start`, one step per hook in any order (Nest awaits
them together), `BeginProbe`, then `CheckRedis`, `CheckDatabase` and
`CheckPinnedReadModel`, `Reconnect` as ioredis does, `Stop` at any moment.
Requests: `ReceiveUncounted` (preflights, liveness, unknown paths, paths without
the prefix), `ReceiveCounted`, `StorageFails` and `ReplyLost` (Redis has counted
and the reply is lost: the client gets an error and is charged), `Handle`,
`Deliver`. `WindowEnds` is the time to live of a bucket. `Handle` is the handler of a
list: geography is answered from the database, with an error if it is down, where the
process uses it and the row is there; what is left, geography or not, is answered from
artifacts, with an error if they cannot be read and the cache does not have them.
`ArtifactsChange` damages the artifacts of a source or puts them right.

*Abstractions.* An environment is a record of the variables the configuration
reads, their texts parsed. A request is its client, its method, its route, prefix and
dataset, its origin and what a preflight asks for. How long a pause of
`fetchWithRetry` is, the deadline of an attempt and that of a request to Redis are
left out: each can be over at any time. Redis keeps its counters when it is not
reached. Of an answer only its status and where it comes from are kept; a query that
is rejected and a detail that is not found are answers of `Browsing`, and the requests
here are for lists. ioredis (its offline queue
is off where Redis is required, so a command fails while a connection is being
made again; else it waits for the next try) and the counting of
@nestjs/throttler are external.

## Runs

All are run with `tlc -workers 2 -config <cfg> <module>`. None checks for
deadlock: when no command runs and no request comes, the system rests.

| Run | Question | Bounds |
| --- | --- | --- |
| `SyncSingle` | One run at a time: is a synced directory left alone, is what is reported as synced or skipped in place, and does repeating the command repair whatever failures left? | 1 process, 2 sources, no pins, 8 states of the remote releases (as cut, replaced, half replaced, half uploaded, without manifest, draft, not ready, with and without each artifact), damaged directories, both values of `downloadArtifacts` |
| `SyncConcurrent` | Is everything visible verified and complete, and is nothing lost, when runs overlap? | 2 processes, 1 unpinned source whose tag moves |
| `SyncPinned` | Do overlapping runs of a pinned source implement the write-once store, and is a release, if calls fail but no process dies, only ever missing in the middle of a swap? | 3 processes, 1 pinned source whose tag moves; the third process because a promotion fails only when a second run has promoted after a third has moved the directory aside |
| `SyncUnpinnedTag` | *Violated:* "Once a tag has been synced, the API also refuses to replace its on-disk manifest with different content" | as `SyncConcurrent` |
| `ModelRolling` | Are releases whole and permanent, and is every answer of the pinned release, in a rolling update? | 2 importers, 2 requests of processes with different pins, 2 releases, one Redis, every failure |
| `ModelSettles` | Do imports land, and do stale and mixed answers disappear? | 1 importer alternating between 2 builds of a release, 1 request, one Redis; where Redis is off, the importer clears a memory of its own, which for the request is as if `Clear` always failed, as it may here |
| `ModelMixed` | *Violated:* "The geography importer replaces one release atomically" (for a reader) | as `ModelSettles` |
| `ServeStart` | Does a process with a lock serve what the lock vouches for, can what it serves be read, does it start whenever its releases are there, does one without a lock ever go back to an older release, and does a lock that names two releases of a dataset ever get both served, while one run at a time syncs? | 3 API processes, one at a time: one locked to a release, one without a lock, one whose lock names both; 1 request, 1 sync process, v1 and v2 of one dataset, v2 there or not initially, a half replaced tag, failures and crashes |
| `ServeRetagged` | Do answers carry what the served manifest declares while directories are exchanged, over one cache? | 1 API process that restarts, 1 request, 2 overlapping sync processes, a tag that moves |
| `ServeUpgrade` | *Violated:* "the JSON payload matches the endpoint schema" | 2 API processes of different images, 2 requests, 1 release |
| `Browse` | Does a client that follows the links see every matching record once and come to an end, do details and discovery agree with the lists, and is the order of the artifacts immaterial, while releases are deployed and imported? | 1 client, each of 15 lists with 8 queries and each filter, pages of 1 to 3 records, 6 releases (none, complete, complete with names that repeat, one artifact of each dataset damaged, one manifest of telecom published again, one of geography with another status and date), 2 deployments or imports |
| `Operate` | Do readiness, the quota, CORS and the retries keep what they promise while everything, artifacts included, fails and comes back? | A production process with its defaults and a development one without a database, over one Redis and behind one proxy; 2 clients, 6 requests (geography of the one, universities of the other, two preflights, liveness, an unknown path); limit 1; 3 attempts, statuses 200, 404 and 503; 2 sources, of one of them at a time are the artifacts damaged; 2 builds of the geography |

Why these bounds are enough to be of interest: two runs suffice for a race on a
directory (each step of a run reads or renames one directory) except where the
table says otherwise, two artifacts for a directory that is partly filled, two
sources for a run that ends early, two builds for every mixture, two tables for a
partial import. Pages of one record make every list of two records a walk, and
pages of three a last page that is full. A limit of one is reached by the second
request, the third meets a blocked bucket. In `Operate` the sync command ends
before processes start, and one process at a time starts, is probed or is sent a
request (`InOrder`); only the production process is probed. What the bounds leave
out is the business of the proofs.

Three findings came out of it; `PROJECT.json` quotes the lines.

1. The immutability of a synced tag is checked and acted on in separate steps
   (`sync:170`, `sync:312`): with an unpinned source two overlapping runs replace
   the manifest by a different one.
2. An answer of the read model can mix two builds of one release id, and the
   cache keeps it until its time to live ends.
3. An artifact payload in the cache was checked by the schema of the image that
   put it there. The key names neither the schema nor the application release, so
   a stricter image that shares the cache answers with it unchecked.

Also seen, without a run of their own, where documentation and code differ or a
promise has a premise:

* A geography that was imported from another manifest of the same version, with
  another status, is answered with that status and its date, while discovery tells
  those of the manifest that is served. Readiness notices
  (`src/api/health/health.service.ts:150`), and a process that is not ready answers
  all the same. `DiscoveryAgrees` compares the status of geography only where the two
  agree (`RowAsServed`), the version always; `DetailAgrees` compares the dates of a list
  and a detail only if the row has not changed between them.
* With `APP_API_PREFIX` other than `api` no request is counted, because the quota
  looks for `/api/` (`src/config/throttler/throttler.factory.ts:96`). `QuotaKept`
  has it as a premise (`SharedQuota`).
* With Redis required and disabled, a process starts and is never ready
  (`src/shared/redis/redis-connections.service.ts:60`). `BecomesReady` excludes it.
* `docs/read-model-architecture.md:88` has readiness fail when a pinned release
  artifact is unavailable. It looks at the manifests that were loaded at startup and
  never at an artifact (`src/api/health/health.service.ts:79`), so that a production
  process says it is ready and fails what it answers from artifacts that cannot be
  read. `ReadyAnswers` excepts exactly these requests (`OfDamaged`), and neither
  geography that the database answers nor other datasets.
* Redis enabled and not required: when it is down, counted requests fail while
  readiness says 200. `ReadyAnswers` has as a premise that a process requires what
  it uses (`RequiresWhatItUses`), as production does by default.
* Without manifests the list of datasets calls datasets `released`
  (`src/api/datasets/datasets.service.ts:31`), the endpoints `pending_release`, and
  the list of releases calls telecom `planned`. `DiscoveryAgrees` compares the
  status only where a version is named.
* The key of a cached list of releases has neither the date nor the notes of a
  manifest (`src/api/releases/releases.service.ts:141`): a manifest that is
  published again with the same digests and `generatedAt` shows the old ones until
  the entry expires. `WalkIsExact` has as a premise that manifests of one key give
  the same entries.
* Names of geography records are not a unique order: with equal names PostgreSQL
  may show a record on two pages (`query:186`). Distinct names are a premise of
  `WalkIsExact`.

What is claimed of one sync run at a time is false of overlapping ones, pinned or
not: the second renames away what the first has promoted before it promotes its
own copy, so that for a moment readers find no release. `ImplementsStore` shows
that with pins it comes back as it was, `QuietAvailable` that it always does
unless a process dies or the restoring rename fails.

### Fairness

In `ReleaseSync` and `ReadModel`, `FairSpec` and `CalmSpec` assume weak fairness
of each process's own next step and of nothing else. The event loop runs every
continuation; fetches time out and are retried a bounded number of times;
PostgreSQL ends every statement and its transactions have a timeout
(`import:154-220`); every entry has a finite time to live
(`src/config/cache/cache.factory.ts`). No fairness is assumed of `Start`, `Ask`,
the publisher or failures: `Recovers` has as hypotheses that directories were not
damaged by others, that artifacts are downloaded, that failures stop, that the
publisher leaves the releases in order and does not move a tag that is in place,
and that the command is run again and again; `Settles` that imports stop and that
requests keep coming; `ImportsLand` that imports neither fail nor overlap from
some time on.

`Browsing!FairSpec` assumes that a client that is given a link follows it, which
is what `WalkEnds` is about. `Operations!FairSpec` assumes that a request to
GitHub is answered or times out, that pauses end (`SyncStep`), that the checks of
a probe end (each has a timeout or fails with its connection) and that a
connection to a Redis that is there is made again, since ioredis' retry strategy
is never given up. Not assumed is that services come back or that anybody asks:
`BecomesReady` has as hypotheses that Redis, the database and the imported
release stay as the process requires them and that it is probed again and again.

## Proofs

Checked by `tlapm`. They hold for any number of processes, sources, directories,
manifests, artifacts, importers, requests, releases, tables and caches, and for
any contents of releases, queries and page limits.

| Theorem | States | Assumptions |
| --- | --- | --- |
| `ReleaseSyncProofs!TypeCorrect` | `Spec => []TypeOK` | those of the constants |
| `ReleaseSyncProofs!LiveIsTrusted` | `Spec => []LiveTrusted` | directories are intact before the first run |
| `ReleaseSyncProofs!LiveIsComplete` | `Spec => []LiveComplete` | the same |
| `ReleaseSyncProofs!ReleasesKept` | `Spec => NoReleaseLost` | those of the constants |
| `ReleaseSyncProofs!RefinesWriteOnceStore` | `Spec => ImplementsStore` | intact directories, every source pinned, one manifest per directory among the pins |
| `ReleaseSyncProofs!ReleasesStayAvailable` | `AliveSpec => []QuietAvailable` | those of the constants |
| `ReleaseSyncProofs!LiveDirectoriesStay` | `Spec => LiveDirectoryUntouched` | `OneRun` |
| `ReleaseSyncProofs!ReportsAreTrue` | `Spec => SuccessIsInPlace` | `OneRun` |
| `ReadModelProofs!ReadModelTypeCorrect` | `Spec => []TypeOK` | those of the constants |
| `ReadModelProofs!ReleasesAreComplete` | `Spec => []ReleasesComplete` | the same |
| `ReadModelProofs!ReleasesStay` | `Spec => ReleasesRemain` | the same |
| `ReadModelProofs!AnswersArePinned` | `Spec => []AnswersPinned` | the same |
| `ReleaseServingProofs!ServingTypeCorrect` | `ServingSpec => []ServingTypeOK` | those of the constants |
| `ReleaseServingProofs!PinsAreServed` | `ServingSpec => []PinsServed` | intact directories; no two sources have one repository and one tag |
| `ReleaseServingProofs!OneReleaseIsServed` | `ServingSpec => []OneReleaseServed` | those of the constants |
| `ReleaseServingProofs!AnswersAsDeclared` | `ServingSpec => []AnswersDeclared` | the same |
| `ReleaseStartupProofs!CallsForArtifactsSucceed` | `ServingSpec => []CallsSucceed` | intact directories, `OneRun`, artifacts are always downloaded |
| `ReleaseStartupProofs!StartsOnceInPlace` | `ServingSpec => StartsWhenInPlace` | intact directories, `OneRun`, `SourcesDistinguished`, `SourcesSingle` |
| `ReleaseStartupProofs!NeverServesOlder` | `ServingSpec => NeverOlder` | intact directories, `OneRun` |
| `FetchRetryProofs!RetriesAreCorrect` | `FetchSpec => [](RetriesAreDue /\ LastAttemptCounts)` | those of the constants |
| `OperationsProofs!DeploymentRetries` | the same of `Operations!Spec` | the same |
| `OperationsProofs!OperationsTypeCorrect` | `Spec => []OperationsTypeOK` | the same |
| `OperationsProofs!ReadyProcessesAnswer` | `Spec => ReadyAnswers` | the same |
| `OperationsProofs!ReadyProcessesUseTheDatabase` | `Spec => ReadyFromDatabase` | the same |
| `OperationsProofs!QuotaIsKept` | `Spec => QuotaKept` | the same |
| `OperationsProofs!QuotaIsTheirOwn` | `Spec => OnlyOwnQuota` | no two clients share a tracker |
| `OperationsProofs!CorsIsAsConfigured` | `Spec => []CorsAsConfigured` | those of the constants |
| `BrowsingProofs!BrowsingIsInvariant` | `Spec => []BrowsingInv` | the same |
| `BrowsingProofs!WalksAreTyped` | `Spec => []BrowsingTypeOK` | the same |
| `BrowsingProofs!AnswersReadAll` | `Spec => []AllOrNothing` | the same |
| `BrowsingProofs!LinksLeadOn` | `Spec => []LinksLead` | the same |
| `BrowsingProofs!WalksAreExact` | `Spec => []WalkIsExact` | `IdentifiersDistinct` |
| `BrowsingProofs!DetailsAgree` | `Spec => []DetailAgrees` | `IdentifiersDistinct`, `UnknownIsUnknown` |
| `BrowsingProofs!DiscoveryTells` | `Spec => []DiscoveryAgrees` | those of the constants |
| `BrowsingProofs!OrderIsImmaterial` | `Spec => []OrderImmaterial` | `MarksApart`, `JoinsApart` |

The hypotheses: directories are *intact* (`InitiallyGood`) if before the first run
each holds what some source vouches for, whole if artifacts are always downloaded;
the production scripts start from an empty directory. `OneRun` says that there is
one process of the sync command, which runs any number of times: a deployment has
one, and with two overlapping runs the theorems that need it do not hold.
`SourcesDistinguished` says that no two sources have one repository and one tag,
`SourcesSingle` that all a source may name is of one release directory: a
repository publishes one dataset, and a pin its version. `IdentifiersDistinct` says
that no two records of an artifact have one identifier, as the keys of the tables
demand (`@@id` of release and identifier in `prisma/schema.prisma`) and the
artifacts' generators see to; `UnknownIsUnknown` says what the constant
`UnknownId` is for. `JoinsApart` says that no two logos of a university have one
identifier and no two of its rankings one year, scope, rank and system: among such
`buildLogoMap` and `compareRankings` leave the order of the artifact, and the answer
would show it. The instance of `Browse` has all three. `MarksApart` says that the
constants that stand for an absent value and for a damaged artifact are no
functions, so that no list or record is taken for one; it is about how the model
writes such values, and holds of TLC's model values.

Constants of `Browsing` have assumptions of their own, which TLC evaluates: each
release has its schemas' types (`World`: the artifact reader parses nothing else),
has a manifest with all the artifacts of its dataset or nothing of it
(`Complete`), and the records of a version have one build (`OneBuild`; `ReadModel` is
about those that have several), whatever its manifests say.

*ReleaseSync.* Types need `Locals`, which says what a run's locals are at each
step: from `readManifest` on it holds an eligible manifest, while it downloads it
has a staging directory, and so on. `LiveTrusted` is not inductive: what is
promoted is a staging directory and what is restored is a backup. `SInv` says
that staging directories are trusted and hold every artifact that is no longer in
`todo`, that a directory about to be promoted is complete, and that backups and
orphans are as good as live ones. For `NoReleaseLost` and the refinement,
`CopiesChange` lists how an action can change the copies of a release (a swap
moves one, a promotion adds one, the removal of a backup follows a promotion of
the same directory); with pins, `OneAllowed` says that all of them carry one
manifest, so every step publishes or stutters.

*ReadModel.* `RInv` has four parts. `ImportGood`: an importer fills and commits
exactly while it has written a row, which is of its own build, whose tables are
not all filled before it commits and are all filled then. `RowsGood`: committed rows are full,
which a commit preserves because it comes after the last table. `CacheGood`: an
entry is of the release its key names. `RequestGood`: what a request has gathered
is of its pinned release, because the row it found can be exchanged but never
taken away (`ReleasesRemain`).

*ReleaseServing.* Every step of it is a step of `ReleaseSync` or leaves its
variables alone, so the theorems about the directories hold of it too.
`PinsServed` needs `LoadedVouched`: what a process has loaded was live at that
moment, and so some source vouches for it (`LiveIsTrusted`); the repository and
the tag, all that the registry compares, then tell which. Without the assumption
that they do, the registry could take the release of one owner for that of
another. `AnswersDeclared` needs that every entry of the cache has the contents
its key names (`PayloadsDeclared`) and that a request that is about to fill one
has read such contents (`PutDeclared`).

*One sync run at a time.* `OwnInv` says that a run has the directory it works on to
itself: it stages only where nothing is live, what it validates stays as it was
read, and so it never has a backup. `QuietAvailable` needs no such assumption:
`Covered` says of every directory with a backup that no run knows of any more that it
is live or that a run is between its two renames of it. `RegistrationsStand`
says that every directory a process has loaded is still there with the manifest
that was loaded, since live directories stay; so calls succeed. `Startable` says
that each source of the lock has a directory that the starting process has found or
is still to reach in the recursion of `findManifestFiles` (`Kept`, `Reaches`). `NeverOlder`
compares a start with the one before it (`Outlives`): what was served before is
still in place, so the newest of what is there is no older; that there is a newest
one is the well-foundedness of the numbers of versions.

*Browsing.* `BrowsingInv` is inductive: each page of a walk is an answer
(`IsAnswer`) to the client's query, from a release that was served then and with a row
of its version or none. What the answers are is the work of lemmas. `ListQueriesProofs`
has those of lists: a comparison that is a strict order puts each chosen record in
one place (`IsOrdering`: what comes before a record is counted, and the count is
its place, which makes stable sorting definable without recursion and so within
reach of the prover), a page holds the records of its places (`PageHolds`),
consecutive pages share none and leave none out, and the links of
`BuildOffsetPagination` stay inside the range. `RecordLists` says that all thirteen
lists of records, over artifacts or tables, are a page of such an ordering of the
records that match (`RecordAnswer`), and `DiscoveryAnswer` says it of the other
two. For geography this is where the two implementations meet: `SearchedAlike`
shows that an artifact and its table find the same records where the query's text
occurs in a documented field, and `RowsAsSorted` that the table's order is that of
the artifact if names are distinct (the premises of `OneList`). A walk then shows the matching records of one
release page by page (`WholeWalk`, `PagesShowAll`), a detail is the record with the
identifier, of which there is one (`DetailOfRecords`), and a page of discovery,
from whichever manifests with the same key it was cached, tells the versions and
statuses that the contexts of the endpoints tell (`OneKeyTells`), those of a row's
manifest included, as far as it was found by the version and has the same status.

`OrderImmaterial` compares an answer with those of the release whose artifacts list
their records backwards (`Mirrored`). A comparison that tells all chosen items apart
sorts a list and its reverse into one (`ArrangedBackwards`): the places of the one
are those of the other counted from the end, and there is one way to sort
(`SortedOneWay`). The lemma is used three times: for the lists themselves, whose keys
are distinct by the premise of the property; for the rankings of a university; and
for its logo, which is the first of its logos sorted by identifier (`LogoIsFirst`),
so that `LogoOf` needs no argument of its own. With them the endpoints' records of
the mirrored release are the records backwards (`MirroredRecords`), each joined to
the same images and rankings (`UniversitiesBackwards`). Tables need no distinct
names: an order that the database may give is one that it may give of the rows
written in the opposite order (`TableBackwards`).

*FetchRetry and Operations.* `FetchInv` relates the attempt to the outcomes so far:
while a request is on its way there is one outcome less than attempts, and all of
them were transient. `ReadyAnswers` and `ReadyFromDatabase` need `VouchInv`: a
process that has once been ready had the pinned rows when it said so, and no
import takes a row away; while nothing has changed since, the services that it
requires are up. What is left that can fail an answer is then the reading of artifacts, of a
source that is damaged (`OfDamaged`). `PlaceInv` carries this to requests, which remember what was
vouched for when they came. `QuotaInv` has both directions of counting: no bucket
of a client has counted more than the client was charged (where trackers are
apart), and with one storage and one tracker for a client (`SharedQuota`) the
client was charged no more than its bucket has counted, unless that is blocked.
Charges of a lost reply and processes that end with their memory are among the
steps.

Every invariant and every action property of the passing runs has a theorem. Only
model-checked is what is temporal beyond safety (`Recovers`, `Settles`,
`ImportsLand`, `FetchEnds`, `BecomesReady`, `WalkEnds`): the prover does not reason
about fairness. The properties of the runs that expect a violation are false.

## Plan

Done, in this order: `ReleaseSync` with `WriteOnceStore`, since everything the API
serves enters there; `ReadModel`, the other place where processes meet;
`ReleaseServing`; the endpoints and `Browsing`; `FetchRetry`, `Configuration`,
`Gateway`, `Readiness` and `Operations`. Left:

1. A bound on what a client can get through where every process counts in its own
   memory: the limit times the processes.
2. The exposure of discovery to a rolling update, with pages that overlap in time.

## Not modelled

OpenAPI documents, translations and exception filters are declarations without
state. `scripts/` and the smoke CLIs are sequential programs that read and report.
Migrations are run by Prisma. Of the bootstrap only the hooks that change what a
request meets are modelled: helmet, static files, redirects and the pages of the
documentation are not. Of the records only the fields that filters, searches,
orders and joins look at are kept. GitHub, PostgreSQL, Redis with ioredis, the
storages of @nestjs/throttler and the file system are external, modelled by what
the code relies on; the `Retry-After` of a refusal is the library's. PostgreSQL's
collation is taken to order names as `localeCompare` does.
