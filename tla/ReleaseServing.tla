--------------------------- MODULE ReleaseServing ---------------------------
(***************************************************************************)
(* API processes over the releases directory that the runs of ReleaseSync  *)
(* change: how they find manifests at startup (LocalDatasetManifestLoader),*)
(* select those to serve (DatasetReleaseRegistryService), and answer from  *)
(* artifacts through a cache they share (LocalDatasetArtifactReader-       *)
(* Service).  A process reads manifests once, when it starts, and artifacts *)
(* when they are asked for; nothing keeps the directory still meanwhile.   *)
(***************************************************************************)
EXTENDS ReleaseSync

CONSTANTS
  Api,        \* API processes
  Lock,       \* the release sources each is configured with
  Required,   \* those with DATASETS_REQUIRE_RELEASES
  Accepts,    \* the artifact contents that each one's schemas accept
  Call,       \* requests in flight
  ApiOf,      \* the process each of them goes to
  Dataset,    \* ids of datasets
  Version,    \* tags of releases
  DatasetOf,  \* the dataset of each manifest
  RankOf,     \* its version without the pre-release part, as a number
  TimeOf,     \* its publishedAt, or generatedAt
  Slug,       \* directories of the datasets in the releases directory
  SlugOf      \* the one each release directory is in

Registration == [manifest : Manifest, directory : Directory]

ASSUME ServingAssumption ==
  /\ Lock \in [Api -> SUBSET Source]
  /\ Required \in SUBSET Api
  /\ Accepts \in [Api -> SUBSET Bytes]
  /\ ApiOf \in [Call -> Api]
  /\ DatasetOf \in [Manifest -> Dataset]
  /\ RankOf \in [Manifest -> Nat] /\ TimeOf \in [Manifest -> Nat]
  /\ SlugOf \in [Directory -> Slug]
  /\ \A m \in Manifest : ManifestData[m].version \in Version
  /\ None \notin Registration

VARIABLES
  boot,      \* what each process is doing about its registry
  agenda,    \* the datasets whose directory it still has to list
  listed,    \* release directories it has listed and not read
  found,     \* those in which it has found a manifest, not yet loaded
  loaded,    \* the registrations it has loaded
  registry,  \* those it has selected to serve
  step,      \* the awaited call each request is about to make
  reading,   \* the registration it answers from
  wanted,    \* the artifact it asks for
  outcome,   \* how it ended
  payload,   \* the contents it has read, or answers with
  payloads   \* artifact payloads in the shared cache

starting == << boot, agenda, listed, found, loaded, registry >>
calls == << step, reading, wanted, outcome, payload >>
serving == << starting, calls, payloads >>

Boots == { "down", "starting", "up", "refused" }

CallSteps == { "lookup", "read", "put", "done" }

Outcomes == { "pending", "found", "empty", "failed" }

PayloadKey ==
  [dataset : Dataset, version : Version, artifact : Artifact, digest : Bytes]

ServingTypeOK ==
  /\ boot \in [Api -> Boots]
  /\ agenda \in [Api -> SUBSET Slug]
  /\ listed \in [Api -> SUBSET Directory]
  /\ found \in [Api -> SUBSET Directory]
  /\ loaded \in [Api -> SUBSET Registration]
  /\ registry \in [Api -> SUBSET Registration]
  /\ step \in [Call -> CallSteps]
  /\ reading \in [Call -> Registration \cup {None}]
  /\ wanted \in [Call -> Artifact]
  /\ outcome \in [Call -> Outcomes]
  /\ payload \in [Call -> Bytes \cup {None}]
  /\ payloads \in [PayloadKey -> Bytes \cup {None}]


-----------------------------------------------------------------------------
ServingInit ==
  /\ Init
  /\ boot = [a \in Api |-> "down"]
  /\ agenda = [a \in Api |-> {}]
  /\ listed = [a \in Api |-> {}]
  /\ found = [a \in Api |-> {}]
  /\ loaded = [a \in Api |-> {}]
  /\ registry = [a \in Api |-> {}]
  /\ step = [c \in Call |-> "done"]
  /\ reading = [c \in Call |-> None]
  /\ wanted \in [Call -> Artifact]
  /\ outcome = [c \in Call |-> "empty"]
  /\ payload = [c \in Call |-> None]
  /\ payloads = [k \in PayloadKey |-> None]

Up(a) == boot[a] = "up"

Advance(a, next) == boot' = [boot EXCEPT ![a] = next]

-----------------------------------------------------------------------------
(* Startup: findManifestFiles walks the directory, listManifests reads     *)
(* what it has found, onModuleInit selects.                                *)

\* readdir of the releases directory.  The directory of a dataset exists from
\* its first release on, and while that is being staged.
Boot(a) ==
  /\ boot[a] = "down"
  /\ Advance(a, "starting")
  /\ \E slugs \in SUBSET Slug :
       /\ { SlugOf[d] : d \in { e \in Directory : live[e] # None } } \subseteq slugs
       /\ agenda' = [agenda EXCEPT ![a] = slugs]
  /\ UNCHANGED << listed, found, loaded, registry, calls, payloads >>

\* readdir of the directory of a dataset, when the last one has been walked:
\* dot directories are passed over.
ListDataset(a) ==
  /\ boot[a] = "starting" /\ listed[a] = {}
  /\ \E g \in agenda[a] :
       /\ agenda' = [agenda EXCEPT ![a] = @ \ {g}]
       /\ listed' = [listed EXCEPT ![a] =
                       { d \in Directory : SlugOf[d] = g /\ live[d] # None }]
  /\ UNCHANGED << boot, found, loaded, registry, calls, payloads >>

\* readdir of a release directory: one that has gone is empty.
ListRelease(a) ==
  /\ boot[a] = "starting"
  /\ \E d \in listed[a] :
       /\ listed' = [listed EXCEPT ![a] = @ \ {d}]
       /\ found' = IF live[d] # None /\ live[d].manifest # None
                     THEN [found EXCEPT ![a] = @ \cup {d}]
                     ELSE found
  /\ UNCHANGED << boot, agenda, loaded, registry, calls, payloads >>

Walked(a) == boot[a] = "starting" /\ agenda[a] = {} /\ listed[a] = {}

\* readFile of a manifest that was found, and its schema; a file that has gone
\* or does not parse ends the startup.
LoadManifest(a) ==
  /\ Walked(a)
  /\ \E d \in found[a] :
       LET m == IF live[d] = None THEN None ELSE live[d].manifest
       IN  \/ /\ m # None /\ ManifestData[m].parses
              /\ loaded' = [loaded EXCEPT ![a] =
                              @ \cup {[manifest |-> m, directory |-> d]}]
              /\ found' = [found EXCEPT ![a] = @ \ {d}]
              /\ UNCHANGED boot
           \/ /\ m # None => ~ ManifestData[m].parses
              /\ Advance(a, "refused")
              /\ UNCHANGED << loaded, found >>
  /\ UNCHANGED << agenda, listed, registry, calls, payloads >>

Loaded(a) == Walked(a) /\ found[a] = {}

-----------------------------------------------------------------------------
(* selectPinnedManifestRegistrations, selectLatestManifestRegistrations.   *)

\* Mutation: the tag is not compared.
MatchesRepository(s, m) ==
  ManifestData[m].repository = SourceConfig[s].repository

Matches(s, m) ==
  /\ ManifestData[m].repository = SourceConfig[s].repository
  /\ ManifestData[m].version = SourceConfig[s].tag

MatchesOf(a, s) == { r \in loaded[a] : Matches(s, r.manifest) }

\* Mutation: two sources may resolve to one dataset.
UnambiguousSources(a) ==
  \A s \in Lock[a] : \A q, r \in MatchesOf(a, s) : q = r

\* At most one local manifest for a source, at most one source for a dataset.
Unambiguous(a) ==
  /\ \A s \in Lock[a] : \A q, r \in MatchesOf(a, s) : q = r
  /\ \A s, t \in Lock[a] : \A q \in MatchesOf(a, s), r \in MatchesOf(a, t) :
       DatasetOf[q.manifest] = DatasetOf[r.manifest] => s = t

Missing(a) == { s \in Lock[a] : MatchesOf(a, s) = {} }

\* compareManifests: versions first, timestamps among equal ones.
Newer(m, n) ==
  \/ RankOf[m] > RankOf[n]
  \/ RankOf[m] = RankOf[n] /\ TimeOf[m] > TimeOf[n]

\* Mutation: the oldest release of every dataset.
OldestOf(a) ==
  { r \in loaded[a] :
      \A q \in loaded[a] :
         DatasetOf[q.manifest] = DatasetOf[r.manifest] => ~ Newer(r.manifest, q.manifest) }

\* The newest releases of every dataset.  Of several the first that readdir
\* has returned is served.
NewestOf(a) ==
  { r \in loaded[a] :
      \A q \in loaded[a] :
         DatasetOf[q.manifest] = DatasetOf[r.manifest] => ~ Newer(q.manifest, r.manifest) }

OnePerDataset(rs, all) ==
  /\ rs \subseteq all
  /\ \A r \in all : \E q \in rs : DatasetOf[q.manifest] = DatasetOf[r.manifest]
  /\ \A q, r \in rs : DatasetOf[q.manifest] = DatasetOf[r.manifest] => q = r

SelectPinned(a) ==
  /\ Loaded(a) /\ Lock[a] # {}
  /\ Unambiguous(a)
  /\ a \in Required => Missing(a) = {}
  /\ registry' = [registry EXCEPT ![a] = UNION { MatchesOf(a, s) : s \in Lock[a] }]
  /\ Advance(a, "up")
  /\ UNCHANGED << agenda, listed, found, loaded, calls, payloads >>

SelectLatest(a) ==
  /\ Loaded(a) /\ Lock[a] = {}
  /\ a \in Required => loaded[a] # {}
  /\ \E rs \in SUBSET loaded[a] :
       /\ OnePerDataset(rs, NewestOf(a))
       /\ registry' = [registry EXCEPT ![a] = rs]
  /\ Advance(a, "up")
  /\ UNCHANGED << agenda, listed, found, loaded, calls, payloads >>

\* onModuleInit throws.
Refuse(a) ==
  /\ Loaded(a)
  /\ \/ Lock[a] # {} /\ ~ Unambiguous(a)
     \/ Lock[a] # {} /\ a \in Required /\ Missing(a) # {}
     \/ Lock[a] = {} /\ a \in Required /\ loaded[a] = {}
  /\ Advance(a, "refused")
  /\ UNCHANGED << agenda, listed, found, loaded, registry, calls, payloads >>

BootStep(a) ==
  \/ Boot(a) \/ ListDataset(a) \/ ListRelease(a) \/ LoadManifest(a)
  \/ SelectPinned(a) \/ SelectLatest(a) \/ Refuse(a)

\* The process ends, by a signal, an error or a refusal to start, and with it
\* the requests it was working on.  The cache it shares stays.
Stop(a) ==
  /\ boot[a] # "down"
  /\ Advance(a, "down")
  /\ agenda' = [agenda EXCEPT ![a] = {}]
  /\ listed' = [listed EXCEPT ![a] = {}]
  /\ found' = [found EXCEPT ![a] = {}]
  /\ loaded' = [loaded EXCEPT ![a] = {}]
  /\ registry' = [registry EXCEPT ![a] = {}]
  /\ step' = [c \in Call |-> IF ApiOf[c] = a THEN "done" ELSE step[c]]
  /\ reading' = [c \in Call |-> IF ApiOf[c] = a THEN None ELSE reading[c]]
  /\ outcome' = [c \in Call |-> IF ApiOf[c] = a THEN "empty" ELSE outcome[c]]
  /\ payload' = [c \in Call |-> IF ApiOf[c] = a THEN None ELSE payload[c]]
  /\ UNCHANGED << wanted, payloads >>

-----------------------------------------------------------------------------
(* A request that reads an artifact: readJsonArtifact.                     *)

Proceed(c, next) == step' = [step EXCEPT ![c] = next]

\* What the loaded manifest declares of the artifact that is asked for.
Declared(c) == Digest(reading[c].manifest)[wanted[c]]

\* Mutation: the digest is not in the key.
KeyWithoutDigest(m, x) ==
  [dataset |-> DatasetOf[m], version |-> ManifestData[m].version,
   artifact |-> x, digest |-> CHOOSE b \in Bytes : TRUE]

\* buildArtifactCacheKey.
KeyOf(m, x) ==
  [dataset |-> DatasetOf[m], version |-> ManifestData[m].version,
   artifact |-> x, digest |-> Digest(m)[x]]

Cached(c) == payloads[KeyOf(reading[c].manifest, wanted[c])]

Answer(c, o, b) ==
  /\ outcome' = [outcome EXCEPT ![c] = o]
  /\ payload' = [payload EXCEPT ![c] = b]
  /\ Proceed(c, "done")

\* A dataset without a registration answers with nothing, and an artifact the
\* manifest does not list is an error.
AskArtifact(c) ==
  /\ step[c] = "done" /\ Up(ApiOf[c])
  /\ \E x \in Artifact :
       /\ wanted' = [wanted EXCEPT ![c] = x]
       /\ \/ \E r \in registry[ApiOf[c]] :
               /\ reading' = [reading EXCEPT ![c] = r]
               /\ \/ /\ Digest(r.manifest)[x] # None
                     /\ outcome' = [outcome EXCEPT ![c] = "pending"]
                     /\ payload' = [payload EXCEPT ![c] = None]
                     /\ Proceed(c, "lookup")
                  \/ /\ Digest(r.manifest)[x] = None
                     /\ Answer(c, "failed", None)
          \/ /\ { DatasetOf[r.manifest] : r \in registry[ApiOf[c]] } # Dataset
             /\ reading' = [reading EXCEPT ![c] = None]
             /\ Answer(c, "empty", None)
  /\ UNCHANGED << starting, payloads >>

\* The cache answers, or the entry is absent, expired or out of reach.
LookUpPayload(c) ==
  /\ step[c] = "lookup"
  /\ \/ Cached(c) # None /\ Answer(c, "found", Cached(c))
     \/ Proceed(c, "read") /\ UNCHANGED << outcome, payload >>
  /\ UNCHANGED << starting, reading, wanted, payloads >>

\* readFile of the artifact, checked by digest and size, then by the schema.
ReadFile(c) ==
  /\ step[c] = "read"
  /\ LET d == reading[c].directory
         b == IF live[d] = None THEN None ELSE live[d].files[wanted[c]]
     IN  \/ /\ b = Declared(c) /\ b \in Accepts[ApiOf[c]]
            /\ payload' = [payload EXCEPT ![c] = b]
            /\ Proceed(c, "put")
            /\ UNCHANGED outcome
         \/ /\ b # Declared(c) \/ b \notin Accepts[ApiOf[c]]
            /\ Answer(c, "failed", None)
  /\ UNCHANGED << starting, reading, wanted, payloads >>

\* Mutation: the cache receives the registration and not the data.
PutRegistration(c) ==
  /\ step[c] = "put"
  /\ payloads' = [payloads EXCEPT ![KeyOf(reading[c].manifest, wanted[c])] = reading[c]]
  /\ Answer(c, "found", payload[c])
  /\ UNCHANGED << starting, reading, wanted >>

PutPayload(c) ==
  /\ step[c] = "put"
  /\ payloads' = [payloads EXCEPT ![KeyOf(reading[c].manifest, wanted[c])] = payload[c]]
  /\ Answer(c, "found", payload[c])
  /\ UNCHANGED << starting, reading, wanted >>

CallStep(c) == LookUpPayload(c) \/ ReadFile(c) \/ PutPayload(c)

-----------------------------------------------------------------------------
ServingStep ==
  \/ \E a \in Api : BootStep(a) \/ Stop(a)
  \/ \E c \in Call : AskArtifact(c) \/ CallStep(c)

ServingNext ==
  \/ Next /\ UNCHANGED serving
  \/ ServingStep /\ UNCHANGED vars

ServingSpec == ServingInit /\ [][ServingNext]_<< vars, serving >>

\* The same without failures of the runs of the sync command.
UnfailingNext ==
  \/ CalmNext /\ UNCHANGED serving
  \/ (\E s \in Source : Republish(s)) /\ UNCHANGED serving
  \/ ServingStep /\ UNCHANGED vars

UnfailingSpec == ServingInit /\ [][UnfailingNext]_<< vars, serving >>

-----------------------------------------------------------------------------
(* Correctness.                                                            *)

Serves(a, m) == Up(a) /\ \E r \in registry[a] : r.manifest = m

\* "It verifies release manifests ... before serving records"
\* (docs/deployment.md:13-14): a process with a lock serves nothing its lock
\* does not vouch for, digest, status and readiness included, though the
\* registry compares no more than the repository and the tag
\* (selectPinnedManifestRegistrations:87-91), and nothing is missing where
\* releases are required.
PinsServed ==
  \A a \in Api :
     Up(a) /\ Lock[a] # {} =>
        /\ \A r \in registry[a] : \E s \in Lock[a] : Eligible(s, r.manifest)
        /\ a \in Required =>
             \A s \in Lock[a] : \E r \in registry[a] : Eligible(s, r.manifest)

\* A process never serves two releases of one dataset, so that what it answers
\* does not depend on the order of its lock or of readdir, whichever releases
\* were in place when it started (selectPinnedManifestRegistrations:99-111,
\* selectLatestManifestRegistrations:63-76).
OneReleaseServed ==
  \A a \in Api :
     Up(a) => \A q, r \in registry[a] :
                DatasetOf[q.manifest] = DatasetOf[r.manifest] => q = r

\* No answer carries contents that differ from what the manifest its process
\* serves declares, whatever the cache holds from processes that have read
\* another manifest of the same version (readJsonArtifact:66-96).
AnswersDeclared ==
  \A c \in Call : outcome[c] = "found" => payload[c] = Declared(c)

\* "the JSON payload matches the endpoint schema"
\* (docs/dataset-loading.md:92), that of the process that answers.
AnswersAccepted ==
  \A c \in Call : outcome[c] = "found" => payload[c] \in Accepts[ApiOf[c]]

\* While no two runs of the sync command overlap, an artifact that the schemas
\* accept can be read as long as the process lives: no sync pulls a release
\* away from under it (readJsonArtifact:77-83, validateExistingRelease:366).
CallsSucceed ==
  \A c \in Call : outcome[c] = "failed" => Declared(c) \notin Accepts[ApiOf[c]]

LockInPlace(a) ==
  \A s \in Lock[a] :
     \E d \in Directory : live[d] # None /\ Eligible(s, live[d].manifest)

\* No two sources of a lock name releases of one dataset.
LockIsSound(a) ==
  \A s, t \in Lock[a], m, n \in Manifest :
     Eligible(s, m) /\ Eligible(t, n) /\ DatasetOf[m] = DatasetOf[n] => s = t

\* Once every release of its lock is in place, and the lock names one for each
\* dataset, a process is never refused again, whatever a run of the sync command
\* is staging, has left behind or is adding next to them
\* (findManifestFiles:42-57, onModuleInit:134-164).
StartsWhenInPlace ==
  \A a \in { b \in Api : Lock[b] # {} /\ LockIsSound(b) } :
     [](LockInPlace(a) /\ boot[a] = "down" => [](boot[a] # "refused"))

\* A process without a lock serves the newest releases, and after a restart
\* never an older one than before (selectLatestManifestRegistrations:63-76).
NeverOlder ==
  \A a \in { b \in Api : Lock[b] = {} }, m \in Manifest :
     [](Serves(a, m) =>
          [](Up(a) => \E n \in Manifest :
                         /\ Serves(a, n)
                         /\ DatasetOf[n] = DatasetOf[m]
                         /\ ~ Newer(m, n)))

=============================================================================
