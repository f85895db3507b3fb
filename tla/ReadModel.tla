----------------------------- MODULE ReadModel -----------------------------
(***************************************************************************)
(* The geography read model: importers (src/cli/import-geography-read-     *)
(* model.ts), each a process that replaces one release in PostgreSQL in a  *)
(* transaction, and requests to API processes, which answer from the       *)
(* database through a cache, or from local artifacts when the database     *)
(* does not have their release.                                            *)
(*                                                                         *)
(* A release is named by <dataset id>:<version>; a build is what was       *)
(* published under that name, so a release that was rebuilt has several.   *)
(* PostgreSQL runs every statement on a snapshot of its own (read          *)
(* committed, which nothing in src/ changes).                              *)
(***************************************************************************)
EXTENDS Naturals, Sequences

CONSTANTS
  Importer,      \* import processes
  Request,       \* requests in flight to the API processes
  Release,       \* ids of dataset releases
  Build,         \* contents published under those ids
  ReleaseOf,     \* the id of each build
  StampOf,       \* its status, generatedAt and publishedAt
  Stamp,         \* the values these can have
  Tables,        \* the tables of a release, in the order they are filled
  Query,         \* endpoints with their normalized parameters
  TableOf,       \* the table each of them reads, as an index of Tables
  ListQuery,     \* those that return a page and a total
  Local,         \* the build in the releases directory each request's process
                 \* loaded at startup, None without one
  Database,      \* the requests whose process has the database enabled
  Store,         \* caches: one Redis, or the memory of each process
  StoreOf,       \* the cache each process uses
  None           \* no row, no entry, no build

TableIndex == 1 .. Len(Tables)

\* A release in the database: its build, and how many of its tables are filled.
Row == [build : Build, filled : 0 .. Len(Tables)]

\* What a request returns: where it comes from, the build whose manifest it
\* carries, the builds whose records were counted and returned.
Origin == { "database", "artifacts", "failure" }

Answer == [origin : Origin, manifest : Build \cup {None},
           total : Build \cup {None}, items : Build \cup {None}]

Failure == [origin |-> "failure", manifest |-> None, total |-> None, items |-> None]

Key == [query : Query, release : Release, stamp : Stamp]

ASSUME ReadModelAssumption ==
  /\ ReleaseOf \in [Build -> Release]
  /\ StampOf \in [Build -> Stamp]
  /\ Tables \in Seq(STRING) /\ Tables # << >>
  /\ TableOf \in [Query -> TableIndex]
  /\ ListQuery \in SUBSET Query
  /\ Local \in [Request -> Build \cup {None}]
  /\ Database \in SUBSET Request
  /\ StoreOf \in [Request \cup Importer -> Store]
  /\ None \notin Build \cup Row \cup Answer \cup Importer

VARIABLES
  db,        \* the committed row of each release
  lock,      \* the importer that has deleted or inserted it and not committed
  stage,     \* the statement each importer is about to run
  importing, \* the build it read from the releases directory
  replacing, \* whether its transaction deleted the committed row
  written,   \* the row its transaction has written
  cache,     \* the entries of each cache
  pc,        \* the awaited call each request is about to make
  query,     \* what was asked
  answer     \* what it has gathered, or returned

import == << stage, importing, replacing, written >>
request == << pc, query, answer >>
vars == << db, lock, import, cache, request >>

Stages == { "idle", "delete", "wait", "insert", "fill", "commit", "clear" }

Steps == { "context", "artifacts", "lookup", "count", "find", "put", "done" }

TypeOK ==
  /\ db \in [Release -> Row \cup {None}]
  /\ lock \in [Release -> Importer \cup {None}]
  /\ stage \in [Importer -> Stages]
  /\ importing \in [Importer -> Build]
  /\ replacing \in [Importer -> BOOLEAN]
  /\ written \in [Importer -> Row \cup {None}]
  /\ cache \in [Store -> [Key -> Answer \cup {None}]]
  /\ pc \in [Request -> Steps]
  /\ query \in [Request -> Query]
  /\ answer \in [Request -> Answer]

-----------------------------------------------------------------------------
Target(i) == ReleaseOf[importing[i]]

Pin(p) == ReleaseOf[Local[p]]

Complete(row) == row.filled = Len(Tables)

\* The records a statement on table t of release r finds, by build.
Seen(r, t) == IF db[r] # None /\ t <= db[r].filled THEN db[r].build ELSE None

\* Mutation: the id and version of the release are not in the key.
KeyWithoutRelease(q, b) ==
  [query |-> q, release |-> CHOOSE r \in Release : TRUE, stamp |-> StampOf[b]]

\* buildCachePayload: the query with the identity of the release row.
KeyOf(q, b) == [query |-> q, release |-> ReleaseOf[b], stamp |-> StampOf[b]]

Entry(p) == KeyOf(query[p], answer[p].manifest)

Init ==
  /\ db = [r \in Release |-> None]
  /\ lock = [r \in Release |-> None]
  /\ stage = [i \in Importer |-> "idle"]
  /\ importing \in [Importer -> Build]
  /\ replacing = [i \in Importer |-> FALSE]
  /\ written = [i \in Importer |-> None]
  /\ cache = [s \in Store |-> [k \in Key |-> None]]
  /\ pc = [p \in Request |-> "done"]
  /\ query \in [Request -> Query]
  /\ answer = [p \in Request |-> Failure]

To(i, next) == stage' = [stage EXCEPT ![i] = next]

Goto(p, step) == pc' = [pc EXCEPT ![p] = step]

-----------------------------------------------------------------------------
(* importLatestRelease.                                                    *)

\* The four artifacts are read under one manifest and verified against it.
Start(i) ==
  /\ stage[i] = "idle"
  /\ \E b \in Build : importing' = [importing EXCEPT ![i] = b]
  /\ To(i, "delete")
  /\ UNCHANGED << db, lock, replacing, written, cache, request >>

\* Mutation: the release is not deleted first.
DeleteOmitted(i) ==
  /\ stage[i] = "delete"
  /\ To(i, "insert")
  /\ UNCHANGED << db, lock, importing, replacing, written, cache, request >>

\* Mutation: the deletion is committed at once.
DeleteOutside(i) ==
  /\ stage[i] = "delete"
  /\ lock[Target(i)] = None
  /\ db' = [db EXCEPT ![Target(i)] = None]
  /\ To(i, "insert")
  /\ UNCHANGED << lock, importing, replacing, written, cache, request >>

\* deleteMany takes the lock of the committed row, or waits for it; it finds
\* no row that another transaction has only inserted.
Delete(i) ==
  /\ stage[i] = "delete"
  /\ LET r == Target(i)
     IN  \/ /\ db[r] = None
            /\ To(i, "insert")
            /\ UNCHANGED << lock, replacing >>
         \/ /\ db[r] # None /\ lock[r] = None
            /\ lock' = [lock EXCEPT ![r] = i]
            /\ replacing' = [replacing EXCEPT ![i] = TRUE]
            /\ To(i, "insert")
         \/ /\ db[r] # None /\ lock[r] # None
            /\ To(i, "wait")
            /\ UNCHANGED << lock, replacing >>
  /\ UNCHANGED << db, importing, written, cache, request >>

\* The transaction ends and releases its lock.  The deletions that wait for
\* it find their row unchanged if it rolls back, and gone if it commits.
EndTransaction(i, next, others) ==
  /\ lock' = [lock EXCEPT ![Target(i)] = IF @ = i THEN None ELSE @]
  /\ replacing' = [replacing EXCEPT ![i] = FALSE]
  /\ written' = [written EXCEPT ![i] = None]
  /\ stage' = [j \in Importer |->
                 IF j = i THEN next
                 ELSE IF /\ stage[j] = "wait"
                         /\ Target(j) = Target(i)
                         /\ lock[Target(i)] = i
                        THEN others
                        ELSE stage[j]]

Rollback(i) ==
  /\ EndTransaction(i, "idle", "delete")
  /\ UNCHANGED << db, importing, cache, request >>

\* create waits for an insertion of the same id that is not committed, and
\* violates the primary key if there is a committed row it has not deleted.
Insert(i) ==
  /\ stage[i] = "insert"
  /\ lock[Target(i)] \in {None, i}
  /\ LET r == Target(i)
     IN  \/ /\ db[r] = None \/ replacing[i]
            /\ lock' = [lock EXCEPT ![r] = i]
            /\ written' = [written EXCEPT ![i] = [build |-> importing[i], filled |-> 0]]
            /\ To(i, "fill")
            /\ UNCHANGED << db, importing, replacing, cache, request >>
         \/ /\ db[r] # None /\ ~ replacing[i]
            /\ Rollback(i)

\* Mutation: the records are written outside the transaction.
FillOutside(i) ==
  /\ stage[i] = "fill"
  /\ written' = [written EXCEPT ![i].filled = @ + 1]
  /\ db' = [db EXCEPT ![Target(i)] = written[i]]
  /\ To(i, IF written[i].filled + 1 = Len(Tables) THEN "commit" ELSE "fill")
  /\ UNCHANGED << lock, importing, replacing, cache, request >>

\* Mutation: one batch too many.
FillPastEnd(i) ==
  /\ stage[i] = "fill"
  /\ written' = [written EXCEPT ![i].filled = @ + 1]
  /\ To(i, IF written[i].filled = Len(Tables) THEN "commit" ELSE "fill")
  /\ UNCHANGED << db, lock, importing, replacing, cache, request >>

\* The createMany calls of one table.
Fill(i) ==
  /\ stage[i] = "fill"
  /\ written' = [written EXCEPT ![i].filled = @ + 1]
  /\ To(i, IF written[i].filled + 1 = Len(Tables) THEN "commit" ELSE "fill")
  /\ UNCHANGED << db, lock, importing, replacing, cache, request >>

Commit(i) ==
  /\ stage[i] = "commit"
  /\ db' = [db EXCEPT ![Target(i)] = written[i]]
  /\ EndTransaction(i, "clear", "insert")
  /\ UNCHANGED << importing, cache, request >>

\* clearAll of the cache the importer is connected to.
Clear(i) ==
  /\ stage[i] = "clear"
  /\ cache' = [cache EXCEPT ![StoreOf[i]] = [k \in Key |-> None]]
  /\ To(i, "idle")
  /\ UNCHANGED << db, lock, importing, replacing, written, request >>

ImportStep(i) == Delete(i) \/ Insert(i) \/ Fill(i) \/ Commit(i) \/ Clear(i)

\* A statement fails, the transaction times out, or the process dies: the
\* transaction rolls back.  A waiting deletion can time out as well.
ImportFails(i) ==
  /\ stage[i] \in {"delete", "wait", "insert", "fill", "commit"}
  /\ Rollback(i)

\* The commit succeeds and its reply is lost, or the process dies after it: no
\* clearAll.
ReplyLost(i) ==
  /\ stage[i] = "commit"
  /\ db' = [db EXCEPT ![Target(i)] = written[i]]
  /\ EndTransaction(i, "idle", "insert")
  /\ UNCHANGED << importing, cache, request >>

\* clearAll swallows the error of the cache.
ClearFails(i) ==
  /\ stage[i] = "clear"
  /\ To(i, "idle")
  /\ UNCHANGED << db, lock, importing, replacing, written, cache, request >>

ImportFault(i) == ImportFails(i) \/ ReplyLost(i) \/ ClearFails(i)

-----------------------------------------------------------------------------
(* A request to one of the geography endpoints.                            *)

Return(p, result) ==
  /\ answer' = [answer EXCEPT ![p] = result]
  /\ Goto(p, "done")

Ask(p) ==
  /\ pc[p] = "done"
  /\ \E q \in Query : query' = [query EXCEPT ![p] = q]
  /\ answer' = [answer EXCEPT ![p] = Failure]
  /\ Goto(p, "context")
  /\ UNCHANGED << db, lock, import, cache >>

\* getQueryContext: the pinned release with its sources, from which the
\* manifest of the answer is made; without it, artifacts are read.
GetContext(p) ==
  /\ pc[p] = "context"
  /\ \/ /\ p \in Database
        /\ Local[p] # None
        /\ db[Pin(p)] # None
        /\ answer' = [answer EXCEPT ![p] =
                        [origin |-> "database", manifest |-> db[Pin(p)].build,
                         total |-> None, items |-> None]]
        /\ Goto(p, "lookup")
     \/ /\ p \in Database /\ Local[p] # None => db[Pin(p)] = None
        /\ Goto(p, "artifacts")
        /\ UNCHANGED answer
  /\ UNCHANGED << db, lock, import, cache, query >>

\* readJsonArtifact: records verified against the manifest loaded at startup.
\* Without a manifest the answer is empty.
ReadArtifact(p) ==
  /\ pc[p] = "artifacts"
  /\ Return(p, [origin |-> "artifacts", manifest |-> Local[p],
                total |-> IF query[p] \in ListQuery THEN Local[p] ELSE None,
                items |-> Local[p]])
  /\ UNCHANGED << db, lock, import, cache, query >>

AfterMiss(p) == Goto(p, IF query[p] \in ListQuery THEN "count" ELSE "find")

\* getOrSet: a hit returns the cached answer.
LookUp(p) ==
  /\ pc[p] = "lookup"
  /\ LET cached == cache[StoreOf[p]][Entry(p)]
     IN  \/ cached # None /\ Return(p, cached)
         \/ cached = None /\ AfterMiss(p) /\ UNCHANGED answer
  /\ UNCHANGED << db, lock, import, cache, query >>

\* The first statement of the loader of a list: count.
Count(p) ==
  /\ pc[p] = "count"
  /\ answer' = [answer EXCEPT ![p].total = Seen(Pin(p), TableOf[query[p]])]
  /\ Goto(p, "find")
  /\ UNCHANGED << db, lock, import, cache, query >>

\* The second one, findMany, or the only one of a detail: findUnique.
Find(p) ==
  /\ pc[p] = "find"
  /\ answer' = [answer EXCEPT ![p].items = Seen(Pin(p), TableOf[query[p]])]
  /\ Goto(p, "put")
  /\ UNCHANGED << db, lock, import, cache, query >>

Put(p) ==
  /\ pc[p] = "put"
  /\ cache' = [cache EXCEPT ![StoreOf[p]][Entry(p)] = answer[p]]
  /\ Return(p, answer[p])
  /\ UNCHANGED << db, lock, import, query >>

RequestStep(p) ==
  \/ GetContext(p) \/ ReadArtifact(p) \/ LookUp(p)
  \/ Count(p) \/ Find(p) \/ Put(p)

\* A query or the reading of an artifact fails: the request does.
QueryFails(p) ==
  /\ pc[p] \in {"context", "artifacts", "count", "find"}
  /\ Return(p, Failure)
  /\ UNCHANGED << db, lock, import, cache, query >>

\* getOrSet swallows the errors of the cache: one reading it is a miss, one
\* writing it leaves it as it is.
CacheFails(p) ==
  /\ \/ pc[p] = "lookup" /\ AfterMiss(p)
     \/ pc[p] = "put" /\ Goto(p, "done")
  /\ UNCHANGED << db, lock, import, cache, query, answer >>

RequestFault(p) == QueryFails(p) \/ CacheFails(p)

\* Mutation: entries have no time to live.
ExpireNever(s, k) ==
  /\ cache[s][k] # None
  /\ FALSE
  /\ UNCHANGED vars

\* CACHE_TTL_SECONDS have passed since the entry was put, or Redis evicts it.
Expire(s, k) ==
  /\ cache[s][k] # None
  /\ cache' = [cache EXCEPT ![s][k] = None]
  /\ UNCHANGED << db, lock, import, request >>

-----------------------------------------------------------------------------
Next ==
  \/ \E i \in Importer : Start(i) \/ ImportStep(i) \/ ImportFault(i)
  \/ \E p \in Request : Ask(p) \/ RequestStep(p) \/ RequestFault(p)
  \/ \E s \in Store, k \in Key : Expire(s, k)

Spec == Init /\ [][Next]_vars

\* PostgreSQL ends every statement and grants every lock it can, the event
\* loop runs every continuation, and every time to live is finite.
FairSpec ==
  /\ Spec
  /\ \A i \in Importer : WF_vars(ImportStep(i))
  /\ \A p \in Request : WF_vars(RequestStep(p))
  /\ \A s \in Store, k \in Key : WF_vars(Expire(s, k))

-----------------------------------------------------------------------------
(* Correctness.                                                            *)

\* The importer replaces a release atomically: a committed release has all
\* its tables (importLatestRelease:157-220, "Keep the release replacement
\* atomic").
ReleasesComplete == \A r \in Release : db[r] # None => Complete(db[r])

\* No import, overlapping, failing or dying, ever takes an imported release
\* out of the database: "A failure rolls back the replacement"
\* (docs/read-model-architecture.md:74-75).
ReleasesRemain == [][\A r \in Release : db[r] # None => db'[r] # None]_vars

Answered(p) == pc[p] = "done" /\ answer[p].origin # "failure"

\* Of the pinned release: its manifest, its total, and records of it.
OfPin(p, b) == b \in Build /\ ReleaseOf[b] = Pin(p)

\* Every answer is one of the release the process has pinned, whatever other
\* releases are imported, cached by processes of another pin, or rolled back
\* to; and it is never the empty page of a release that is being replaced
\* (getQueryContext:442-473, buildCachePayload:487-498).
AnswersPinned ==
  \A p \in Request :
     Answered(p) /\ Local[p] # None =>
        /\ OfPin(p, answer[p].manifest)
        /\ OfPin(p, answer[p].items)
        /\ query[p] \in ListQuery => OfPin(p, answer[p].total)

\* An answer whose manifest, total and records are of one build.
Whole(p) ==
  /\ answer[p].items = answer[p].manifest
  /\ query[p] \in ListQuery => answer[p].total = answer[p].manifest

\* "The geography importer replaces one release atomically"
\* (docs/read-model-architecture.md:71): no answer mixes two builds.
AnswersAtomic == \A p \in Request : Answered(p) => Whole(p)

\* Once imports have stopped, every answer is eventually whole and of the
\* build that is in the database: what requests in flight at a commit have put
\* in a cache does not last (CACHE_TTL_SECONDS, clearAll:86-92).
Current(p) ==
  answer[p].origin = "database" =>
    Whole(p) /\ answer[p].manifest = db[Pin(p)].build

Settles ==
  (/\ <>[](\A i \in Importer : stage[i] = "idle")
   /\ \A p \in Request : []<>(pc[p] = "context"))
  => <>[](\A p \in Request : Answered(p) => Current(p))

\* Once imports neither fail nor overlap, every one of them ends with its
\* build in the database, also where a build of the release is there already
\* (importLatestRelease:159-163).
CalmNext ==
  \/ \E i \in Importer :
       /\ \A j \in Importer \ {i} : stage[j] = "idle"
       /\ Start(i) \/ ImportStep(i)
  \/ \E p \in Request : Ask(p) \/ RequestStep(p) \/ RequestFault(p)
  \/ \E s \in Store, k \in Key : Expire(s, k)

InPlace(b) == db[ReleaseOf[b]] # None /\ db[ReleaseOf[b]].build = b

ImportsLand ==
  <>[][CalmNext]_vars =>
    \A i \in Importer, b \in Build :
       <>[](stage[i] = "delete" /\ importing[i] = b => <>InPlace(b))

=============================================================================
