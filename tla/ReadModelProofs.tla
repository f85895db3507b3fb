-------------------------- MODULE ReadModelProofs --------------------------
(***************************************************************************)
(* Theorems about ReadModel: its type invariant, that a release in the     *)
(* database is always whole and stays there, and that every answer is one  *)
(* of the release its process has pinned.                                  *)
(***************************************************************************)
EXTENDS ReadModel, TLAPS

-----------------------------------------------------------------------------
(* The inductive invariant.  AnswersPinned depends on what a request has   *)
(* gathered so far, on the entries of the caches, and on the rows of the   *)
(* database, which in turn are what importers have written.                *)

Of(r, b) == b \in Build /\ ReleaseOf[b] = r

RowsGood == \A r \in Release : db[r] # None => Of(r, db[r].build) /\ Complete(db[r])

ImportGood(i) ==
  /\ stage[i] \in {"fill", "commit"} <=> written[i] # None
  /\ written[i] # None => written[i].build = importing[i]
  /\ stage[i] = "fill" => written[i].filled < Len(Tables)
  /\ stage[i] = "commit" => Complete(written[i])

EntryGood(k, e) ==
  /\ e.origin = "database"
  /\ Of(k.release, e.manifest)
  /\ Of(k.release, e.items)
  /\ k.query \in ListQuery => Of(k.release, e.total)

CacheGood == \A s \in Store, k \in Key : cache[s][k] # None => EntryGood(k, cache[s][k])

RequestGood(p) ==
  /\ pc[p] \in {"lookup", "count", "find", "put"} =>
       /\ Local[p] # None
       /\ db[Pin(p)] # None
       /\ answer[p].origin = "database"
       /\ Of(Pin(p), answer[p].manifest)
  /\ pc[p] \in {"find", "put"} /\ query[p] \in ListQuery => Of(Pin(p), answer[p].total)
  /\ pc[p] = "put" => Of(Pin(p), answer[p].items)
  /\ Answered(p) /\ Local[p] # None =>
       /\ Of(Pin(p), answer[p].manifest)
       /\ Of(Pin(p), answer[p].items)
       /\ query[p] \in ListQuery => Of(Pin(p), answer[p].total)

RInv ==
  /\ TypeOK
  /\ RowsGood
  /\ \A i \in Importer : ImportGood(i)
  /\ CacheGood
  /\ \A p \in Request : RequestGood(p)

-----------------------------------------------------------------------------
(* Facts about the constants and the operators.                            *)

LEMMA TableCount == Len(Tables) \in Nat /\ Len(Tables) > 0
BY ReadModelAssumption

LEMMA TargetType ==
  ASSUME TypeOK, NEW i \in Importer
  PROVE  Target(i) \in Release /\ importing[i] \in Build
BY ReadModelAssumption DEF TypeOK, Target

LEMMA PinType ==
  ASSUME NEW p \in Request, Local[p] # None
  PROVE  Pin(p) \in Release /\ Local[p] \in Build /\ Of(Pin(p), Local[p])
BY ReadModelAssumption DEF Pin, Of

LEMMA FailureType == Failure \in Answer
BY DEF Failure, Answer, Origin

\* The key of an answer names its query and its release.
LEMMA KeyFacts ==
  ASSUME NEW q \in Query, NEW b \in Build
  PROVE  /\ KeyOf(q, b) \in Key
         /\ KeyOf(q, b).query = q
         /\ KeyOf(q, b).release = ReleaseOf[b]
BY ReadModelAssumption DEF KeyOf, Key

\* Every table of a good release has records.
LEMMA SeenGood ==
  ASSUME RowsGood, NEW r \in Release, db[r] # None, NEW t \in TableIndex
  PROVE  Of(r, Seen(r, t))
BY DEF RowsGood, Complete, Seen, TableIndex

-----------------------------------------------------------------------------
LEMMA InitRInv == Init => RInv
<1> SUFFICES ASSUME Init PROVE RInv
  OBVIOUS
<1>1. TypeOK
  BY FailureType DEF Init, TypeOK, Stages, Steps
<1>2. RowsGood /\ CacheGood
  BY DEF Init, RowsGood, CacheGood
<1>3. \A i \in Importer : ImportGood(i)
  BY DEF Init, ImportGood
<1>4. \A p \in Request : RequestGood(p)
  BY DEF Init, RequestGood, Answered, Failure
<1>5. QED BY <1>1, <1>2, <1>3, <1>4 DEF RInv

\* A step of an importer that changes neither rows nor entries leaves requests
\* and caches good.
LEMMA RequestsKept ==
  ASSUME RInv, UNCHANGED request, NEW p \in Request,
         \A r \in Release : db[r] # None => db'[r] # None
  PROVE  RequestGood(p)'
<1>1. /\ pc' = pc /\ query' = query /\ answer' = answer /\ RequestGood(p)
  BY DEF RInv, request
<1>2. Local[p] # None => Pin(p) \in Release
  BY PinType
<1>3. QED BY <1>1, <1>2 DEF RequestGood, Answered

\* What the end of a transaction does to the importers.
LEMMA EndTransactionGood ==
  ASSUME TypeOK, \A j \in Importer : ImportGood(j),
         NEW i \in Importer, NEW next \in {"idle", "clear"},
         NEW others \in {"delete", "insert"},
         EndTransaction(i, next, others), importing' = importing
  PROVE  /\ lock' \in [Release -> Importer \cup {None}]
         /\ stage' \in [Importer -> Stages]
         /\ replacing' \in [Importer -> BOOLEAN]
         /\ written' \in [Importer -> Row \cup {None}]
         /\ \A j \in Importer : ImportGood(j)'
<1>1. lock' \in [Release -> Importer \cup {None}]
  BY DEF TypeOK, EndTransaction
<1>2. /\ replacing' \in [Importer -> BOOLEAN]
      /\ written' \in [Importer -> Row \cup {None}]
  BY DEF TypeOK, EndTransaction
<1>3. stage' \in [Importer -> Stages]
  BY DEF TypeOK, EndTransaction, Stages
<1>4. ASSUME NEW j \in Importer PROVE ImportGood(j)'
  <2>1. ImportGood(j)
    OBVIOUS
  <2>2. CASE j = i
    BY <2>2 DEF TypeOK, EndTransaction, ImportGood
  <2>3. CASE j # i
    <3>1. written'[j] = written[j] /\ importing'[j] = importing[j]
      BY <2>3 DEF TypeOK, EndTransaction
    <3>2. \/ stage'[j] = stage[j]
          \/ stage[j] = "wait" /\ stage'[j] \in {"delete", "insert"}
      BY <2>3 DEF EndTransaction
    <3>3. QED BY <2>1, <3>1, <3>2 DEF ImportGood
  <2>4. QED BY <2>2, <2>3
<1>5. QED BY <1>1, <1>2, <1>3, <1>4

-----------------------------------------------------------------------------
(* Importers.                                                              *)

\* The steps of a transaction before it ends.
LEMMA TransactionRInv ==
  ASSUME RInv, NEW i \in Importer,
         \/ Start(i) \/ Delete(i) \/ Fill(i) \/ ClearFails(i)
         \/ Insert(i) /\ stage'[i] = "fill"
  PROVE  RInv'
<1> USE DEF To
<1>1. TypeOK /\ Target(i) \in Release /\ Len(Tables) \in Nat /\ Len(Tables) > 0
  BY TargetType, TableCount DEF RInv
<1>2. UNCHANGED << db, cache, request >>
  <2>1. CASE Insert(i)
    BY <2>1 DEF Insert, Rollback
  <2>2. CASE Start(i) \/ Delete(i) \/ Fill(i) \/ ClearFails(i)
    BY <2>2 DEF Start, Delete, Fill, ClearFails
  <2>3. QED BY <2>1, <2>2
<1>3. CASE Start(i) \/ Delete(i) \/ ClearFails(i)
  <2>1. TypeOK'
    <3>1. CASE Start(i) \/ ClearFails(i)
      BY <1>1, <3>1 DEF TypeOK, Start, ClearFails, Stages, request
    <3>2. CASE Delete(i)
      <4>1. /\ lock' \in [Release -> Importer \cup {None}]
            /\ replacing' \in [Importer -> BOOLEAN]
        <5>1. /\ \/ UNCHANGED << lock, replacing >>
                 \/ /\ lock' = [lock EXCEPT ![Target(i)] = i]
                    /\ replacing' = [replacing EXCEPT ![i] = TRUE]
          BY <3>2 DEF Delete
        <5>2. QED BY <1>1, <5>1 DEF TypeOK
      <4>2. stage' \in [Importer -> Stages]
        BY <1>1, <3>2 DEF TypeOK, Delete, Stages
      <4>3. QED BY <1>1, <3>2, <4>1, <4>2 DEF TypeOK, Delete, request
    <3>3. QED BY <1>3, <3>1, <3>2
  <2>2. ASSUME NEW j \in Importer PROVE ImportGood(j)'
    <3>1. ImportGood(j)
      BY DEF RInv
    <3>2. written' = written
      BY <1>3 DEF Start, Delete, ClearFails
    <3>3. j # i => stage'[j] = stage[j] /\ importing'[j] = importing[j]
      BY <1>1, <1>3 DEF TypeOK, Start, Delete, ClearFails
    <3>4. j = i => {stage[j], stage'[j]} \cap {"fill", "commit"} = {}
      BY <1>1, <1>3 DEF TypeOK, Start, Delete, ClearFails
    <3>5. QED BY <3>1, <3>2, <3>3, <3>4 DEF ImportGood
  <2>3. QED BY <1>2, <2>1, <2>2, RequestsKept DEF RInv, RowsGood, CacheGood
<1>4. CASE Fill(i)
  <2>1. /\ written[i] \in Row /\ written[i].build = importing[i]
        /\ written[i].filled + 1 \in 0 .. Len(Tables)
        /\ written[i].filled + 1 < Len(Tables) \/ written[i].filled + 1 = Len(Tables)
    BY <1>1, <1>4 DEF RInv, TypeOK, ImportGood, Fill, Row
  <2>2. /\ written'[i].filled = written[i].filled + 1
        /\ written'[i].build = written[i].build
        /\ written'[i] \in Row /\ written'[i] # None
        /\ \A j \in Importer \ {i} : written'[j] = written[j] /\ stage'[j] = stage[j]
        /\ written' \in [Importer -> Row \cup {None}]
    BY <1>1, <1>4, <2>1, ReadModelAssumption DEF TypeOK, Fill, Row
  <2>3. stage'[i] = IF written[i].filled + 1 = Len(Tables) THEN "commit" ELSE "fill"
    BY <1>1, <1>4 DEF TypeOK, Fill
  <2>4. TypeOK'
    BY <1>1, <1>4, <2>2 DEF TypeOK, Fill, Stages, request
  <2>5. importing' = importing
    BY <1>4 DEF Fill
  <2>6. ImportGood(i)'
    BY <2>1, <2>2, <2>3, <2>5 DEF ImportGood, Complete
  <2>7. \A j \in Importer \ {i} : ImportGood(j)'
    BY <2>2, <2>5 DEF RInv, ImportGood
  <2>8. QED BY <1>2, <2>4, <2>6, <2>7, RequestsKept DEF RInv, RowsGood, CacheGood
<1>5. CASE Insert(i) /\ stage'[i] = "fill"
  <2>1. /\ lock' = [lock EXCEPT ![Target(i)] = i]
        /\ written' = [written EXCEPT ![i] = [build |-> importing[i], filled |-> 0]]
        /\ stage' = [stage EXCEPT ![i] = "fill"]
        /\ UNCHANGED << importing, replacing >>
    BY <1>1, <1>5 DEF Insert, Rollback, EndTransaction, TypeOK
  <2>2. [build |-> importing[i], filled |-> 0] \in Row
    BY <1>1, TargetType DEF Row
  <2>3. TypeOK'
    BY <1>1, <1>2, <2>1, <2>2 DEF TypeOK, Stages, request
  <2>4. ImportGood(i)'
    BY <1>1, <2>1, <2>2, ReadModelAssumption DEF TypeOK, ImportGood
  <2>5. \A j \in Importer \ {i} : ImportGood(j)'
    BY <1>1, <2>1 DEF RInv, TypeOK, ImportGood
  <2>6. QED BY <1>2, <2>3, <2>4, <2>5, RequestsKept DEF RInv, RowsGood, CacheGood
<1>6. QED BY <1>3, <1>4, <1>5

LEMMA RollbackRInv ==
  ASSUME RInv, NEW i \in Importer, Rollback(i)
  PROVE  RInv'
<1>1. /\ lock' \in [Release -> Importer \cup {None}]
      /\ stage' \in [Importer -> Stages]
      /\ replacing' \in [Importer -> BOOLEAN]
      /\ written' \in [Importer -> Row \cup {None}]
      /\ \A j \in Importer : ImportGood(j)'
  BY EndTransactionGood DEF RInv, Rollback
<1>2. UNCHANGED << db, importing, cache, request >>
  BY DEF Rollback
<1>3. TypeOK'
  BY <1>1, <1>2 DEF RInv, TypeOK, request
<1>4. QED BY <1>1, <1>2, <1>3, RequestsKept DEF RInv, RowsGood, CacheGood

\* A commit puts a whole row of the release it is about into the database.
LEMMA CommitRInv ==
  ASSUME RInv, NEW i \in Importer, Commit(i) \/ ReplyLost(i)
  PROVE  RInv' /\ \A r \in Release : db[r] # None => db'[r] # None
<1>1. /\ lock' \in [Release -> Importer \cup {None}]
      /\ stage' \in [Importer -> Stages]
      /\ replacing' \in [Importer -> BOOLEAN]
      /\ written' \in [Importer -> Row \cup {None}]
      /\ \A j \in Importer : ImportGood(j)'
  BY EndTransactionGood DEF RInv, Commit, ReplyLost
<1>2. /\ UNCHANGED << importing, cache, request >>
      /\ db' = [db EXCEPT ![Target(i)] = written[i]]
      /\ stage[i] = "commit"
  BY DEF Commit, ReplyLost
<1>3. /\ written[i] \in Row /\ written[i] # None /\ Complete(written[i])
      /\ written[i].build = importing[i]
      /\ Target(i) \in Release /\ importing[i] \in Build
  BY <1>2, TargetType DEF RInv, ImportGood, TypeOK
<1>4. TypeOK'
  BY <1>1, <1>2, <1>3 DEF RInv, TypeOK, request
<1>5. ASSUME NEW r \in Release
      PROVE  /\ db[r] # None => db'[r] # None
             /\ db'[r] # None => Of(r, db'[r].build) /\ Complete(db'[r])
  <2>1. CASE r = Target(i)
    BY <1>2, <1>3, <2>1 DEF RInv, TypeOK, Target, Of
  <2>2. CASE r # Target(i)
    BY <1>2, <2>2 DEF RInv, TypeOK, RowsGood
  <2>3. QED BY <2>1, <2>2
<1>6. RowsGood' /\ CacheGood'
  BY <1>2, <1>5 DEF RInv, RowsGood, CacheGood, Complete
<1>7. \A p \in Request : RequestGood(p)'
  BY <1>2, <1>5, RequestsKept
<1>8. QED BY <1>1, <1>4, <1>5, <1>6, <1>7 DEF RInv

LEMMA ClearRInv ==
  ASSUME RInv, NEW i \in Importer, Clear(i)
  PROVE  RInv'
<1>1. TypeOK'
  BY ReadModelAssumption DEF RInv, TypeOK, Clear, To, Stages, request
<1>2. \A j \in Importer : ImportGood(j)'
  BY DEF RInv, TypeOK, Clear, To, ImportGood
<1>3. CacheGood'
  BY DEF RInv, TypeOK, CacheGood, Clear
<1>4. QED BY <1>1, <1>2, <1>3, RequestsKept DEF RInv, RowsGood, Clear

LEMMA ExpireRInv ==
  ASSUME RInv, NEW s \in Store, NEW k \in Key, Expire(s, k)
  PROVE  RInv'
<1>1. TypeOK'
  BY DEF RInv, TypeOK, Expire, import, request
<1>2. CacheGood'
  BY DEF RInv, TypeOK, CacheGood, Expire
<1>3. QED BY <1>1, <1>2, RequestsKept
          DEF RInv, RowsGood, ImportGood, Expire, import

-----------------------------------------------------------------------------
(* Requests.                                                               *)

\* A step of one request leaves the others, and the importers, alone.
LEMMA OneRequest ==
  ASSUME RInv, NEW p \in Request, UNCHANGED << db, lock, import >>,
         TypeOK', CacheGood', RequestGood(p)',
         \A q \in Request \ {p} :
           pc'[q] = pc[q] /\ query'[q] = query[q] /\ answer'[q] = answer[q]
  PROVE  RInv'
<1>1. \A q \in Request : RequestGood(q)'
  BY DEF RInv, RequestGood, Answered
<1>2. RowsGood' /\ \A i \in Importer : ImportGood(i)'
  BY DEF RInv, RowsGood, ImportGood, import
<1>3. QED BY <1>1, <1>2 DEF RInv

LEMMA AskRInv ==
  ASSUME RInv, NEW p \in Request, Ask(p)
  PROVE  RInv'
<1>1. TypeOK'
  BY FailureType DEF RInv, TypeOK, Ask, Goto, Steps, import
<1>2. CacheGood'
  BY DEF RInv, CacheGood, Ask
<1>3. RequestGood(p)'
  BY DEF RInv, TypeOK, Ask, Goto, RequestGood, Answered
<1>4. QED BY <1>1, <1>2, <1>3, OneRequest DEF RInv, TypeOK, Ask, Goto

LEMMA GetContextRInv ==
  ASSUME RInv, NEW p \in Request, GetContext(p)
  PROVE  RInv'
<1>1. CacheGood' /\ UNCHANGED << db, lock, import, cache, query >>
  BY DEF RInv, CacheGood, GetContext
<1>2. CASE pc' = [pc EXCEPT ![p] = "artifacts"] /\ answer' = answer
  <2>1. TypeOK' /\ RequestGood(p)'
    BY <1>1, <1>2 DEF RInv, TypeOK, Steps, import, RequestGood, Answered
  <2>2. QED BY <1>1, <1>2, <2>1, OneRequest DEF RInv, TypeOK
<1>3. CASE /\ Local[p] # None /\ db[Pin(p)] # None
           /\ answer' = [answer EXCEPT ![p] =
                           [origin |-> "database", manifest |-> db[Pin(p)].build,
                            total |-> None, items |-> None]]
           /\ pc' = [pc EXCEPT ![p] = "lookup"]
  <2>1. Pin(p) \in Release /\ Of(Pin(p), db[Pin(p)].build)
    BY <1>3, PinType DEF RInv, RowsGood
  <2>2. [origin |-> "database", manifest |-> db[Pin(p)].build,
         total |-> None, items |-> None] \in Answer
    BY <2>1 DEF Answer, Origin, Of
  <2>3. TypeOK'
    BY <1>1, <1>3, <2>2 DEF RInv, TypeOK, Steps, import
  <2>4. RequestGood(p)'
    BY <1>1, <1>3, <2>1 DEF RInv, TypeOK, RequestGood, Answered
  <2>5. QED BY <1>1, <1>3, <2>3, <2>4, OneRequest DEF RInv, TypeOK
<1>4. QED BY <1>2, <1>3 DEF GetContext, Goto

LEMMA ReadArtifactRInv ==
  ASSUME RInv, NEW p \in Request, ReadArtifact(p)
  PROVE  RInv'
<1> DEFINE found == [origin |-> "artifacts", manifest |-> Local[p],
                     total |-> IF query[p] \in ListQuery THEN Local[p] ELSE None,
                     items |-> Local[p]]
<1>1. found \in Answer
  BY ReadModelAssumption DEF Answer, Origin
<1>2. /\ answer' = [answer EXCEPT ![p] = found]
      /\ pc' = [pc EXCEPT ![p] = "done"]
      /\ UNCHANGED << db, lock, import, cache, query >>
  BY DEF ReadArtifact, Return, Goto
<1>3. TypeOK' /\ CacheGood'
  BY <1>1, <1>2 DEF RInv, TypeOK, CacheGood, Steps, import
<1>4. RequestGood(p)'
  BY <1>2, PinType DEF RInv, TypeOK, RequestGood, Answered
<1>5. QED BY <1>2, <1>3, <1>4, OneRequest DEF RInv, TypeOK

LEMMA LookUpRInv ==
  ASSUME RInv, NEW p \in Request,
         LookUp(p) \/ (CacheFails(p) /\ pc[p] = "lookup")
  PROVE  RInv'
<1>1. CacheGood' /\ UNCHANGED << db, lock, import, cache, query >> /\ pc[p] = "lookup"
  BY DEF RInv, CacheGood, LookUp, CacheFails
<1>2. /\ Local[p] # None /\ db[Pin(p)] # None
      /\ Of(Pin(p), answer[p].manifest)
  BY <1>1 DEF RInv, RequestGood
<1>3. CASE answer' = answer /\ AfterMiss(p)
  <2>1. pc' = [pc EXCEPT ![p] = IF query[p] \in ListQuery THEN "count" ELSE "find"]
    BY <1>3 DEF AfterMiss, Goto
  <2>2. TypeOK' /\ RequestGood(p)'
    BY <1>1, <1>3, <2>1 DEF RInv, TypeOK, Steps, import, RequestGood, Answered
  <2>3. QED BY <1>1, <1>3, <2>1, <2>2, OneRequest DEF RInv, TypeOK
<1>4. CASE LookUp(p) /\ cache[StoreOf[p]][Entry(p)] # None
  <2> DEFINE cached == cache[StoreOf[p]][Entry(p)]
  <2>1. /\ StoreOf[p] \in Store /\ query[p] \in Query
        /\ Entry(p) \in Key /\ Entry(p).query = query[p]
        /\ Entry(p).release = Pin(p)
    BY <1>2, KeyFacts, ReadModelAssumption DEF RInv, TypeOK, Entry, Of
  <2>2. EntryGood(Entry(p), cached) /\ cached \in Answer
    BY <1>4, <2>1 DEF RInv, TypeOK, CacheGood
  <2>3. /\ answer' = [answer EXCEPT ![p] = cached]
        /\ pc' = [pc EXCEPT ![p] = "done"]
    BY <1>4 DEF LookUp, Return, Goto
  <2>4. TypeOK'
    BY <1>1, <2>2, <2>3 DEF RInv, TypeOK, Steps, import
  <2>5. RequestGood(p)'
    BY <1>1, <2>1, <2>2, <2>3 DEF RInv, TypeOK, RequestGood, EntryGood, Answered
  <2>6. QED BY <1>1, <2>3, <2>4, <2>5, OneRequest DEF RInv, TypeOK
<1>5. QED BY <1>3, <1>4 DEF LookUp, CacheFails

LEMMA QueryRInv ==
  ASSUME RInv, NEW p \in Request, Count(p) \/ Find(p)
  PROVE  RInv'
<1> DEFINE records == Seen(Pin(p), TableOf[query[p]])
<1>1. CacheGood' /\ UNCHANGED << db, lock, import, cache, query >>
  BY DEF RInv, CacheGood, Count, Find
<1>2. /\ pc[p] \in {"count", "find"} /\ Local[p] # None /\ db[Pin(p)] # None
      /\ query[p] \in Query
  BY DEF RInv, TypeOK, RequestGood, Count, Find
<1>3. Of(Pin(p), records) /\ records \in Build
  BY <1>2, PinType, SeenGood, ReadModelAssumption DEF RInv, Of
<1>4. CASE Count(p)
  <2>1. /\ answer' = [answer EXCEPT ![p].total = records]
        /\ pc' = [pc EXCEPT ![p] = "find"]
    BY <1>4 DEF Count, Goto
  <2>2. TypeOK'
    BY <1>1, <1>3, <2>1 DEF RInv, TypeOK, Answer, Steps, import
  <2>3. RequestGood(p)'
    BY <1>1, <1>3, <1>4, <2>1 DEF RInv, TypeOK, RequestGood, Answered, Answer, Count
  <2>4. QED BY <1>1, <2>1, <2>2, <2>3, OneRequest DEF RInv, TypeOK
<1>5. CASE Find(p)
  <2>1. /\ answer' = [answer EXCEPT ![p].items = records]
        /\ pc' = [pc EXCEPT ![p] = "put"] /\ pc[p] = "find"
    BY <1>5 DEF Find, Goto
  <2>2. TypeOK'
    BY <1>1, <1>3, <2>1 DEF RInv, TypeOK, Answer, Steps, import
  <2>3. RequestGood(p)'
    BY <1>1, <1>3, <2>1 DEF RInv, TypeOK, RequestGood, Answered, Answer
  <2>4. QED BY <1>1, <2>1, <2>2, <2>3, OneRequest DEF RInv, TypeOK
<1>6. QED BY <1>4, <1>5

LEMMA PutRInv ==
  ASSUME RInv, NEW p \in Request,
         Put(p) \/ (CacheFails(p) /\ pc[p] = "put")
  PROVE  RInv'
<1>0. pc[p] = "put" /\ RequestGood(p)
  BY DEF RInv, Put
<1>1. /\ pc[p] = "put" /\ Local[p] # None /\ db[Pin(p)] # None
      /\ answer[p].origin = "database"
      /\ Of(Pin(p), answer[p].manifest) /\ Of(Pin(p), answer[p].items)
      /\ query[p] \in ListQuery => Of(Pin(p), answer[p].total)
      /\ answer[p] \in Answer /\ query[p] \in Query
  <2>1. answer[p] \in Answer /\ query[p] \in Query
    BY DEF RInv, TypeOK
  <2>2. QED BY <1>0, <2>1 DEF RequestGood
<1>2. /\ UNCHANGED << db, lock, import, query >>
      /\ pc' = [pc EXCEPT ![p] = "done"] /\ answer' = answer
      /\ \/ cache' = [cache EXCEPT ![StoreOf[p]][Entry(p)] = answer[p]]
         \/ cache' = cache
  <2>1. CASE Put(p)
    <3>1. answer' = answer
      <4>1. answer' = [answer EXCEPT ![p] = answer[p]]
        BY <2>1 DEF Put, Return
      <4>2. answer \in [Request -> Answer]
        BY DEF RInv, TypeOK
      <4>3. QED BY <4>1, <4>2
    <3>2. QED BY <2>1, <3>1 DEF Put, Return, Goto
  <2>2. CASE CacheFails(p)
    BY <1>1, <2>2 DEF CacheFails, Goto
  <2>3. QED BY <2>1, <2>2
<1>3. /\ StoreOf[p] \in Store /\ Entry(p) \in Key /\ Entry(p).query = query[p]
      /\ Entry(p).release = Pin(p)
  BY <1>1, KeyFacts, ReadModelAssumption DEF Entry, Of
<1>4. cache' \in [Store -> [Key -> Answer \cup {None}]]
  <2>1. cache \in [Store -> [Key -> Answer \cup {None}]]
    BY DEF RInv, TypeOK
  <2>2. ASSUME NEW e \in Answer, NEW k \in Key, NEW s \in Store
        PROVE  [cache EXCEPT ![s][k] = e] \in [Store -> [Key -> Answer \cup {None}]]
    <3>1. cache[s] \in [Key -> Answer \cup {None}]
      BY <2>1
    <3>2. [cache[s] EXCEPT ![k] = e] \in [Key -> Answer \cup {None}]
      BY <3>1
    <3>3. QED BY <2>1, <3>2
  <2>3. /\ StoreOf[p] \in Store /\ Entry(p) \in Key /\ answer[p] \in Answer
        /\ \/ cache' = [cache EXCEPT ![StoreOf[p]][Entry(p)] = answer[p]]
           \/ cache' = cache
    BY <1>1, <1>2, <1>3
  <2>4. CASE cache' = [cache EXCEPT ![StoreOf[p]][Entry(p)] = answer[p]]
    BY <2>2, <2>3, <2>4, Zenon
  <2>5. QED BY <2>1, <2>3, <2>4
<1>5. TypeOK'
  BY <1>2, <1>4 DEF RInv, TypeOK, Steps, import
<1>6. CacheGood'
  <2>1. EntryGood(Entry(p), answer[p])
    BY <1>1, <1>3 DEF EntryGood
  <2>2. ASSUME NEW s \in Store, NEW k \in Key, cache'[s][k] # None
        PROVE  EntryGood(k, cache'[s][k])
    <3>1. cache'[s][k] = cache[s][k] \/ (k = Entry(p) /\ cache'[s][k] = answer[p])
      BY <1>2, <1>3 DEF RInv, TypeOK
    <3>2. QED BY <2>1, <2>2, <3>1 DEF RInv, CacheGood
  <2>3. QED BY <2>2 DEF CacheGood, EntryGood
<1>7. RequestGood(p)'
  BY <1>1, <1>2 DEF RInv, TypeOK, RequestGood, Answered
<1>8. QED BY <1>2, <1>5, <1>6, <1>7, OneRequest DEF RInv, TypeOK

LEMMA QueryFailsRInv ==
  ASSUME RInv, NEW p \in Request, QueryFails(p)
  PROVE  RInv'
<1>1. TypeOK'
  BY FailureType DEF RInv, TypeOK, QueryFails, Return, Goto, Steps, import
<1>2. CacheGood'
  BY DEF RInv, CacheGood, QueryFails
<1>3. RequestGood(p)'
  BY DEF RInv, TypeOK, QueryFails, Return, Goto, RequestGood, Answered, Failure
<1>4. QED BY <1>1, <1>2, <1>3, OneRequest DEF RInv, TypeOK, QueryFails, Return, Goto

-----------------------------------------------------------------------------
\* The invariant is inductive, and no step takes a release out of the database.
LEMMA NextRInv ==
  ASSUME RInv, [Next]_vars
  PROVE  RInv' /\ \A r \in Release : db[r] # None => db'[r] # None
<1>1. ASSUME NEW i \in Importer, Start(i) \/ ImportStep(i) \/ ImportFault(i)
      PROVE  RInv' /\ \A r \in Release : db[r] # None => db'[r] # None
  <2>1. CASE \/ Start(i) \/ Delete(i) \/ Fill(i) \/ ClearFails(i)
             \/ Insert(i) /\ ~ Rollback(i)
    <3>1. Insert(i) /\ ~ Rollback(i) => stage'[i] = "fill"
      BY DEF Insert, To, RInv, TypeOK
    <3>2. db' = db
      BY <2>1 DEF Start, Delete, Fill, ClearFails, Insert
    <3>3. QED BY <2>1, <3>1, <3>2, TransactionRInv
  <2>2. CASE Rollback(i)
    BY <2>2, RollbackRInv DEF Rollback
  <2>3. CASE Commit(i) \/ ReplyLost(i)
    BY <2>3, CommitRInv
  <2>4. CASE Clear(i)
    BY <2>4, ClearRInv DEF Clear
  <2>5. QED BY <1>1, <2>1, <2>2, <2>3, <2>4 DEF ImportStep, ImportFault, ImportFails
<1>2. ASSUME NEW p \in Request, Ask(p) \/ RequestStep(p) \/ RequestFault(p)
      PROVE  RInv' /\ db' = db
  <2>1. RInv'
    <3>1. CacheFails(p) => pc[p] \in {"lookup", "put"}
      BY DEF CacheFails
    <3>2. QED BY <1>2, <3>1, AskRInv, GetContextRInv, ReadArtifactRInv, LookUpRInv,
         QueryRInv, PutRInv, QueryFailsRInv DEF RequestStep, RequestFault
  <2>2. db' = db
    BY <1>2 DEF Ask, RequestStep, GetContext, ReadArtifact, LookUp, Count, Find,
       Put, RequestFault, QueryFails, CacheFails
  <2>3. QED BY <2>1, <2>2
<1>3. ASSUME NEW s \in Store, NEW k \in Key, Expire(s, k)
      PROVE  RInv' /\ db' = db
  BY <1>3, ExpireRInv DEF Expire
<1>4. CASE UNCHANGED vars
  <2>1. /\ UNCHANGED << db, lock, cache >> /\ UNCHANGED import /\ UNCHANGED request
    BY <1>4 DEF vars
  <2>2. TypeOK' /\ RowsGood' /\ CacheGood' /\ \A i \in Importer : ImportGood(i)'
    BY <2>1 DEF RInv, TypeOK, RowsGood, CacheGood, ImportGood, import, request
  <2>3. QED BY <2>1, <2>2, RequestsKept DEF RInv
<1>5. QED BY <1>1, <1>2, <1>3, <1>4 DEF Next

LEMMA SpecRInv == Spec => []RInv
BY InitRInv, NextRInv, PTL DEF Spec

\* Every variable of the read model keeps its type, for any number of
\* importers, requests, releases, builds and caches.
THEOREM ReadModelTypeCorrect == Spec => []TypeOK
<1>1. RInv => TypeOK
  BY DEF RInv
<1>2. QED BY <1>1, SpecRInv, PTL

\* However imports overlap and fail, a release in the database has all its
\* tables (importLatestRelease:157-220).
THEOREM ReleasesAreComplete == Spec => []ReleasesComplete
<1>1. RInv => ReleasesComplete
  BY DEF RInv, RowsGood, ReleasesComplete
<1>2. QED BY <1>1, SpecRInv, PTL

\* And none of them ever leaves it again.
THEOREM ReleasesStay == Spec => ReleasesRemain
<1>1. RInv /\ [Next]_vars => [\A r \in Release : db[r] # None => db'[r] # None]_vars
  BY NextRInv
<1>2. QED BY <1>1, SpecRInv, PTL DEF Spec, ReleasesRemain

\* Whatever is imported, cached, evicted, or fails, meanwhile: a request to a
\* process that has pinned a release is answered from that release
\* (getQueryContext:442-473, getOrSet:54-84).
THEOREM AnswersArePinned == Spec => []AnswersPinned
<1>1. RInv => AnswersPinned
  BY DEF RInv, RequestGood, AnswersPinned, OfPin, Of
<1>2. QED BY <1>1, SpecRInv, PTL

=============================================================================
