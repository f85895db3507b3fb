--------------------------- MODULE OperationsProofs ---------------------------
(***************************************************************************)
(* Proofs about Operations, for any number of processes, clients, places   *)
(* for requests and sources, and for every environment and quota.          *)
(***************************************************************************)
EXTENDS Operations, FetchRetryProofs

-----------------------------------------------------------------------------
(* The retries of the sync command, in a deployment.                       *)

\* No step of a deployment does more to a fetch than FetchRetry says.
LEMMA StepsFetch ==
  ASSUME [Next]_opsVars
  PROVE  [FetchNext]_fetch
<1>1. CASE SyncBegins
  BY <1>1 DEF SyncBegins, FetchNext
<1>2. CASE SyncStep
  BY <1>2 DEF SyncStep, FetchNext
<1>3. CASE SyncEnds
  BY <1>3 DEF SyncEnds, FetchNext
<1>4. CASE ServicesChange \/ \E s \in Source : ArtifactsChange(s)
  BY <1>4 DEF ServicesChange, ArtifactsChange
<1>5. ASSUME NEW x \in Api, ProcessStep(x) \/ ProcessStops(x)
      PROVE  UNCHANGED fetch
  BY <1>5 DEF ProcessStep, ProcessStops
<1>6. ASSUME NEW k \in Slot, NEW x \in Api, NEW r \in Request,
             \/ ReceiveUncounted(k, x, r) \/ ReceiveCounted(k, x, r)
             \/ StorageFails(k, x, r) \/ ReplyLost(k, x, r)
      PROVE  UNCHANGED fetch
  BY <1>6 DEF ReceiveUncounted, ReceiveCounted, StorageFails, ReplyLost
<1>7. ASSUME NEW k \in Slot, Handle(k) \/ Deliver(k)
      PROVE  UNCHANGED fetch
  BY <1>7 DEF Handle, Deliver
<1>8. ASSUME NEW s \in Storage, NEW t \in Tracker, WindowEnds(s, t)
      PROVE  UNCHANGED fetch
  BY <1>8 DEF WindowEnds
<1>9. CASE UNCHANGED opsVars
  BY <1>9 DEF opsVars
<1> QED
  BY <1>1, <1>2, <1>3, <1>4, <1>5, <1>6, <1>7, <1>8, <1>9 DEF Next

\* Whatever happens around them, the requests of the sync command are retried
\* as configured, and result in their last attempt (fetchWithRetry:479-512).
THEOREM DeploymentRetries ==
  Spec => [](RetriesAreDue /\ LastAttemptCounts)
<1>1. Init => FetchInv
  BY InitFetchInv DEF Init
<1>2. FetchInv /\ [Next]_opsVars => FetchInv'
  BY StepsFetch, NextFetchInv
<1>3. FetchInv => RetriesAreDue /\ LastAttemptCounts
  BY FetchInvRetries
<1> QED
  BY <1>1, <1>2, <1>3, PTL DEF Spec

-----------------------------------------------------------------------------
(* Types.                                                                  *)

Process ==
  [ state : {"down", "starting", "up"}, hooks : SUBSET Hooks, loaded : SUBSET Source,
    redis : ConnectionStates, throttler : ConnectionStates ]

Probe ==
  [ step : {"redis", "database", "model"}, redis : {None, "up", "down", "disabled"},
    calm : BOOLEAN ]

\* The types of what readiness depends on.
ReadinessType ==
  /\ redisUp \in BOOLEAN /\ databaseUp \in BOOLEAN
  /\ row \in Row \cup {None}
  /\ released \subseteq Source
  /\ process \in [Api -> Process]
  /\ \A x \in Api : process[x].hooks # {} <=> process[x].state = "starting"
  /\ probe \in [Api -> Probe \cup {None}]
  /\ vouched \in [Api -> {"never", "once", "now"}]
  /\ \A x \in Api : vouched[x] # "never" \/ probe[x] # None => process[x].state = "up"

LEMMA InitReadinessType ==
  Init => ReadinessType
  BY DEF Init, ReadinessInit, ReadinessType, Down, Process, Hooks, ConnectionStates

\* When Redis stops, processes lose nothing but their connections.
LEMMA StoppedConnections ==
  ASSUME process \in [Api -> Process], RedisStops
  PROVE  /\ process' \in [Api -> Process]
         /\ \A x \in Api : /\ process'[x].state = process[x].state
                           /\ process'[x].hooks = process[x].hooks
                           /\ process'[x].loaded = process[x].loaded
<1> DEFINE Lost(c) == IF c = "ready" THEN "reconnecting" ELSE c
           After(p) == [p EXCEPT !.redis = Lost(p.redis), !.throttler = Lost(p.throttler)]
<1>1. process' = [x \in Api |-> After(process[x])]
  BY DEF RedisStops
<1>2. \A c \in ConnectionStates : Lost(c) \in ConnectionStates
  BY DEF ConnectionStates
<1>3. ASSUME NEW p \in Process
      PROVE  /\ After(p) \in Process /\ After(p).state = p.state
             /\ After(p).hooks = p.hooks /\ After(p).loaded = p.loaded
  <2>1. Lost(p.redis) \in ConnectionStates /\ Lost(p.throttler) \in ConnectionStates
    BY <1>2 DEF Process
  <2> HIDE DEF Lost
  <2> QED
    BY <2>1 DEF Process
<1> HIDE DEF After
<1> QED
  BY <1>1, <1>3

\* A change of the services that leaves the states of the processes alone.
LEMMA DisturbedReadinessType ==
  ASSUME ReadinessType, Disturbed,
         redisUp' \in BOOLEAN, databaseUp' \in BOOLEAN, row' \in Row \cup {None},
         released' = released,
         process' \in [Api -> Process],
         \A x \in Api : /\ process'[x].state = process[x].state
                        /\ process'[x].hooks = process[x].hooks
  PROVE  ReadinessType'
<1>1. \A x \in Api : /\ vouched[x] \in {"never", "once", "now"}
                     /\ probe[x] # None => probe[x] \in Probe
  BY DEF ReadinessType
<1>2. \A q \in Probe : [q EXCEPT !.calm = FALSE] \in Probe
  BY DEF Probe
<1>3. /\ vouched' = [x \in Api |-> IF vouched[x] = "now" THEN "once" ELSE vouched[x]]
      /\ probe' = [x \in Api |->
                     IF probe[x] = None THEN None ELSE [probe[x] EXCEPT !.calm = FALSE]]
  BY DEF Disturbed
<1>4. /\ vouched' \in [Api -> {"never", "once", "now"}]
      /\ probe' \in [Api -> Probe \cup {None}]
      /\ \A x \in Api : /\ vouched'[x] # "never" => vouched[x] # "never"
                        /\ probe'[x] # None => probe[x] # None
  BY <1>1, <1>2, <1>3
<1>5. \A x \in Api : process'[x].hooks # {} <=> process'[x].state = "starting"
  BY DEF ReadinessType
<1>6. \A x \in Api : vouched'[x] # "never" \/ probe'[x] # None => process'[x].state = "up"
  <2>1. \A x \in Api : vouched[x] # "never" \/ probe[x] # None => process[x].state = "up"
    BY DEF ReadinessType
  <2> QED
    BY <1>4, <2>1
<1>7. released' \subseteq Source
  BY DEF ReadinessType
<1> QED
  BY <1>4, <1>5, <1>6, <1>7, Zenon DEF ReadinessType

LEMMA ServicesReadinessType ==
  ASSUME ReadinessType,
         RedisStops \/ RedisStarts \/ DatabaseChanges \/ \E r \in Row : Import(r)
  PROVE  ReadinessType'
<1>1. /\ process \in [Api -> Process]
      /\ redisUp \in BOOLEAN /\ databaseUp \in BOOLEAN /\ row \in Row \cup {None}
  BY DEF ReadinessType
<1>2. CASE RedisStops
  BY <1>1, <1>2, StoppedConnections, DisturbedReadinessType DEF RedisStops
<1>3. CASE RedisStarts
  BY <1>1, <1>3, DisturbedReadinessType DEF RedisStarts
<1>4. CASE DatabaseChanges
  <2>1. databaseUp' \in BOOLEAN
    BY <1>4, Zenon DEF DatabaseChanges
  <2> QED
    BY <1>1, <1>4, <2>1, DisturbedReadinessType DEF DatabaseChanges
<1>5. ASSUME NEW r \in Row, Import(r)
      PROVE  ReadinessType'
  BY <1>1, <1>5, DisturbedReadinessType DEF Import
<1> QED
  BY <1>2, <1>3, <1>4, <1>5

\* A process is as before but for its connections, or up after its last hook.
LEMMA HookReadinessType ==
  ASSUME ReadinessType, NEW x \in Api, NEW hook \in process[x].hooks,
         NEW p \in Process, p.hooks = process[x].hooks, p.state = process[x].state,
         HookDone(x, hook, p), UNCHANGED << services, released, probe, vouched >>
  PROVE  ReadinessType'
<1>1. /\ process \in [Api -> Process]
      /\ process[x].hooks \in SUBSET Hooks /\ process[x].state = "starting"
  BY DEF ReadinessType, Process
<1> DEFINE q == [p EXCEPT !.hooks = p.hooks \ {hook},
                          !.state = IF process[x].hooks = {hook} THEN "up" ELSE p.state]
<1>2. process' = [process EXCEPT ![x] = q]
  BY DEF HookDone
<1>3. q \in Process /\ q.hooks = process[x].hooks \ {hook}
      /\ q.state = IF process[x].hooks = {hook} THEN "up" ELSE "starting"
  BY <1>1 DEF Process
<1>4. process' \in [Api -> Process]
  BY <1>1, <1>2, <1>3
<1>5. \A z \in Api : process'[z].hooks # {} <=> process'[z].state = "starting"
  BY <1>1, <1>2, <1>3 DEF ReadinessType
<1>6. \A z \in Api : vouched[z] # "never" \/ probe[z] # None => process'[z].state = "up"
  BY <1>1, <1>2, <1>3 DEF ReadinessType
<1> QED
  BY <1>4, <1>5, <1>6 DEF ReadinessType, services

LEMMA DiesReadinessType ==
  ASSUME ReadinessType, NEW x \in Api, Dies(x),
         UNCHANGED << services, released >>,
         vouched' = [vouched EXCEPT ![x] = "never"] \/ (vouched' = vouched /\ vouched[x] = "never"),
         probe' = [probe EXCEPT ![x] = None] \/ (probe' = probe /\ probe[x] = None)
  PROVE  ReadinessType'
<1>1. Down \in Process /\ Down.state = "down" /\ Down.hooks = {}
  BY DEF Down, Process, ConnectionStates
<1>2. process' = [process EXCEPT ![x] = Down]
  BY DEF Dies
<1>3. /\ vouched' \in [Api -> {"never", "once", "now"}]
      /\ probe' \in [Api -> Probe \cup {None}]
      /\ vouched'[x] = "never" /\ probe'[x] = None
      /\ \A z \in Api : z # x => vouched'[z] = vouched[z] /\ probe'[z] = probe[z]
  BY DEF ReadinessType
<1> QED
  BY <1>1, <1>2, <1>3 DEF ReadinessType, services

\* What a process that has hooks left has not done yet.
LEMMA StartingIsSilent ==
  ASSUME ReadinessType, NEW x \in Api, process[x].hooks # {}
  PROVE  process[x].state = "starting" /\ vouched[x] = "never" /\ probe[x] = None
  BY DEF ReadinessType

LEMMA StartReadinessType ==
  ASSUME ReadinessType, NEW x \in Api, Start(x) \/ StartStep(x)
  PROVE  ReadinessType'
<1>0. process \in [Api -> Process] /\ process[x] \in Process
  BY DEF ReadinessType
<1>1. CASE Start(x)
  <2> DEFINE q == [Down EXCEPT !.state = "starting", !.hooks = Hooks,
                               !.throttler = IF Config[x].redis.required
                                               THEN "reconnecting" ELSE "wait"]
  <2>1. process' = [process EXCEPT ![x] = q]
    BY <1>1 DEF Start
  <2>2. q \in Process /\ q.state = "starting" /\ q.hooks = Hooks /\ Hooks # {}
    BY DEF Process, Down, ConnectionStates, Hooks
  <2>3. process[x].state = "down" /\ vouched[x] = "never" /\ probe[x] = None
    BY <1>1 DEF Start, ReadinessType
  <2> HIDE DEF q
  <2> QED
    BY <1>0, <1>1, <2>1, <2>2, <2>3 DEF Start, ReadinessType, services
<1>2. CASE RedisOnModuleInit(x)
  <2>1. [process[x] EXCEPT !.redis = "ready"] \in Process
    BY <1>0 DEF Process, ConnectionStates
  <2>2. /\ [process[x] EXCEPT !.redis = "ready"].hooks = process[x].hooks
        /\ [process[x] EXCEPT !.redis = "ready"].state = process[x].state
    BY <1>0 DEF Process
  <2>3. \/ HookDone(x, "redis", [process[x] EXCEPT !.redis = "ready"])
        \/ HookDone(x, "redis", process[x])
        \/ Dies(x)
    BY <1>2 DEF RedisOnModuleInit
  <2>4. "redis" \in process[x].hooks /\ UNCHANGED << services, released, probe, vouched >>
    BY <1>2 DEF RedisOnModuleInit
  <2> QED
    BY <1>0, <2>1, <2>2, <2>3, <2>4, HookReadinessType, DiesReadinessType, StartingIsSilent
<1>3. CASE PrismaOnModuleInit(x)
  <2>1. HookDone(x, "database", process[x]) \/ Dies(x)
    BY <1>3 DEF PrismaOnModuleInit
  <2>2. "database" \in process[x].hooks /\ UNCHANGED << services, released, probe, vouched >>
    BY <1>3 DEF PrismaOnModuleInit
  <2> QED
    BY <1>0, <2>1, <2>2, HookReadinessType, DiesReadinessType, StartingIsSilent
<1>4. CASE RegistryOnModuleInit(x)
  <2> DEFINE loaded == IF Config[x].datasets.releaseSources = {} THEN released
                         ELSE released \cap Config[x].datasets.releaseSources
             p == [process[x] EXCEPT !.loaded = loaded]
  <2>1. HookDone(x, "releases", p) \/ Dies(x)
    BY <1>4 DEF RegistryOnModuleInit
  <2>2. "releases" \in process[x].hooks /\ UNCHANGED << services, released, probe, vouched >>
    BY <1>4 DEF RegistryOnModuleInit
  <2>3. loaded \in SUBSET Source
    BY DEF ReadinessType
  <2> HIDE DEF loaded
  <2>4. p \in Process /\ p.hooks = process[x].hooks /\ p.state = process[x].state
    BY <1>0, <2>3 DEF Process
  <2> HIDE DEF p
  <2> QED
    BY <1>0, <2>1, <2>2, <2>4, HookReadinessType, DiesReadinessType, StartingIsSilent
<1> QED
  BY <1>1, <1>2, <1>3, <1>4 DEF StartStep

\* A process whose connections alone change, and the probe that it answers.
LEMMA ProbeReadinessType ==
  ASSUME ReadinessType, NEW x \in Api, process[x].state = "up",
         NEW q \in Probe \cup {None}, probe' = [probe EXCEPT ![x] = q],
         NEW v \in {"never", "once", "now"}, vouched' = [vouched EXCEPT ![x] = v],
         NEW p \in Process, process' = [process EXCEPT ![x] = p],
         p.state = process[x].state, p.hooks = process[x].hooks,
         UNCHANGED << services, released >>
  PROVE  ReadinessType'
<1>1. /\ process \in [Api -> Process] /\ probe \in [Api -> Probe \cup {None}]
      /\ vouched \in [Api -> {"never", "once", "now"}]
      /\ \A z \in Api : process[z].hooks # {} <=> process[z].state = "starting"
      /\ \A z \in Api : vouched[z] # "never" \/ probe[z] # None => process[z].state = "up"
  BY DEF ReadinessType
<1>2. /\ process' \in [Api -> Process] /\ probe' \in [Api -> Probe \cup {None}]
      /\ vouched' \in [Api -> {"never", "once", "now"}]
  BY <1>1
<1>3. \A z \in Api : process'[z].state = process[z].state /\ process'[z].hooks = process[z].hooks
  BY <1>1
<1>4. \A z \in Api : process'[z].hooks # {} <=> process'[z].state = "starting"
  BY <1>1, <1>3
<1>5. \A z \in Api : vouched'[z] # "never" \/ probe'[z] # None => process'[z].state = "up"
  BY <1>1, <1>3
<1>6. /\ redisUp' \in BOOLEAN /\ databaseUp' \in BOOLEAN
      /\ row' \in Row \cup {None} /\ released' \subseteq Source
  BY Zenon DEF ReadinessType, services
<1> QED
  BY <1>2, <1>4, <1>5, <1>6, Zenon DEF ReadinessType

\* What the answer to a probe does to the history.
LEMMA AnswerVouches ==
  ASSUME ReadinessType, NEW x \in Api, NEW redis, NEW database, Answer(x, redis, database)
  PROVE  \E v \in {"never", "once", "now"} :
           /\ vouched' = [vouched EXCEPT ![x] = v]
           /\ IF IsReady(x, redis, database)
                THEN v = "now" => probe[x].calm
                ELSE v # "now" /\ (v # "never" => vouched[x] # "never")
<1>1. vouched \in [Api -> {"never", "once", "now"}]
  BY DEF ReadinessType
<1> DEFINE v == IF IsReady(x, redis, database)
                  THEN IF probe[x].calm THEN "now" ELSE "once"
                  ELSE IF vouched[x] = "never" THEN "never" ELSE "once"
<1>2. vouched' = [vouched EXCEPT ![x] = v]
  BY DEF Answer
<1>3. v \in {"never", "once", "now"}
  OBVIOUS
<1>4. IF IsReady(x, redis, database)
        THEN v = "now" => probe[x].calm
        ELSE v # "now" /\ (v # "never" => vouched[x] # "never")
  OBVIOUS
<1> HIDE DEF v
<1> QED
  BY <1>2, <1>3, <1>4

LEMMA ProbingReadinessType ==
  ASSUME ReadinessType, NEW x \in Api, BeginProbe(x) \/ ProbeStep(x)
  PROVE  ReadinessType'
<1>0. /\ process \in [Api -> Process] /\ process[x] \in Process
      /\ vouched \in [Api -> {"never", "once", "now"}] /\ vouched[x] \in {"never", "once", "now"}
      /\ probe \in [Api -> Probe \cup {None}] /\ probe[x] \in Probe \cup {None}
      /\ probe[x] # None => process[x].state = "up"
      /\ process = [process EXCEPT ![x] = process[x]]
      /\ vouched = [vouched EXCEPT ![x] = vouched[x]]
  BY DEF ReadinessType
<1>1. CASE BeginProbe(x)
  <2>1. [step |-> "redis", redis |-> None, calm |-> TRUE] \in Probe
    BY DEF Probe
  <2> QED
    BY <1>0, <1>1, <2>1, ProbeReadinessType DEF BeginProbe
<1>2. CASE CheckRedis(x)
  <2>1. probe[x] \in Probe /\ process[x].state = "up"
    BY <1>0, <1>2 DEF CheckRedis, Probing
  <2>2. PICK r \in {"up", "down", "disabled"} :
          probe' = [probe EXCEPT ![x] = [probe[x] EXCEPT !.step = "database", !.redis = r]]
    BY <1>0, <1>2 DEF CheckRedis
  <2>3. [probe[x] EXCEPT !.step = "database", !.redis = r] \in Probe
    BY <2>1 DEF Probe
  <2>4. PICK c \in ConnectionStates :
          process' = [process EXCEPT ![x] = [process[x] EXCEPT !.redis = c]]
    <3>1. CASE process' = process
      <4>1. /\ process[x].redis \in ConnectionStates
            /\ process[x] = [process[x] EXCEPT !.redis = process[x].redis]
        BY <1>0 DEF Process
      <4> QED
        BY <1>0, <3>1, <4>1
    <3>2. ASSUME NEW ok \in BOOLEAN, process' = [process EXCEPT ![x].redis = Used(ok)]
          PROVE  \E c \in ConnectionStates :
                   process' = [process EXCEPT ![x] = [process[x] EXCEPT !.redis = c]]
      <4>1. Used(ok) \in ConnectionStates
        BY DEF Used, ConnectionStates
      <4> QED
        BY <1>0, <3>2, <4>1
    <3> QED
      BY <1>2, <3>1, <3>2 DEF CheckRedis, Reaches
  <2>5. /\ [process[x] EXCEPT !.redis = c] \in Process
        /\ [process[x] EXCEPT !.redis = c].state = process[x].state
        /\ [process[x] EXCEPT !.redis = c].hooks = process[x].hooks
    BY <1>0 DEF Process
  <2>6. UNCHANGED << services, released, vouched >>
    BY <1>2 DEF CheckRedis
  <2> QED
    BY <1>0, <2>1, <2>2, <2>3, <2>4, <2>5, <2>6, ProbeReadinessType
<1>3. ASSUME NEW redis, NEW database, Answer(x, redis, database), probe[x] # None,
             UNCHANGED << services, released, process >>
      PROVE  ReadinessType'
  <2>1. PICK v \in {"never", "once", "now"} : vouched' = [vouched EXCEPT ![x] = v]
    BY <1>3, AnswerVouches
  <2>2. probe' = [probe EXCEPT ![x] = None]
    BY <1>3 DEF Answer
  <2> QED
    BY <1>0, <1>3, <2>1, <2>2, ProbeReadinessType
<1>4. CASE CheckDatabase(x)
  <2>1. CASE probe' = [probe EXCEPT ![x].step = "model"] /\ UNCHANGED vouched
    <3>1. probe[x] \in Probe /\ process[x].state = "up"
      BY <1>0, <1>4 DEF CheckDatabase, Probing
    <3>2. [probe[x] EXCEPT !.step = "model"] \in Probe
      BY <3>1 DEF Probe
    <3>3. probe' = [probe EXCEPT ![x] = [probe[x] EXCEPT !.step = "model"]]
      BY <2>1
    <3> QED
      BY <1>0, <1>4, <2>1, <3>1, <3>2, <3>3, ProbeReadinessType DEF CheckDatabase
  <2> QED
    BY <1>3, <1>4, <2>1 DEF CheckDatabase, Probing
<1>5. CASE CheckPinnedReadModel(x)
  BY <1>3, <1>5 DEF CheckPinnedReadModel, Probing
<1> QED
  BY <1>1, <1>2, <1>4, <1>5 DEF ProbeStep

\* A connection of a process changes, and nothing else.
LEMMA ConnectionReadinessType ==
  ASSUME ReadinessType, NEW x \in Api, NEW c \in Connections, NEW s \in ConnectionStates,
         process' = [process EXCEPT ![x][c] = s],
         UNCHANGED << services, released, probe, vouched >>
  PROVE  /\ ReadinessType'
         /\ \A z \in Api : /\ process'[z].state = process[z].state
                           /\ process'[z].loaded = process[z].loaded
<1>1. /\ process \in [Api -> Process] /\ process[x] \in Process
      /\ \A z \in Api : process[z].hooks # {} <=> process[z].state = "starting"
      /\ \A z \in Api : vouched[z] # "never" \/ probe[z] # None => process[z].state = "up"
  BY DEF ReadinessType
<1> DEFINE p == [process[x] EXCEPT ![c] = s]
<1>2. /\ p \in Process /\ p.state = process[x].state /\ p.hooks = process[x].hooks
      /\ p.loaded = process[x].loaded
  BY <1>1 DEF Process, Connections
<1>3. process' = [process EXCEPT ![x] = p]
  BY <1>1
<1> HIDE DEF p
<1>4. /\ process' \in [Api -> Process]
      /\ \A z \in Api : /\ process'[z].state = process[z].state
                        /\ process'[z].hooks = process[z].hooks
                        /\ process'[z].loaded = process[z].loaded
  BY <1>1, <1>2, <1>3
<1>5. /\ \A z \in Api : process'[z].hooks # {} <=> process'[z].state = "starting"
      /\ \A z \in Api : vouched'[z] # "never" \/ probe'[z] # None => process'[z].state = "up"
  BY <1>1, <1>4
<1>6. /\ redisUp' \in BOOLEAN /\ databaseUp' \in BOOLEAN
      /\ row' \in Row \cup {None} /\ released' \subseteq Source
      /\ probe' \in [Api -> Probe \cup {None}]
      /\ vouched' \in [Api -> {"never", "once", "now"}]
  BY Zenon DEF ReadinessType, services
<1> QED
  BY <1>4, <1>5, <1>6, Zenon DEF ReadinessType

-----------------------------------------------------------------------------
(* The quota.                                                              *)

\* A bucket is blocked if it has counted one hit more than the limit.
BucketType ==
  /\ bucket \in [Storage -> [Tracker -> Bucket]]
  /\ spent \in [Client -> 0 .. Limit + 1]
  /\ \A s \in Storage, t \in Tracker : bucket[s][t].blocked <=> bucket[s][t].hits = Limit + 1

\* No two clients are taken for one.
ClientsApart == \A c, d \in Client : c # d => Trackers(c) \cap Trackers(d) = {}

\* No bucket of a client has counted more than it was charged for.
HitsAreCharged ==
  \A s \in Storage, c \in Client :
    \A t \in Trackers(c) : bucket[s][t].hits <= spent[c]

\* Where all processes count in Redis, it has counted all that clients were
\* charged for, and their memories nothing.
ChargesAreHits ==
  /\ \A c \in Client : \A t \in Trackers(c) :
       ~ bucket["redis"][t].blocked => spent[c] <= bucket["redis"][t].hits
  /\ \A x \in Api, t \in Tracker : bucket[x][t] = EmptyBucket

QuotaInv ==
  /\ BucketType
  /\ ClientsApart => HitsAreCharged
  /\ SharedQuota => ChargesAreHits

Unspent ==
  UNCHANGED << bucket, spent >>

Charged(x, r) ==
  /\ x \in Api /\ r \in Request
  /\ Count(StorageOf(x, Config[x].redis), x, r)

Forgotten(x) ==
  /\ x \in Api
  /\ bucket' = [bucket EXCEPT ![x] = [t \in Tracker |-> EmptyBucket]]
  /\ spent' = spent

\* All that a step can do to the quota.
LEMMA StepsQuota ==
  ASSUME [Next]_opsVars
  PROVE  \/ Unspent
         \/ \E x, r : Charged(x, r)
         \/ \E x : Forgotten(x)
         \/ \E s \in Storage, t \in Tracker : WindowEnds(s, t)
<1>1. CASE SyncBegins \/ SyncStep \/ SyncEnds
  BY <1>1 DEF SyncBegins, SyncStep, SyncEnds, Unspent
<1>2. CASE ServicesChange \/ \E s \in Source : ArtifactsChange(s)
  BY <1>2 DEF ServicesChange, ArtifactsChange, Unspent
<1>3. ASSUME NEW x \in Api, ProcessStep(x)
      PROVE  Unspent
  BY <1>3 DEF ProcessStep, Unspent
<1>4. ASSUME NEW x \in Api, ProcessStops(x)
      PROVE  Forgotten(x)
  BY <1>4 DEF ProcessStops, Forgotten
<1>5. ASSUME NEW k \in Slot, NEW x \in Api, NEW r \in Request,
             ReceiveUncounted(k, x, r) \/ StorageFails(k, x, r)
      PROVE  Unspent
  BY <1>5 DEF ReceiveUncounted, StorageFails, Unspent
<1>6. ASSUME NEW k \in Slot, NEW x \in Api, NEW r \in Request, ReceiveCounted(k, x, r)
      PROVE  Charged(x, r)
  BY <1>6 DEF ReceiveCounted, Charge, Charged
<1>7. ASSUME NEW k \in Slot, NEW x \in Api, NEW r \in Request, ReplyLost(k, x, r)
      PROVE  Charged(x, r)
  BY <1>7 DEF ReplyLost, Charged, StorageOf
<1>8. ASSUME NEW k \in Slot, Handle(k) \/ Deliver(k)
      PROVE  Unspent
  BY <1>8 DEF Handle, Deliver, Unspent
<1>9. CASE UNCHANGED opsVars
  BY <1>9 DEF opsVars, Unspent
<1> QED
  BY <1>1, <1>2, <1>3, <1>4, <1>5, <1>6, <1>7, <1>8, <1>9 DEF Next

LEMMA EmptyIsBucket ==
  EmptyBucket \in Bucket /\ EmptyBucket.hits = 0 /\ ~ EmptyBucket.blocked
  BY GatewayAssumption DEF EmptyBucket, Bucket

LEMMA IncrementCounts ==
  ASSUME NEW b \in Bucket, b.blocked <=> b.hits = Limit + 1
  PROVE  /\ Increment(b) \in Bucket
         /\ Increment(b).blocked <=> Increment(b).hits = Limit + 1
         /\ b.hits <= Increment(b).hits /\ Increment(b).hits <= b.hits + 1
         /\ ~ Increment(b).blocked => ~ b.blocked /\ Increment(b).hits = b.hits + 1
<1>1. Limit \in Nat \ {0} /\ b.hits \in 0 .. Limit + 1 /\ b.blocked \in BOOLEAN
  BY GatewayAssumption DEF Bucket
<1>2. CASE b.blocked
  <2>1. Increment(b) = b
    BY <1>2 DEF Increment
  <2> QED
    BY <1>1, <1>2, <2>1
<1>3. CASE ~ b.blocked
  <2>1. Increment(b) = [hits |-> b.hits + 1, blocked |-> b.hits = Limit]
    BY <1>3 DEF Increment
  <2>2. b.hits + 1 \in 0 .. Limit + 1
    BY <1>1, <1>3
  <2>3. Increment(b).hits = b.hits + 1
    BY <2>1
  <2>4. Increment(b) \in Bucket
    BY <2>1, <2>2 DEF Bucket
  <2>5. Increment(b).blocked = (b.hits = Limit)
    BY <2>1
  <2>6. Increment(b).blocked <=> b.hits = Limit
    BY <2>5, Zenon
  <2>7. b.hits = Limit <=> b.hits + 1 = Limit + 1
    BY <1>1
  <2>8. Increment(b).blocked <=> Increment(b).hits = Limit + 1
    BY <2>3, <2>6, <2>7, Zenon
  <2>9. b.hits <= Increment(b).hits /\ Increment(b).hits <= b.hits + 1
    BY <1>1, <2>3
  <2> QED
    BY <1>3, <2>3, <2>4, <2>8, <2>9, Zenon
<1> QED
  BY <1>2, <1>3

LEMMA TrackersAreTrackers ==
  ASSUME NEW x \in Api, NEW c \in Client
  PROVE  TrackerOf(x, c) \in Trackers(c) /\ Trackers(c) \subseteq Tracker
  BY DEF Trackers, Tracker

\* Where the quota is shared, a client has one tracker.
LEMMA OneTracker ==
  ASSUME SharedQuota, NEW c \in Client, NEW t \in Trackers(c), NEW u \in Trackers(c)
  PROVE  t = u
<1>1. PICK x \in Api : t = TrackerOf(x, c)
  BY DEF Trackers
<1>2. PICK y \in Api : u = TrackerOf(y, c)
  BY DEF Trackers
<1>3. Config[x].app.trustProxy = Config[y].app.trustProxy
  BY DEF SharedQuota
<1> QED
  BY <1>1, <1>2, <1>3 DEF TrackerOf

\* What counting does.
LEMMA CountCounts ==
  ASSUME BucketType, NEW store \in Storage, NEW x \in Api, NEW r \in Request,
         Count(store, x, r)
  PROVE  LET t == TrackerOf(x, r.client)
             c == r.client
         IN  /\ c \in Client /\ t \in Trackers(c) /\ t \in Tracker
             /\ BucketType'
             /\ bucket'[store][t] = Increment(bucket[store][t])
             /\ \A s \in Storage, u \in Tracker :
                  s # store \/ u # t => bucket'[s][u] = bucket[s][u]
             /\ spent[c] <= Limit => spent'[c] = spent[c] + 1
             /\ spent[c] > Limit => spent'[c] = spent[c]
             /\ \A d \in Client : d # c => spent'[d] = spent[d]
<1> DEFINE c == r.client
           t == TrackerOf(x, c)
<1>1. c \in Client /\ t \in Trackers(c) /\ t \in Tracker
  BY OperationsAssumption, TrackersAreTrackers
<1>2. /\ bucket \in [Storage -> [Tracker -> Bucket]]
      /\ spent \in [Client -> 0 .. Limit + 1]
      /\ Limit \in Nat
  BY GatewayAssumption DEF BucketType
<1>3. /\ bucket' = [bucket EXCEPT ![store][t] = Increment(bucket[store][t])]
      /\ spent' = [spent EXCEPT ![c] = IF spent[c] > Limit THEN spent[c] ELSE spent[c] + 1]
  BY DEF Count
<1> HIDE DEF t, c
<1>4. /\ Increment(bucket[store][t]) \in Bucket
      /\ Increment(bucket[store][t]).blocked <=> Increment(bucket[store][t]).hits = Limit + 1
  BY <1>1, <1>2, IncrementCounts DEF BucketType
<1>5. /\ bucket' \in [Storage -> [Tracker -> Bucket]]
      /\ bucket'[store][t] = Increment(bucket[store][t])
      /\ \A s \in Storage, u \in Tracker :
           s # store \/ u # t => bucket'[s][u] = bucket[s][u]
  BY <1>1, <1>2, <1>3, <1>4
<1>6. /\ spent' \in [Client -> 0 .. Limit + 1]
      /\ spent[c] <= Limit => spent'[c] = spent[c] + 1
      /\ spent[c] > Limit => spent'[c] = spent[c]
      /\ \A d \in Client : d # c => spent'[d] = spent[d]
  BY <1>1, <1>2, <1>3
<1>7. \A s \in Storage, u \in Tracker : bucket'[s][u].blocked <=> bucket'[s][u].hits = Limit + 1
  <2> TAKE s \in Storage, u \in Tracker
  <2>1. CASE s = store /\ u = t
    BY <1>4, <1>5, <2>1
  <2>2. CASE s # store \/ u # t
    BY <1>5, <2>2 DEF BucketType
  <2> QED
    BY <2>1, <2>2
<1>8. BucketType'
  BY <1>5, <1>6, <1>7 DEF BucketType
<1> QED
  BY <1>1, <1>5, <1>6, <1>8 DEF t, c

LEMMA ChargedQuotaInv ==
  ASSUME QuotaInv, NEW x, NEW r, Charged(x, r)
  PROVE  QuotaInv'
<1> DEFINE store == StorageOf(x, Config[x].redis)
           c == r.client
           t == TrackerOf(x, c)
<1>0. x \in Api /\ r \in Request /\ Count(store, x, r) /\ store \in Storage
  BY DEF Charged, StorageOf, Storage
<1>1. BucketType /\ Limit \in Nat \ {0}
  BY GatewayAssumption DEF QuotaInv
<1>2. /\ c \in Client /\ t \in Trackers(c) /\ t \in Tracker
      /\ BucketType'
      /\ bucket'[store][t] = Increment(bucket[store][t])
      /\ \A s \in Storage, u \in Tracker :
           s # store \/ u # t => bucket'[s][u] = bucket[s][u]
      /\ spent[c] <= Limit => spent'[c] = spent[c] + 1
      /\ spent[c] > Limit => spent'[c] = spent[c]
      /\ \A d \in Client : d # c => spent'[d] = spent[d]
  BY <1>0, <1>1, CountCounts
<1>3. /\ bucket[store][t] \in Bucket
      /\ bucket[store][t].blocked <=> bucket[store][t].hits = Limit + 1
  BY <1>0, <1>1, <1>2 DEF BucketType
<1>4. /\ bucket[store][t].hits <= bucket'[store][t].hits
      /\ bucket'[store][t].hits <= bucket[store][t].hits + 1
      /\ ~ bucket'[store][t].blocked =>
           ~ bucket[store][t].blocked /\ bucket'[store][t].hits = bucket[store][t].hits + 1
  BY <1>2, <1>3, IncrementCounts
<1>5. /\ \A s \in Storage, u \in Tracker : bucket[s][u].hits \in 0 .. Limit + 1
      /\ \A s \in Storage, u \in Tracker : bucket'[s][u].hits \in 0 .. Limit + 1
      /\ \A d \in Client : spent[d] \in 0 .. Limit + 1 /\ spent'[d] \in 0 .. Limit + 1
  BY <1>1, <1>2 DEF BucketType, Bucket
<1>6. \A d \in Client : Trackers(d) \subseteq Tracker
  BY DEF Tracker
<1> HIDE DEF store, t, c
<1>7. ASSUME ClientsApart, HitsAreCharged
      PROVE  HitsAreCharged'
  <2> SUFFICES ASSUME NEW s \in Storage, NEW d \in Client, NEW u \in Trackers(d)
               PROVE  bucket'[s][u].hits <= spent'[d]
    BY DEF HitsAreCharged, Trackers, TrackerOf
  <2>1. u \in Tracker /\ bucket[s][u].hits <= spent[d]
    BY <1>6, <1>7 DEF HitsAreCharged
  <2>2. CASE s = store /\ u = t
    <3>1. d = c
      BY <1>2, <1>7, <2>2 DEF ClientsApart
    <3> QED
      BY <1>0, <1>1, <1>2, <1>4, <1>5, <2>1, <2>2, <3>1
  <2>3. CASE s # store \/ u # t
    <3>1. spent[d] <= spent'[d]
      BY <1>1, <1>2, <1>5
    <3> QED
      BY <1>2, <1>5, <2>1, <2>3, <3>1
  <2> QED
    BY <2>2, <2>3
<1>8. ASSUME SharedQuota, ChargesAreHits
      PROVE  ChargesAreHits'
  <2>1. store = "redis" /\ "redis" \in Storage
    BY <1>0, <1>8 DEF SharedQuota, store, StorageOf, Storage
  <2>2. ASSUME NEW d \in Client, NEW u \in Trackers(d), ~ bucket'["redis"][u].blocked
        PROVE  spent'[d] <= bucket'["redis"][u].hits
    <3>1. u \in Tracker
      BY <1>6
    <3>2. CASE u = t
      <4>1. spent[d] <= bucket["redis"][u].hits
        BY <1>4, <1>8, <2>1, <2>2, <3>2 DEF ChargesAreHits
      <4>2. spent'[d] <= spent[d] + 1
        BY <1>1, <1>2, <1>5
      <4> QED
        BY <1>4, <1>5, <2>1, <2>2, <3>1, <3>2, <4>1, <4>2
    <3>3. CASE u # t
      <4>1. d # c
        BY <1>2, <1>8, <3>3, OneTracker
      <4>2. bucket'["redis"][u] = bucket["redis"][u] /\ spent'[d] = spent[d]
        BY <1>2, <2>1, <3>1, <3>3, <4>1
      <4> QED
        BY <1>8, <2>2, <4>2 DEF ChargesAreHits
    <3> QED
      BY <3>2, <3>3
  <2>3. ASSUME NEW y \in Api, NEW u \in Tracker
        PROVE  bucket'[y][u] = EmptyBucket
    BY <1>2, <1>8, <2>1, OperationsAssumption DEF ChargesAreHits, Storage
  <2> QED
    BY <2>2, <2>3 DEF ChargesAreHits, Trackers, TrackerOf, Tracker
<1> QED
  BY <1>2, <1>7, <1>8 DEF QuotaInv, ClientsApart, SharedQuota, Trackers, TrackerOf

LEMMA ForgottenQuotaInv ==
  ASSUME QuotaInv, NEW x, Forgotten(x)
  PROVE  QuotaInv'
<1>1. /\ x \in Api /\ x \in Storage /\ x # "redis" /\ spent' = spent
      /\ bucket' = [bucket EXCEPT ![x] = [t \in Tracker |-> EmptyBucket]]
  BY OperationsAssumption DEF Forgotten, Storage
<1>2. /\ bucket \in [Storage -> [Tracker -> Bucket]]
      /\ spent \in [Client -> 0 .. Limit + 1]
      /\ \A s \in Storage, t \in Tracker :
           bucket[s][t].blocked <=> bucket[s][t].hits = Limit + 1
      /\ Limit \in Nat
  BY GatewayAssumption DEF QuotaInv, BucketType
<1>3. /\ \A t \in Tracker : bucket'[x][t] = EmptyBucket
      /\ \A s \in Storage, t \in Tracker : s # x => bucket'[s][t] = bucket[s][t]
  BY <1>1, <1>2
<1>4. BucketType'
  <2>1. bucket' \in [Storage -> [Tracker -> Bucket]]
    BY <1>1, <1>2, EmptyIsBucket
  <2>2. \A s \in Storage, t \in Tracker : bucket'[s][t].blocked <=> bucket'[s][t].hits = Limit + 1
    BY <1>2, <1>3, EmptyIsBucket
  <2> QED
    BY <1>1, <1>2, <2>1, <2>2 DEF BucketType
<1>5. \A d \in Client : Trackers(d) \subseteq Tracker /\ spent[d] \in Nat
  BY <1>2 DEF Tracker
<1>6. HitsAreCharged => HitsAreCharged'
  BY <1>1, <1>3, <1>5, EmptyIsBucket DEF HitsAreCharged, Trackers, TrackerOf
<1>7. ChargesAreHits => ChargesAreHits'
  <2> SUFFICES ASSUME ChargesAreHits PROVE ChargesAreHits'
    OBVIOUS
  <2>1. \A t \in Tracker : bucket'["redis"][t] = bucket["redis"][t]
    BY <1>1, <1>3 DEF Storage
  <2>2. \A y \in Api, t \in Tracker : bucket'[y][t] = EmptyBucket
    BY <1>3 DEF ChargesAreHits, Storage
  <2> QED
    BY <1>1, <1>5, <2>1, <2>2 DEF ChargesAreHits, Trackers, TrackerOf, Tracker
<1> QED
  BY <1>4, <1>6, <1>7 DEF QuotaInv, ClientsApart, SharedQuota, Trackers, TrackerOf

LEMMA WindowQuotaInv ==
  ASSUME QuotaInv, NEW s \in Storage, NEW t \in Tracker, WindowEnds(s, t)
  PROVE  QuotaInv'
<1>1. /\ bucket[s][t] # EmptyBucket
      /\ bucket' = [bucket EXCEPT ![s][t] = EmptyBucket]
      /\ spent' = [c \in Client |->
                     IF /\ t \in Trackers(c)
                        /\ \A z \in Storage, u \in Trackers(c) : bucket'[z][u] = EmptyBucket
                       THEN 0 ELSE spent[c]]
  BY DEF WindowEnds
<1>2. /\ bucket \in [Storage -> [Tracker -> Bucket]]
      /\ spent \in [Client -> 0 .. Limit + 1]
      /\ \A z \in Storage, u \in Tracker :
           bucket[z][u].blocked <=> bucket[z][u].hits = Limit + 1
      /\ Limit \in Nat
  BY GatewayAssumption DEF QuotaInv, BucketType
<1>3. /\ bucket'[s][t] = EmptyBucket
      /\ \A z \in Storage, u \in Tracker : z # s \/ u # t => bucket'[z][u] = bucket[z][u]
  BY <1>1, <1>2
<1>4. BucketType'
  <2>1. bucket' \in [Storage -> [Tracker -> Bucket]]
    BY <1>1, <1>2, EmptyIsBucket
  <2>2. \A z \in Storage, u \in Tracker : bucket'[z][u].blocked <=> bucket'[z][u].hits = Limit + 1
    BY <1>2, <1>3, EmptyIsBucket
  <2>3. spent' \in [Client -> 0 .. Limit + 1]
    BY <1>1, <1>2
  <2> QED
    BY <2>1, <2>2, <2>3 DEF BucketType
<1>5. \A d \in Client : Trackers(d) \subseteq Tracker /\ spent[d] \in Nat
  BY <1>2 DEF Tracker
<1>6. HitsAreCharged => HitsAreCharged'
  <2> SUFFICES ASSUME HitsAreCharged, NEW z \in Storage, NEW d \in Client, NEW u \in Trackers(d)
               PROVE  bucket'[z][u].hits <= spent'[d]
    BY DEF HitsAreCharged, Trackers, TrackerOf
  <2>1. u \in Tracker
    BY <1>5
  <2>2. CASE spent'[d] = spent[d]
    BY <1>3, <1>5, <2>1, <2>2, EmptyIsBucket DEF HitsAreCharged
  <2>3. CASE spent'[d] # spent[d]
    <3>1. spent'[d] = 0 /\ bucket'[z][u] = EmptyBucket
      BY <1>1, <2>3
    <3> QED
      BY <3>1, EmptyIsBucket
  <2> QED
    BY <2>2, <2>3
<1>7. ASSUME SharedQuota, ChargesAreHits
      PROVE  ChargesAreHits'
  <2>1. s = "redis" /\ "redis" \notin Api
    BY <1>1, <1>7, OperationsAssumption DEF ChargesAreHits, Storage
  <2>2. \A y \in Api, u \in Tracker : bucket'[y][u] = EmptyBucket
    BY <1>3, <1>7, <2>1 DEF ChargesAreHits, Storage
  <2>3. ASSUME NEW d \in Client, NEW u \in Trackers(d), ~ bucket'["redis"][u].blocked
        PROVE  spent'[d] <= bucket'["redis"][u].hits
    <3>1. u \in Tracker
      BY <1>5
    <3>2. CASE u = t
      <4>1. \A w \in Trackers(d) : w = t /\ w \in Tracker
        BY <1>5, <1>7, <3>2, OneTracker
      <4>2. \A z \in Storage, w \in Trackers(d) : bucket'[z][w] = EmptyBucket
        BY <1>3, <2>1, <2>2, <4>1 DEF Storage
      <4>3. spent'[d] = 0
        BY <1>1, <3>2, <4>2
      <4> QED
        BY <1>3, <2>1, <3>2, <4>3, EmptyIsBucket
    <3>3. CASE u # t
      <4>1. t \notin Trackers(d)
        BY <1>7, <3>3, OneTracker
      <4>2. spent'[d] = spent[d] /\ bucket'["redis"][u] = bucket["redis"][u]
        BY <1>1, <1>3, <2>1, <3>1, <3>3, <4>1
      <4> QED
        BY <1>7, <2>3, <4>2 DEF ChargesAreHits
    <3> QED
      BY <3>2, <3>3
  <2> QED
    BY <2>2, <2>3 DEF ChargesAreHits, Trackers, TrackerOf, Tracker
<1> QED
  BY <1>4, <1>6, <1>7 DEF QuotaInv, ClientsApart, SharedQuota, Trackers, TrackerOf

LEMMA InitQuotaInv ==
  Init => QuotaInv
<1> SUFFICES ASSUME Init PROVE QuotaInv
  OBVIOUS
<1>1. /\ bucket = [s \in Storage |-> [t \in Tracker |-> EmptyBucket]]
      /\ spent = [c \in Client |-> 0]
      /\ Limit \in Nat
  BY GatewayAssumption DEF Init
<1>2. /\ \A d \in Client : Trackers(d) \subseteq Tracker
      /\ Api \subseteq Storage /\ "redis" \in Storage
  BY DEF Tracker, Storage
<1>3. BucketType
  BY <1>1, EmptyIsBucket DEF BucketType
<1>4. HitsAreCharged
  BY <1>1, <1>2, EmptyIsBucket DEF HitsAreCharged
<1>5. ChargesAreHits
  BY <1>1, <1>2, EmptyIsBucket DEF ChargesAreHits
<1> QED
  BY <1>3, <1>4, <1>5 DEF QuotaInv

LEMMA NextQuotaInv ==
  ASSUME QuotaInv, [Next]_opsVars
  PROVE  QuotaInv'
<1>1. CASE Unspent
  BY <1>1 DEF Unspent, QuotaInv, BucketType, HitsAreCharged, ChargesAreHits, ClientsApart,
              SharedQuota, Trackers, TrackerOf, Tracker
<1> QED
  BY <1>1, StepsQuota, ChargedQuotaInv, ForgottenQuotaInv, WindowQuotaInv

-----------------------------------------------------------------------------
(* Requests.                                                               *)

\* A request that is being answered, with the headers of its answer.
IsPlaced(p) ==
  /\ p = [ api |-> p.api, of |-> p.of, headers |-> p.headers, vouched |-> p.vouched,
           step |-> p.step, status |-> p.status, source |-> p.source ]
  /\ p.api \in Api /\ p.of \in Request
  /\ p.headers = CorsHeaders(p.of, Config[p.api].app)
  /\ p.step \in {"handler", "answered"}
  /\ p.step = "answered" /\ p.status = 204 =>
       IsPreflight(p.of) /\ PreflightStatus(p.of, Config[p.api].app) = 204

\* A place whose answer is given.
AnsweredWith(p, status, source) ==
  [p EXCEPT !.step = "answered", !.status = status, !.source = source]

LEMMA ReceivedIsPlaced ==
  ASSUME NEW x \in Api, NEW r \in Request
  PROVE  /\ IsPlaced(Received(x, r))
         /\ Received(x, r).api = x /\ Received(x, r).of = r
         /\ Received(x, r).vouched = vouched[x] /\ Received(x, r).step = "handler"
  BY DEF IsPlaced, Received

LEMMA AnsweredFields ==
  ASSUME NEW a, NEW o, NEW h, NEW v, NEW t, NEW u, NEW w, NEW status, NEW source
  PROVE  AnsweredWith([ api |-> a, of |-> o, headers |-> h, vouched |-> v,
                        step |-> t, status |-> u, source |-> w ], status, source)
           = [ api |-> a, of |-> o, headers |-> h, vouched |-> v,
               step |-> "answered", status |-> status, source |-> source ]
<1> DEFINE p == [ api |-> a, of |-> o, headers |-> h, vouched |-> v,
                  step |-> t, status |-> u, source |-> w ]
           q == AnsweredWith(p, status, source)
           F == {"api", "of", "headers", "vouched", "step", "status", "source"}
<1>1. DOMAIN p = F /\ p = [f \in F |-> p[f]]
  OBVIOUS
<1>2. q = [f \in F |-> CASE f = "step" -> "answered" [] f = "status" -> status
                       [] f = "source" -> source [] OTHER -> p[f]]
  BY <1>1 DEF AnsweredWith
<1> QED
  BY <1>2

LEMMA AnsweredIsPlaced ==
  ASSUME NEW p, IsPlaced(p), NEW status, NEW source,
         status = 204 => IsPreflight(p.of) /\ PreflightStatus(p.of, Config[p.api].app) = 204
  PROVE  LET q == AnsweredWith(p, status, source)
         IN  /\ IsPlaced(q)
             /\ q.api = p.api /\ q.of = p.of /\ q.vouched = p.vouched
             /\ q.step = "answered" /\ q.status = status /\ q.source = source
<1> DEFINE q == AnsweredWith(p, status, source)
<1>1. p = [ api |-> p.api, of |-> p.of, headers |-> p.headers, vouched |-> p.vouched,
            step |-> p.step, status |-> p.status, source |-> p.source ]
  BY DEF IsPlaced
<1>2. q = [ api |-> p.api, of |-> p.of, headers |-> p.headers, vouched |-> p.vouched,
            step |-> "answered", status |-> status, source |-> source ]
  <2> DEFINE R == [ api |-> p.api, of |-> p.of, headers |-> p.headers, vouched |-> p.vouched,
                    step |-> p.step, status |-> p.status, source |-> p.source ]
  <2>1. AnsweredWith(R, status, source)
        = [ api |-> p.api, of |-> p.of, headers |-> p.headers, vouched |-> p.vouched,
            step |-> "answered", status |-> status, source |-> source ]
    BY AnsweredFields
  <2>2. p = R
    BY <1>1
  <2> HIDE DEF R
  <2> QED
    BY <2>1, <2>2
<1>3. /\ q.api = p.api /\ q.of = p.of /\ q.headers = p.headers /\ q.vouched = p.vouched
      /\ q.step = "answered" /\ q.status = status /\ q.source = source
  BY <1>2
<1> HIDE DEF q
<1>4. IsPlaced(q)
  BY <1>2, <1>3 DEF IsPlaced
<1> QED
  BY <1>3, <1>4 DEF q

LEMMA OutdatedIsPlaced ==
  ASSUME NEW k \in Slot, request[k] # None, IsPlaced(request[k])
  PROVE  LET q == Outdated(k)
             p == request[k]
         IN  /\ IsPlaced(q)
             /\ q.api = p.api /\ q.of = p.of /\ q.step = p.step /\ q.status = p.status
             /\ q.source = p.source
             /\ q.vouched = IF p.step = "handler" /\ p.vouched = "now" THEN "once" ELSE p.vouched
<1> DEFINE p == request[k]
           q == [p EXCEPT !.vouched = "once"]
<1>1. p = [ api |-> p.api, of |-> p.of, headers |-> p.headers, vouched |-> p.vouched,
            step |-> p.step, status |-> p.status, source |-> p.source ]
  BY DEF IsPlaced
<1>2. q = [ api |-> p.api, of |-> p.of, headers |-> p.headers, vouched |-> "once",
            step |-> p.step, status |-> p.status, source |-> p.source ]
  BY <1>1
<1>3. IsPlaced(q)
  BY <1>2 DEF IsPlaced
<1>4. Outdated(k) = IF p.step = "handler" /\ p.vouched = "now" THEN q ELSE p
  BY DEF Outdated, Handling
<1> QED
  BY <1>2, <1>3, <1>4

LEMMA PendingSuccessor ==
  ASSUME request = [k \in Slot |-> request[k]], NEW k \in Slot, NEW p, Pending(k, p)
  PROVE  /\ request' = [j \in Slot |-> request'[j]]
         /\ request'[k] = p
         /\ \A j \in Slot : j # k => request'[j] = request[j]
  BY DEF Pending

LEMMA UncountedAnswers ==
  ASSUME request = [j \in Slot |-> request[j]],
         NEW k \in Slot, NEW x \in Api, NEW r \in Request, ReceiveUncounted(k, x, r)
  PROVE  /\ request' = [j \in Slot |-> request'[j]]
         /\ \A j \in Slot : j # k => request'[j] = request[j]
         /\ \/ /\ request'[k] = Received(x, r)
               /\ ~ IsPreflight(r) /\ Matched(x, r) /\ ShouldSkipFreeTierQuota(r)
            \/ \E status \in {200, 204, 403, 404} :
                 /\ request'[k] = AnsweredWith(Received(x, r), status, None)
                 /\ status = 204 => IsPreflight(r) /\ PreflightStatus(r, Config[x].app) = 204
                 /\ status = 200 => r.route = "live"
<1> DEFINE status == StatusBefore(x, r)
<1>1. /\ Takes(k, x)
      /\ IF status = None THEN Pending(k, Received(x, r))
                          ELSE AnswerWith(k, Received(x, r), status, None)
      /\ IsPreflight(r) \/ ~ Matched(x, r) \/ ShouldSkipFreeTierQuota(r)
  BY DEF ReceiveUncounted
<1>2. \/ status \in {200, 204, 403, 404}
      \/ status = None /\ ~ IsPreflight(r) /\ Matched(x, r)
  BY DEF StatusBefore, PreflightStatus
<1>3. /\ status = 204 => IsPreflight(r) /\ PreflightStatus(r, Config[x].app) = 204
      /\ status = 200 => r.route = "live"
  BY OperationsAssumption DEF StatusBefore, PreflightStatus
<1>4. None \notin {200, 204, 403, 404}
  BY OperationsAssumption
<1> HIDE DEF status
<1>5. CASE status = None
  BY <1>1, <1>2, <1>4, <1>5, PendingSuccessor
<1>6. CASE status # None
  <2>1. AnswerWith(k, Received(x, r), status, None)
    BY <1>1, <1>6
  <2>2. Pending(k, AnsweredWith(Received(x, r), status, None))
    BY <2>1 DEF AnswerWith, AnsweredWith
  <2> QED
    BY <1>2, <1>3, <1>6, <2>2, PendingSuccessor
<1> QED
  BY <1>5, <1>6

LEMMA HandleAnswers ==
  ASSUME request = [j \in Slot |-> request[j]], NEW k \in Slot, Handle(k)
  PROVE  LET x == request[k].api
             r == request[k].of
         IN  /\ request' = [j \in Slot |-> request'[j]]
             /\ \A j \in Slot : j # k => request'[j] = request[j]
             /\ Handling(k)
             /\ \/ /\ AsksDatabase(x, r) /\ ~ databaseUp
                   /\ request'[k] = AnsweredWith(request[k], 500, None)
                \/ /\ AsksDatabase(x, r) /\ databaseUp
                   /\ request'[k] = AnsweredWith(request[k], 200, "database")
                \/ /\ ~ AsksDatabase(x, r)
                   /\ \E status \in {200, 500} :
                        /\ status = 500 => r.dataset \in damaged
                        /\ request'[k] = AnsweredWith(request[k], status, "artifacts")
<1> DEFINE x == request[k].api
           r == request[k].of
<1>1. CASE AsksDatabase(x, r) /\ ~ databaseUp
  <2>1. AnswerWith(k, request[k], 500, None) /\ Handling(k)
    BY <1>1 DEF Handle
  <2> QED
    BY <1>1, <2>1, PendingSuccessor DEF AnswerWith, AnsweredWith
<1>2. CASE AsksDatabase(x, r) /\ databaseUp
  <2>1. AnswerWith(k, request[k], 200, "database") /\ Handling(k)
    BY <1>2 DEF Handle
  <2> QED
    BY <1>2, <2>1, PendingSuccessor DEF AnswerWith, AnsweredWith
<1>3. CASE ~ AsksDatabase(x, r)
  <2>1. Handling(k)
    BY DEF Handle
  <2>2. PICK status \in ArtifactStatuses(x, r) : AnswerWith(k, request[k], status, "artifacts")
    BY <1>3 DEF Handle
  <2>3. status \in {200, 500} /\ (status = 500 => r.dataset \in damaged)
    BY DEF ArtifactStatuses
  <2>4. Pending(k, AnsweredWith(request[k], status, "artifacts"))
    BY <2>2 DEF AnswerWith, AnsweredWith
  <2>5. /\ request' = [j \in Slot |-> request'[j]]
        /\ request'[k] = AnsweredWith(request[k], status, "artifacts")
        /\ \A j \in Slot : j # k => request'[j] = request[j]
    BY <2>4, PendingSuccessor
  <2> QED
    BY <1>3, <2>1, <2>3, <2>5
<1> QED
  BY <1>1, <1>2, <1>3

-----------------------------------------------------------------------------
(* What probes vouch for.                                                  *)

\* What readiness says of a process that requires all it uses.
Sound(x) ==
  /\ Config[x].redis.enabled => redisUp
  /\ HasReadModel(x) => databaseUp

VouchedInv(x) ==
  /\ /\ probe[x] # None /\ probe[x].step # "redis"
     /\ probe[x].redis = "up" /\ probe[x].calm
     => redisUp
  /\ Probing(x, "model") => HasReadModel(x)
  /\ RequiresWhatItUses(x) /\ vouched[x] = "now" => Sound(x)
  /\ RequiresWhatItUses(x) /\ vouched[x] # "never" /\ HasReadModel(x) => row # None

VouchInv == \A x \in Api : VouchedInv(x)

\* A process that is up stays up, with the releases it has loaded.
Stays(z) ==
  process[z].state = "up" =>
    process'[z].state = "up" /\ process'[z].loaded = process[z].loaded

\* Of a process whose probes and history do not change.
LEMMA StaysVouched ==
  ASSUME ReadinessType, NEW z \in Api, VouchedInv(z), Stays(z), UNCHANGED services,
         probe'[z] = probe[z], vouched'[z] = vouched[z]
  PROVE  VouchedInv(z)'
<1>1. CASE process[z].state = "up"
  BY <1>1 DEF Stays, VouchedInv, Probing, HasReadModel, RequiresWhatItUses, Sound, services
<1>2. CASE process[z].state # "up"
  <2>1. vouched[z] = "never" /\ probe[z] = None
    BY <1>2 DEF ReadinessType
  <2> QED
    BY <2>1 DEF VouchedInv, Probing
<1> QED
  BY <1>1, <1>2

\* Of all processes when a service changes.
LEMMA DisturbedVouched ==
  ASSUME ReadinessType, NEW z \in Api, VouchedInv(z), Disturbed,
         process'[z].loaded = process[z].loaded,
         row # None => row' # None
  PROVE  VouchedInv(z)'
<1>1. /\ vouched'[z] # "now"
      /\ vouched'[z] # "never" => vouched[z] # "never"
  BY DEF Disturbed, ReadinessType
<1>2. HasReadModel(z)' <=> HasReadModel(z)
  BY DEF HasReadModel
<1>3. probe[z] = None => probe'[z] = None
  BY DEF Disturbed
<1>4. ASSUME probe[z] # None
      PROVE  ~ probe'[z].calm /\ probe'[z].step = probe[z].step
  <2>1. probe[z] \in Probe /\ probe'[z] = [probe[z] EXCEPT !.calm = FALSE]
    BY <1>4 DEF Disturbed, ReadinessType
  <2> QED
    BY <2>1 DEF Probe
<1>5. Probing(z, "model")' => Probing(z, "model")
  BY <1>3, <1>4 DEF Probing
<1> QED
  BY <1>1, <1>2, <1>3, <1>4, <1>5 DEF VouchedInv, RequiresWhatItUses

\* Of a process that answers a probe.
LEMMA AnswerVouched ==
  ASSUME ReadinessType, NEW x \in Api, VouchedInv(x), NEW redis, NEW database,
         Answer(x, redis, database), UNCHANGED << services, released, process >>,
         probe[x] # None, probe[x].step # "redis", redis = probe[x].redis,
         HasReadModel(x) /\ database = "up" => databaseUp /\ row # None
  PROVE  VouchedInv(x)'
<1>1. PICK v \in {"never", "once", "now"} :
        /\ vouched' = [vouched EXCEPT ![x] = v]
        /\ IF IsReady(x, redis, database)
             THEN v = "now" => probe[x].calm
             ELSE v # "now" /\ (v # "never" => vouched[x] # "never")
  BY AnswerVouches
<1>2. vouched'[x] = v /\ probe'[x] = None
  BY <1>1 DEF Answer, ReadinessType
<1>3. /\ HasReadModel(x)' <=> HasReadModel(x)
      /\ redisUp' = redisUp /\ databaseUp' = databaseUp /\ row' = row
  BY DEF HasReadModel, services
<1>4. CASE RequiresWhatItUses(x) /\ IsReady(x, redis, database)
  <2>1. Config[x].redis.enabled => redis = "up"
    BY <1>4 DEF RequiresWhatItUses, IsReady
  <2>2. v = "now" /\ Config[x].redis.enabled => redisUp
    BY <1>1, <1>4, <2>1 DEF VouchedInv
  <2>3. HasReadModel(x) => databaseUp /\ row # None
    BY <1>4 DEF RequiresWhatItUses, IsReady, HasReadModel
  <2> QED
    BY <1>2, <1>3, <2>2, <2>3 DEF VouchedInv, Probing, Sound, RequiresWhatItUses
<1>5. CASE RequiresWhatItUses(x) /\ ~ IsReady(x, redis, database)
  BY <1>1, <1>2, <1>3, <1>5 DEF VouchedInv, Probing, RequiresWhatItUses
<1>6. CASE ~ RequiresWhatItUses(x)
  BY <1>2, <1>6 DEF VouchedInv, Probing, RequiresWhatItUses
<1> QED
  BY <1>4, <1>5, <1>6

LEMMA ProbeVouched ==
  ASSUME ReadinessType, NEW x \in Api, VouchedInv(x), BeginProbe(x) \/ ProbeStep(x)
  PROVE  VouchedInv(x)'
<1>0. /\ process \in [Api -> Process] /\ process[x] \in Process
      /\ probe \in [Api -> Probe \cup {None}]
      /\ probe[x] # None => probe[x] \in Probe
  BY DEF ReadinessType
<1>1. CASE BeginProbe(x)
  <2>1. probe'[x].step = "redis" /\ UNCHANGED << services, process, vouched >>
    BY <1>0, <1>1 DEF BeginProbe
  <2> QED
    BY <2>1 DEF VouchedInv, Probing, HasReadModel, RequiresWhatItUses, Sound, services
<1>2. CASE CheckRedis(x)
  <2>1. UNCHANGED << services, vouched >> /\ Probing(x, "redis")
    BY <1>2 DEF CheckRedis
  <2>2. process'[x].loaded = process[x].loaded
    BY <1>0, <1>2 DEF CheckRedis, Process
  <2>3. /\ probe'[x].step = "database"
        /\ probe'[x].redis = "up" => redisUp
    <3>1. probe[x] \in Probe
      BY <1>0, <2>1 DEF Probing
    <3>2. CASE ~ Config[x].redis.enabled
      <4>1. probe' = [probe EXCEPT ![x] = [probe[x] EXCEPT !.step = "database",
                                                           !.redis = "disabled"]]
        BY <1>2, <3>2 DEF CheckRedis
      <4> QED
        BY <1>0, <3>1, <4>1 DEF Probe
    <3>3. CASE Config[x].redis.enabled
      <4>1. PICK ok \in Reaches(x, process[x].redis) :
              probe' = [probe EXCEPT ![x] = [probe[x] EXCEPT !.step = "database",
                                                             !.redis = IF ok THEN "up" ELSE "down"]]
        BY <1>2, <3>3 DEF CheckRedis
      <4>2. probe'[x].step = "database" /\ probe'[x].redis = IF ok THEN "up" ELSE "down"
        BY <1>0, <3>1, <4>1 DEF Probe
      <4>3. ~ redisUp => ~ ok
        BY <4>1 DEF Reaches
      <4> QED
        BY <4>2, <4>3
    <3> QED
      BY <3>2, <3>3
  <2>4. HasReadModel(x)' <=> HasReadModel(x)
    BY <2>2 DEF HasReadModel
  <2> QED
    BY <2>1, <2>3, <2>4 DEF VouchedInv, Probing, RequiresWhatItUses, Sound, services
<1>3. CASE CheckDatabase(x)
  <2>1. CASE HasReadModel(x) /\ databaseUp /\ probe' = [probe EXCEPT ![x].step = "model"]
             /\ UNCHANGED vouched
    <3>1. probe[x] \in Probe /\ probe[x].step = "database"
      BY <1>0, <1>3 DEF CheckDatabase, Probing
    <3>2. probe'[x] = [probe[x] EXCEPT !.step = "model"]
      BY <1>0, <2>1
    <3>3. probe'[x].redis = probe[x].redis /\ probe'[x].calm = probe[x].calm
      BY <3>1, <3>2 DEF Probe
    <3>4. UNCHANGED << services, process, vouched >>
      BY <1>3, <2>1 DEF CheckDatabase
    <3>5. /\ HasReadModel(x)' <=> HasReadModel(x)
          /\ Sound(x)' <=> Sound(x)
          /\ redisUp' = redisUp /\ row' = row /\ vouched' = vouched
      BY <3>4 DEF HasReadModel, Sound, services
    <3>6. /\ probe[x] # None /\ probe[x].step # "redis"
      BY <1>3, <3>1 DEF CheckDatabase, Probing
    <3>7. probe'[x].redis = "up" /\ probe'[x].calm => redisUp'
      BY <3>3, <3>5, <3>6 DEF VouchedInv
    <3> QED
      BY <2>1, <3>5, <3>7 DEF VouchedInv, RequiresWhatItUses
  <2>2. ASSUME HasReadModel(x) => ~ databaseUp,
               Answer(x, probe[x].redis,
                      CASE ~ Config[x].database.enabled -> "disabled"
                        [] Config[x].database.enabled /\ databaseUp -> "up"
                        [] OTHER -> "down")
        PROVE  VouchedInv(x)'
    <3> DEFINE database == CASE ~ Config[x].database.enabled -> "disabled"
                             [] Config[x].database.enabled /\ databaseUp -> "up"
                             [] OTHER -> "down"
    <3>1. HasReadModel(x) => database # "up"
      BY <2>2 DEF HasReadModel
    <3>2. Answer(x, probe[x].redis, database)
      BY <2>2
    <3>3. /\ probe[x] # None /\ probe[x].step = "database"
          /\ UNCHANGED << services, released, process >>
      BY <1>3 DEF CheckDatabase, Probing
    <3> HIDE DEF database
    <3> QED
      BY <3>1, <3>2, <3>3, AnswerVouched
  <2> QED
    BY <1>3, <2>1, <2>2 DEF CheckDatabase
<1>4. CASE CheckPinnedReadModel(x)
  <2> DEFINE database == IF databaseUp /\ IsPinned(row) THEN "up" ELSE "down"
  <2>1. /\ Answer(x, probe[x].redis, database)
        /\ probe[x] # None /\ probe[x].step = "model"
        /\ UNCHANGED << services, released, process >>
    BY <1>4 DEF CheckPinnedReadModel, Probing
  <2>2. database = "up" => databaseUp /\ row # None
    BY DEF IsPinned
  <2> HIDE DEF database
  <2> QED
    BY <2>1, <2>2, AnswerVouched
<1> QED
  BY <1>1, <1>2, <1>3, <1>4 DEF ProbeStep

\* What every process is vouched for after a step.
Quiet ==
  /\ UNCHANGED << services, probe, vouched >>
  /\ \A z \in Api : Stays(z)

Disturbing ==
  /\ Disturbed
  /\ row # None => row' # None
  /\ \A z \in Api : /\ process'[z].state = process[z].state
                    /\ process'[z].loaded = process[z].loaded

LEMMA ConnectionStays ==
  ASSUME ReadinessType, NEW x \in Api, NEW c \in Connections, NEW s \in ConnectionStates,
         process' = [process EXCEPT ![x][c] = s],
         UNCHANGED << services, released, probe, vouched >>
  PROVE  Quiet /\ ReadinessType'
  BY ConnectionReadinessType DEF Quiet, Stays

\* A process that starts was not up.
LEMMA StartQuiet ==
  ASSUME ReadinessType, NEW x \in Api, Start(x) \/ StartStep(x)
  PROVE  Quiet
<1>1. UNCHANGED << services, probe, vouched >>
  BY DEF Start, StartStep, RedisOnModuleInit, PrismaOnModuleInit, RegistryOnModuleInit
<1>2. process[x].state # "up"
  BY DEF ReadinessType, Start, StartStep, RedisOnModuleInit, PrismaOnModuleInit,
         RegistryOnModuleInit
<1>3. \E p : process' = [process EXCEPT ![x] = p]
  <2>1. CASE Start(x)
    BY <2>1 DEF Start
  <2>2. CASE RedisOnModuleInit(x)
    BY <2>2 DEF RedisOnModuleInit, HookDone, Dies
  <2>3. CASE PrismaOnModuleInit(x)
    BY <2>3 DEF PrismaOnModuleInit, HookDone, Dies
  <2>4. CASE RegistryOnModuleInit(x)
    BY <2>4 DEF RegistryOnModuleInit, HookDone, Dies
  <2> QED
    BY <2>1, <2>2, <2>3, <2>4 DEF StartStep
<1>4. ASSUME NEW z \in Api, z # x
      PROVE  process'[z] = process[z]
  BY <1>3, <1>4 DEF ReadinessType
<1> QED
  BY <1>1, <1>2, <1>4 DEF Quiet, Stays

LEMMA ServicesDisturb ==
  ASSUME ReadinessType,
         RedisStops \/ RedisStarts \/ DatabaseChanges \/ \E r \in Row : Import(r)
  PROVE  Disturbing
<1>0. process \in [Api -> Process]
  BY DEF ReadinessType
<1>1. CASE RedisStops
  BY <1>0, <1>1, StoppedConnections DEF RedisStops, Disturbing
<1>2. CASE RedisStarts
  BY <1>2 DEF RedisStarts, Disturbing
<1>3. CASE DatabaseChanges
  BY <1>3 DEF DatabaseChanges, Disturbing
<1>4. ASSUME NEW r \in Row, Import(r)
      PROVE  Disturbing
  BY <1>4, ReadinessAssumption DEF Import, Disturbing
<1> QED
  BY <1>1, <1>2, <1>3, <1>4

\* Artifacts change what probes have vouched for, and nothing else of theirs.
LEMMA ArtifactsDisturb ==
  ASSUME ReadinessType, NEW s \in Source, ArtifactsChange(s)
  PROVE  Disturbing /\ ReadinessType'
<1>1. Disturbed /\ UNCHANGED << services, released, process >>
  BY DEF ArtifactsChange
<1>2. Disturbing
  BY <1>1 DEF Disturbing, services
<1>3. /\ redisUp \in BOOLEAN /\ databaseUp \in BOOLEAN /\ row \in Row \cup {None}
      /\ process \in [Api -> Process]
  BY DEF ReadinessType
<1>4. ReadinessType'
  BY <1>1, <1>3, DisturbedReadinessType DEF services
<1> QED
  BY <1>2, <1>4

\* A probe concerns one process.
LEMMA ProbeStays ==
  ASSUME ReadinessType, NEW x \in Api, BeginProbe(x) \/ ProbeStep(x)
  PROVE  /\ UNCHANGED services
         /\ \A z \in Api : Stays(z)
         /\ \A z \in Api : z # x => probe'[z] = probe[z] /\ vouched'[z] = vouched[z]
<1>0. /\ process \in [Api -> Process] /\ probe \in [Api -> Probe \cup {None}]
      /\ vouched \in [Api -> {"never", "once", "now"}]
  BY DEF ReadinessType
<1>1. CASE BeginProbe(x)
  BY <1>0, <1>1 DEF BeginProbe, Stays
<1>2. CASE CheckRedis(x)
  <2>1. \A z \in Api : z # x => probe'[z] = probe[z]
    BY <1>0, <1>2 DEF CheckRedis
  <2>2. \A z \in Api : /\ process'[z].state = process[z].state
                       /\ process'[z].loaded = process[z].loaded
    BY <1>0, <1>2 DEF CheckRedis, Process
  <2> QED
    BY <1>2, <2>1, <2>2 DEF CheckRedis, Stays
<1>3. CASE CheckDatabase(x)
  BY <1>0, <1>3 DEF CheckDatabase, Answer, Stays
<1>4. CASE CheckPinnedReadModel(x)
  BY <1>0, <1>4 DEF CheckPinnedReadModel, Answer, Stays
<1> QED
  BY <1>1, <1>2, <1>3, <1>4 DEF ProbeStep

LEMMA StopStays ==
  ASSUME ReadinessType, NEW x \in Api, Stop(x)
  PROVE  /\ UNCHANGED services
         /\ probe'[x] = None /\ vouched'[x] = "never"
         /\ \A z \in Api : z # x => /\ Stays(z)
                                    /\ probe'[z] = probe[z] /\ vouched'[z] = vouched[z]
<1>0. /\ process \in [Api -> Process] /\ probe \in [Api -> Probe \cup {None}]
      /\ vouched \in [Api -> {"never", "once", "now"}]
  BY DEF ReadinessType
<1> QED
  BY <1>0 DEF Stop, Dies, Stays

\* All that a step can do to the processes and to what they depend on.
LEMMA StepsProcesses ==
  ASSUME ReadinessType, [Next]_opsVars
  PROVE  /\ ReadinessType'
         /\ \/ Quiet
            \/ Disturbing
            \/ \E x \in Api : BeginProbe(x) \/ ProbeStep(x)
            \/ \E x \in Api : Stop(x)
<1>0. ASSUME UNCHANGED << services, process, probe, vouched >>
      PROVE  Quiet
  BY <1>0 DEF Quiet, Stays
<1>1. ASSUME UNCHANGED readinessVars
      PROVE  Quiet /\ ReadinessType'
  <2>1. ReadinessType'
    BY <1>1, Zenon DEF readinessVars, ReadinessType
  <2> QED
    BY <1>0, <1>1, <2>1 DEF readinessVars, services
<1>2. CASE SyncStep
  <2>1. UNCHANGED << services, process, probe, vouched >> /\ released' \subseteq Source
    BY <1>2 DEF SyncStep, ReadinessType
  <2>2. ReadinessType'
    BY <2>1, Zenon DEF ReadinessType, services
  <2> QED
    BY <1>0, <2>1, <2>2
<1>3. CASE ServicesChange
  BY <1>3, ServicesReadinessType, ServicesDisturb DEF ServicesChange
<1>10. ASSUME NEW s \in Source, ArtifactsChange(s)
       PROVE  Disturbing /\ ReadinessType'
  BY <1>10, ArtifactsDisturb
<1>4. ASSUME NEW x \in Api, ProcessStep(x)
      PROVE  ReadinessType' /\ (Quiet \/ BeginProbe(x) \/ ProbeStep(x))
  <2>1. ASSUME NEW c \in Connections, Reconnect(x, c)
        PROVE  Quiet /\ ReadinessType'
    BY <2>1, ConnectionStays DEF Reconnect, ConnectionStates
  <2> QED
    BY <1>4, <2>1, StartReadinessType, StartQuiet, ProbingReadinessType DEF ProcessStep
<1>5. ASSUME NEW x \in Api, ProcessStops(x)
      PROVE  ReadinessType' /\ Stop(x)
  <2>1. Stop(x)
    BY <1>5 DEF ProcessStops
  <2> QED
    BY <2>1, DiesReadinessType DEF Stop
<1>6. ASSUME NEW k \in Slot, NEW x \in Api, NEW r \in Request, ReceiveCounted(k, x, r)
      PROVE  Quiet /\ ReadinessType'
  <2>1. CASE Config[x].redis.enabled
    BY <1>6, <2>1, ConnectionStays DEF ReceiveCounted, Connections, ConnectionStates
  <2>2. CASE ~ Config[x].redis.enabled
    BY <1>1, <1>6, <2>2 DEF ReceiveCounted, readinessVars, services
  <2> QED
    BY <2>1, <2>2
<1>7. ASSUME NEW k \in Slot, NEW x \in Api, NEW r \in Request, StorageFails(k, x, r)
      PROVE  Quiet /\ ReadinessType'
  BY <1>7, ConnectionStays DEF StorageFails, Connections, ConnectionStates
<1>8. ASSUME NEW k \in Slot, NEW x \in Api, NEW r \in Request, ReplyLost(k, x, r)
      PROVE  Disturbing /\ ReadinessType'
  BY <1>8, ServicesReadinessType, ServicesDisturb DEF ReplyLost
<1>9. CASE \/ SyncBegins \/ SyncEnds
           \/ \E k \in Slot, x \in Api, r \in Request : ReceiveUncounted(k, x, r)
           \/ \E k \in Slot : Handle(k) \/ Deliver(k)
           \/ \E s \in Storage, t \in Tracker : WindowEnds(s, t)
           \/ UNCHANGED opsVars
  BY <1>1, <1>9 DEF SyncBegins, SyncEnds, ReceiveUncounted, Handle, Deliver, WindowEnds, opsVars
<1> QED
  BY <1>2, <1>3, <1>4, <1>5, <1>6, <1>7, <1>8, <1>9, <1>10 DEF Next

LEMMA InitVouchInv ==
  Init => VouchInv
  BY DEF Init, ReadinessInit, VouchInv, VouchedInv, Probing

LEMMA NextVouchInv ==
  ASSUME ReadinessType, VouchInv, [Next]_opsVars
  PROVE  VouchInv'
<1> SUFFICES ASSUME NEW z \in Api PROVE VouchedInv(z)'
  BY DEF VouchInv
<1>0. VouchedInv(z)
  BY DEF VouchInv
<1>1. CASE Quiet
  BY <1>0, <1>1, StaysVouched DEF Quiet
<1>2. CASE Disturbing
  BY <1>0, <1>2, DisturbedVouched DEF Disturbing
<1>3. ASSUME NEW x \in Api, BeginProbe(x) \/ ProbeStep(x)
      PROVE  VouchedInv(z)'
  <2>1. CASE z = x
    BY <1>0, <1>3, <2>1, ProbeVouched
  <2>2. CASE z # x
    BY <1>0, <1>3, <2>2, ProbeStays, StaysVouched
  <2> QED
    BY <2>1, <2>2
<1>4. ASSUME NEW x \in Api, Stop(x)
      PROVE  VouchedInv(z)'
  <2>1. CASE z = x
    BY <1>4, <2>1, StopStays DEF VouchedInv, Probing
  <2>2. CASE z # x
    BY <1>0, <1>4, <2>2, StopStays, StaysVouched
  <2> QED
    BY <2>1, <2>2
<1> QED
  BY <1>1, <1>2, <1>3, <1>4, StepsProcesses

-----------------------------------------------------------------------------
(* Requests and what was vouched for.                                      *)

\* What holds of a request, since the process it came to stays up.
PlaceInv(k) ==
  request[k] # None =>
    LET x == request[k].api
    IN  /\ IsPlaced(request[k])
        /\ process[x].state = "up"
        /\ RequiresWhatItUses(x) /\ request[k].vouched = "now" /\ Handling(k) => Sound(x)
        /\ RequiresWhatItUses(x) /\ request[k].vouched # "never" /\ HasReadModel(x)
             => row # None

OpsInv ==
  /\ ReadinessType
  /\ damaged \subseteq released
  /\ VouchInv
  /\ request = [k \in Slot |-> request[k]]
  /\ \A k \in Slot : PlaceInv(k)

\* A process that stays uses the same read model.
LEMMA StaysModel ==
  ASSUME NEW x, process'[x].loaded = process[x].loaded
  PROVE  /\ HasReadModel(x)' <=> HasReadModel(x)
         /\ UNCHANGED services => (Sound(x)' <=> Sound(x))
  BY DEF HasReadModel, Sound, services

LEMMA PlaceStays ==
  ASSUME NEW k \in Slot, PlaceInv(k), request'[k] = request[k], UNCHANGED services,
         request[k] # None => Stays(request[k].api)
  PROVE  PlaceInv(k)'
<1> SUFFICES ASSUME request[k] # None PROVE PlaceInv(k)'
  BY DEF PlaceInv
<1> DEFINE x == request[k].api
<1>1. /\ process[x].state = "up" /\ process'[x].state = "up"
      /\ process'[x].loaded = process[x].loaded
      /\ row' = row
  BY DEF PlaceInv, Stays, services
<1>2. /\ HasReadModel(x)' <=> HasReadModel(x)
      /\ Sound(x)' <=> Sound(x)
  BY <1>1, StaysModel
<1>3. IsPlaced(request[k])' <=> IsPlaced(request[k])
  BY DEF IsPlaced
<1>4. request'[k].api = x /\ (Handling(k)' <=> Handling(k))
  BY DEF Handling
<1> HIDE DEF x
<1> QED
  BY <1>1, <1>2, <1>3, <1>4 DEF PlaceInv, RequiresWhatItUses, x

LEMMA PlaceOutdated ==
  ASSUME NEW k \in Slot, PlaceInv(k), request'[k] = Outdated(k), Disturbing
  PROVE  PlaceInv(k)'
<1>1. CASE request[k] = None
  BY <1>1 DEF PlaceInv, Outdated, Handling
<1>2. CASE request[k] # None
  <2> PICK x, q : x = request[k].api /\ q = Outdated(k)
    OBVIOUS
  <2>1. /\ IsPlaced(q) /\ q.api = x /\ q.step = request[k].step
        /\ q.vouched = IF request[k].step = "handler" /\ request[k].vouched = "now"
                         THEN "once" ELSE request[k].vouched
    BY <1>2, OutdatedIsPlaced DEF PlaceInv
  <2>2. x \in Api /\ process[x].state = "up"
    BY <1>2 DEF PlaceInv, IsPlaced
  <2>3. /\ process'[x].state = "up" /\ process'[x].loaded = process[x].loaded
        /\ row # None => row' # None
    BY <2>2 DEF Disturbing
  <2>4. HasReadModel(x)' <=> HasReadModel(x)
    BY <2>3, StaysModel
  <2>5. request'[k] = q
    OBVIOUS
  <2>6. Handling(k)' => q.step = "handler"
    BY <2>5 DEF Handling
  <2>7. q.vouched # "never" => request[k].vouched # "never"
    BY <2>1
  <2>8. ~ (q.vouched = "now" /\ q.step = "handler")
    BY <2>1
  <2>9. RequiresWhatItUses(x) /\ q.vouched # "never" /\ HasReadModel(x)' => row' # None
    BY <1>2, <2>3, <2>4, <2>7 DEF PlaceInv
  <2>10. IsPlaced(request[k])' <=> IsPlaced(q)
    BY <2>5 DEF IsPlaced
  <2> QED
    BY <2>1, <2>3, <2>5, <2>6, <2>8, <2>9, <2>10 DEF PlaceInv, RequiresWhatItUses
<1> QED
  BY <1>1, <1>2

\* A request that has come to a process, with what was vouched for then.
LEMMA PlaceReceived ==
  ASSUME NEW k \in Slot, NEW x \in Api, NEW r \in Request, VouchInv,
         process[x].state = "up", Stays(x), UNCHANGED services,
         request'[k] = Received(x, r)
  PROVE  PlaceInv(k)'
<1> DEFINE q == Received(x, r)
<1>1. IsPlaced(q) /\ q.api = x /\ q.vouched = vouched[x] /\ q.step = "handler"
  BY ReceivedIsPlaced
<1>2. /\ process'[x].state = "up" /\ process'[x].loaded = process[x].loaded
      /\ row' = row
  BY DEF Stays, services
<1>3. /\ HasReadModel(x)' <=> HasReadModel(x)
      /\ Sound(x)' <=> Sound(x)
  BY <1>2, StaysModel
<1>4. /\ RequiresWhatItUses(x) /\ vouched[x] = "now" => Sound(x)
      /\ RequiresWhatItUses(x) /\ vouched[x] # "never" /\ HasReadModel(x) => row # None
  BY DEF VouchInv, VouchedInv
<1>5. request'[k] = q
  OBVIOUS
<1> HIDE DEF q
<1>6. IsPlaced(request[k])' <=> IsPlaced(q)
  BY <1>5 DEF IsPlaced
<1> QED
  BY <1>1, <1>2, <1>3, <1>4, <1>5, <1>6 DEF PlaceInv, RequiresWhatItUses

\* A request that is answered.
LEMMA PlaceAnswered ==
  ASSUME NEW k \in Slot, NEW p, IsPlaced(p), NEW status, NEW source,
         status = 204 => IsPreflight(p.of) /\ PreflightStatus(p.of, Config[p.api].app) = 204,
         process[p.api].state = "up", Stays(p.api), UNCHANGED services,
         RequiresWhatItUses(p.api) /\ p.vouched # "never" /\ HasReadModel(p.api)
           => row # None,
         request'[k] = AnsweredWith(p, status, source)
  PROVE  PlaceInv(k)'
<1> DEFINE q == AnsweredWith(p, status, source)
           x == p.api
<1>1. IsPlaced(q) /\ q.api = x /\ q.vouched = p.vouched /\ q.step = "answered"
  BY AnsweredIsPlaced
<1>2. /\ process'[x].state = "up" /\ process'[x].loaded = process[x].loaded
      /\ row' = row
  BY DEF Stays, services
<1>3. HasReadModel(x)' <=> HasReadModel(x)
  BY <1>2, StaysModel
<1>4. RequiresWhatItUses(x) /\ p.vouched # "never" /\ HasReadModel(x) => row # None
  OBVIOUS
<1>5. request'[k] = q
  OBVIOUS
<1> HIDE DEF q, x
<1>6. (IsPlaced(request[k])' <=> IsPlaced(q)) /\ ~ Handling(k)'
  BY <1>1, <1>5 DEF IsPlaced, Handling
<1> QED
  BY <1>1, <1>2, <1>3, <1>4, <1>5, <1>6 DEF PlaceInv, RequiresWhatItUses

\* A request whose answer the storage has lost.
Lost(p, v) == [p EXCEPT !.vouched = v, !.step = "answered", !.status = 500]

LEMMA LostRecord ==
  ASSUME NEW a, NEW o, NEW h, NEW v, NEW t, NEW u, NEW w, NEW z
  PROVE  Lost([ api |-> a, of |-> o, headers |-> h, vouched |-> z,
                step |-> t, status |-> u, source |-> w ], v)
         = [ api |-> a, of |-> o, headers |-> h, vouched |-> v,
             step |-> "answered", status |-> 500, source |-> w ]
<1> DEFINE R(y, s, c) == [ api |-> a, of |-> o, headers |-> h, vouched |-> y,
                           step |-> s, status |-> c, source |-> w ]
           Vouched(p) == [p EXCEPT !.vouched = v]
           Ends(p) == [p EXCEPT !.step = "answered"]
           Fails(p) == [p EXCEPT !.status = 500]
<1>1. Vouched(R(z, t, u)) = R(v, t, u)
  OBVIOUS
<1>2. Ends(R(v, t, u)) = R(v, "answered", u)
  OBVIOUS
<1>3. Fails(R(v, "answered", u)) = R(v, "answered", 500)
  OBVIOUS
<1>4. Lost(R(z, t, u), v) = Fails(Ends(Vouched(R(z, t, u))))
  BY Zenon DEF Lost
<1> HIDE DEF R, Vouched, Ends, Fails
<1>5. Lost(R(z, t, u), v) = R(v, "answered", 500)
  BY <1>1, <1>2, <1>3, <1>4
<1> QED
  BY <1>5 DEF R

LEMMA LostFields ==
  ASSUME NEW x \in Api, NEW r \in Request, NEW v
  PROVE  LET q == Lost(Received(x, r), v)
         IN  /\ IsPlaced(q)
             /\ q.api = x /\ q.of = r /\ q.vouched = v
             /\ q.step = "answered" /\ q.status = 500
<1> DEFINE q == Lost(Received(x, r), v)
<1>1. q = [ api |-> x, of |-> r, headers |-> CorsHeaders(r, Config[x].app),
            vouched |-> v, step |-> "answered", status |-> 500, source |-> None ]
  BY LostRecord DEF Received
<1> HIDE DEF q
<1>2. /\ q.api = x /\ q.of = r /\ q.vouched = v /\ q.step = "answered" /\ q.status = 500
      /\ q.headers = CorsHeaders(r, Config[x].app) /\ q.source = None
  BY <1>1
<1>3. IsPlaced(q)
  BY <1>1, <1>2 DEF IsPlaced
<1> QED
  BY <1>2, <1>3 DEF q

LEMMA PlaceLost ==
  ASSUME NEW k \in Slot, NEW x \in Api, NEW r \in Request, ReadinessType, VouchInv,
         process[x].state = "up", Disturbing, request'[k] = Lost(Received(x, r), vouched'[x])
  PROVE  PlaceInv(k)' /\ request'[k].vouched # "now"
<1> PICK q, v : v = vouched'[x] /\ q = Lost(Received(x, r), v)
  OBVIOUS
<1>1. IsPlaced(q) /\ q.api = x /\ q.vouched = v /\ q.step = "answered"
  BY LostFields
<1>2. /\ process'[x].state = "up" /\ process'[x].loaded = process[x].loaded
      /\ row # None => row' # None
  BY DEF Disturbing
<1>3. HasReadModel(x)' <=> HasReadModel(x)
  BY <1>2, StaysModel
<1>4. v # "now" /\ (v # "never" => vouched[x] # "never")
  BY DEF Disturbing, Disturbed, ReadinessType
<1>5. RequiresWhatItUses(x) /\ vouched[x] # "never" /\ HasReadModel(x) => row # None
  BY DEF VouchInv, VouchedInv
<1>6. request'[k] = q
  OBVIOUS
<1>7. (IsPlaced(request[k])' <=> IsPlaced(q)) /\ ~ Handling(k)'
  BY <1>1, <1>6 DEF IsPlaced, Handling
<1> QED
  BY <1>1, <1>2, <1>3, <1>4, <1>5, <1>6, <1>7 DEF PlaceInv, RequiresWhatItUses

\* A request that a client sends: what becomes of it, and of the others.
LEMMA CountedAnswers ==
  ASSUME request = [j \in Slot |-> request[j]],
         NEW k \in Slot, NEW x \in Api, NEW r \in Request, ReceiveCounted(k, x, r)
  PROVE  LET store == StorageOf(x, Config[x].redis)
             blocked == bucket'[store][TrackerOf(x, r.client)].blocked
         IN  /\ request' = [j \in Slot |-> request'[j]]
             /\ \A j \in Slot : j # k => request'[j] = request[j]
             /\ process[x].state = "up" /\ UNCHANGED services
             /\ Count(store, x, r)
             /\ \/ request'[k] = AnsweredWith(Received(x, r), 429, None) /\ blocked
                \/ request'[k] = Received(x, r) /\ ~ blocked
<1> DEFINE store == StorageOf(x, Config[x].redis)
           blocked == bucket'[store][TrackerOf(x, r.client)].blocked
<1>1. /\ process[x].state = "up" /\ UNCHANGED services
      /\ Charge(k, x, r)
  BY DEF ReceiveCounted, Takes
<1>2. /\ Count(store, x, r)
      /\ IF blocked THEN AnswerWith(k, Received(x, r), 429, None)
                    ELSE Pending(k, Received(x, r))
  BY <1>1 DEF Charge
<1> HIDE DEF store, blocked
<1>3. CASE blocked
  BY <1>1, <1>2, <1>3, PendingSuccessor DEF AnswerWith, AnsweredWith, store, blocked
<1>4. CASE ~ blocked
  BY <1>1, <1>2, <1>4, PendingSuccessor DEF store, blocked
<1> QED
  BY <1>3, <1>4

LEMMA StorageFailsAnswers ==
  ASSUME request = [j \in Slot |-> request[j]],
         NEW k \in Slot, NEW x \in Api, NEW r \in Request, StorageFails(k, x, r)
  PROVE  /\ request' = [j \in Slot |-> request'[j]]
         /\ \A j \in Slot : j # k => request'[j] = request[j]
         /\ process[x].state = "up" /\ UNCHANGED services
         /\ request'[k] = AnsweredWith(Received(x, r), 500, None)
  BY PendingSuccessor DEF StorageFails, Takes, AnswerWith, AnsweredWith

LEMMA ReplyLostAnswers ==
  ASSUME request = [j \in Slot |-> request[j]], ReadinessType,
         NEW k \in Slot, NEW x \in Api, NEW r \in Request, ReplyLost(k, x, r)
  PROVE  /\ request' = [j \in Slot |-> request'[j]]
         /\ \A j \in Slot : j # k => request'[j] = Outdated(j)
         /\ process[x].state = "up" /\ Disturbing
         /\ request'[k] = Lost(Received(x, r), vouched'[x])
<1>1. /\ process[x].state = "up" /\ RedisStops
      /\ request' = [j \in Slot |->
                   IF j = k THEN [Received(x, r) EXCEPT !.vouched = vouched'[x],
                                                        !.step = "answered",
                                                        !.status = 500]
                            ELSE Outdated(j)]
  BY DEF ReplyLost, Takes
<1>2. Disturbing
  BY <1>1, ServicesDisturb
<1> QED
  BY <1>1, <1>2 DEF Lost

LEMMA InitOpsInv ==
  Init => OpsInv
  BY InitReadinessType, InitVouchInv DEF Init, OpsInv, PlaceInv

\* Steps that leave requests and services alone.
LEMMA QuietPlaces ==
  ASSUME OpsInv, UNCHANGED << request, services >>, \A z \in Api : Stays(z)
  PROVE  /\ request' = [k \in Slot |-> request'[k]]
         /\ \A k \in Slot : PlaceInv(k)'
<1>1. \A k \in Slot : request[k] # None => request[k].api \in Api
  BY DEF OpsInv, PlaceInv, IsPlaced
<1>2. request' = [k \in Slot |-> request'[k]]
  BY DEF OpsInv
<1>3. \A k \in Slot : PlaceInv(k)'
  BY <1>1, PlaceStays DEF OpsInv
<1> QED
  BY <1>2, <1>3

\* A step that gives one place something new.
LEMMA OnePlace ==
  ASSUME OpsInv, UNCHANGED services, \A z \in Api : Stays(z),
         NEW k \in Slot, \A j \in Slot : j # k => request'[j] = request[j],
         PlaceInv(k)'
  PROVE  \A j \in Slot : PlaceInv(j)'
<1>1. \A j \in Slot : request[j] # None => request[j].api \in Api
  BY DEF OpsInv, PlaceInv, IsPlaced
<1> QED
  BY <1>1, PlaceStays DEF OpsInv

LEMMA StopPlaces ==
  ASSUME OpsInv, NEW x \in Api, ProcessStops(x)
  PROVE  /\ request' = [k \in Slot |-> request'[k]]
         /\ \A k \in Slot : PlaceInv(k)'
<1>1. /\ UNCHANGED services
      /\ \A z \in Api : z # x => Stays(z)
  BY StopStays DEF ProcessStops, OpsInv
<1>2. request' = [k \in Slot |->
                    IF request[k] # None /\ request[k].api = x THEN None ELSE request[k]]
  BY DEF ProcessStops
<1>3. ASSUME NEW k \in Slot
      PROVE  PlaceInv(k)'
  <2>1. CASE request[k] # None /\ request[k].api = x
    BY <1>2, <2>1 DEF PlaceInv
  <2>2. CASE ~ (request[k] # None /\ request[k].api = x)
    <3>1. request'[k] = request[k]
      BY <1>2, <2>2
    <3>2. request[k] # None => request[k].api \in Api /\ Stays(request[k].api)
      BY <1>1, <2>2 DEF OpsInv, PlaceInv, IsPlaced
    <3> QED
      BY <1>1, <3>1, <3>2, PlaceStays DEF OpsInv
  <2> QED
    BY <2>1, <2>2
<1> QED
  BY <1>2, <1>3

LEMMA ReceivedPlaces ==
  ASSUME OpsInv, NEW k \in Slot, NEW x \in Api, NEW r \in Request,
         \/ ReceiveUncounted(k, x, r) \/ ReceiveCounted(k, x, r) \/ StorageFails(k, x, r),
         \A z \in Api : Stays(z)
  PROVE  /\ request' = [j \in Slot |-> request'[j]]
         /\ \A j \in Slot : PlaceInv(j)'
<1>1. /\ request = [j \in Slot |-> request[j]] /\ VouchInv
      /\ process[x].state = "up" /\ UNCHANGED services /\ Stays(x)
  BY DEF OpsInv, ReceiveUncounted, ReceiveCounted, StorageFails, Takes, readinessVars, services
<1>2. /\ request' = [j \in Slot |-> request'[j]]
      /\ \A j \in Slot : j # k => request'[j] = request[j]
      /\ \/ request'[k] = Received(x, r)
         \/ \E status \in {200, 204, 403, 404, 429, 500} :
              /\ request'[k] = AnsweredWith(Received(x, r), status, None)
              /\ status = 204 => IsPreflight(r) /\ PreflightStatus(r, Config[x].app) = 204
  BY <1>1, UncountedAnswers, CountedAnswers, StorageFailsAnswers
<1>3. CASE request'[k] = Received(x, r)
  BY <1>1, <1>2, <1>3, PlaceReceived, OnePlace
<1>4. ASSUME NEW status \in {200, 204, 403, 404, 429, 500},
             request'[k] = AnsweredWith(Received(x, r), status, None),
             status = 204 => IsPreflight(r) /\ PreflightStatus(r, Config[x].app) = 204
      PROVE  PlaceInv(k)'
  <2> PICK p : p = Received(x, r)
    OBVIOUS
  <2>1. IsPlaced(p) /\ p.api = x /\ p.of = r /\ p.vouched = vouched[x]
    BY ReceivedIsPlaced
  <2>2. RequiresWhatItUses(x) /\ vouched[x] # "never" /\ HasReadModel(x) => row # None
    BY <1>1 DEF VouchInv, VouchedInv
  <2>3. request'[k] = AnsweredWith(p, status, None)
    BY <1>4
  <2>4. status = 204 => IsPreflight(p.of) /\ PreflightStatus(p.of, Config[p.api].app) = 204
    BY <1>4, <2>1
  <2> QED
    BY <1>1, <2>1, <2>2, <2>3, <2>4, PlaceAnswered
<1> QED
  BY <1>1, <1>2, <1>3, <1>4, OnePlace

LEMMA HandledPlaces ==
  ASSUME OpsInv, NEW k \in Slot, Handle(k) \/ Deliver(k)
  PROVE  /\ request' = [j \in Slot |-> request'[j]]
         /\ \A j \in Slot : PlaceInv(j)'
<1>1. /\ request = [j \in Slot |-> request[j]]
      /\ UNCHANGED services /\ \A z \in Api : Stays(z)
  BY DEF OpsInv, Handle, Deliver, readinessVars, services, Stays
<1>2. CASE Deliver(k)
  <2>1. /\ request' = [j \in Slot |-> request'[j]]
        /\ request'[k] = None
        /\ \A j \in Slot : j # k => request'[j] = request[j]
    BY <1>1, <1>2, PendingSuccessor DEF Deliver
  <2>2. PlaceInv(k)'
    BY <2>1 DEF PlaceInv
  <2> QED
    BY <1>1, <2>1, <2>2, OnePlace
<1>3. CASE Handle(k)
  <2> PICK p : p = request[k]
    OBVIOUS
  <2>1. /\ request' = [j \in Slot |-> request'[j]]
        /\ \A j \in Slot : j # k => request'[j] = request[j]
        /\ p # None
        /\ \E status \in {200, 500}, source \in {None, "database", "artifacts"} :
             request'[k] = AnsweredWith(p, status, source)
    BY <1>1, <1>3, HandleAnswers DEF Handling
  <2>2. /\ IsPlaced(p) /\ process[p.api].state = "up" /\ p.api \in Api
        /\ RequiresWhatItUses(p.api) /\ p.vouched # "never" /\ HasReadModel(p.api)
             => row # None
    BY <2>1 DEF OpsInv, PlaceInv, IsPlaced
  <2>3. PlaceInv(k)'
    BY <1>1, <2>1, <2>2, PlaceAnswered
  <2> QED
    BY <1>1, <2>1, <2>3, OnePlace
<1> QED
  BY <1>2, <1>3

LEMMA DisturbedPlaces ==
  ASSUME OpsInv, Disturbing,
         \/ request' = [k \in Slot |-> Outdated(k)]
         \/ \E k \in Slot, x \in Api, r \in Request : ReplyLost(k, x, r)
  PROVE  /\ request' = [k \in Slot |-> request'[k]]
         /\ \A k \in Slot : PlaceInv(k)'
<1>1. CASE request' = [k \in Slot |-> Outdated(k)]
  BY <1>1, PlaceOutdated DEF OpsInv
<1>2. ASSUME NEW k \in Slot, NEW x \in Api, NEW r \in Request, ReplyLost(k, x, r)
      PROVE  /\ request' = [j \in Slot |-> request'[j]]
             /\ \A j \in Slot : PlaceInv(j)'
  <2>1. /\ request' = [j \in Slot |-> request'[j]]
        /\ \A j \in Slot : j # k => request'[j] = Outdated(j)
        /\ PlaceInv(k)'
    BY <1>2, ReplyLostAnswers, PlaceLost DEF OpsInv
  <2> QED
    BY <2>1, PlaceOutdated DEF OpsInv
<1> QED
  BY <1>1, <1>2

\* Releases stay in place, and only those have artifacts.
LEMMA NextDamaged ==
  ASSUME damaged \subseteq released, [Next]_opsVars
  PROVE  damaged' \subseteq released'
<1>1. CASE SyncBegins \/ SyncStep \/ SyncEnds
  BY <1>1 DEF SyncBegins, SyncStep, SyncEnds, readinessVars
<1>2. CASE ServicesChange
  BY <1>2 DEF ServicesChange, RedisStops, RedisStarts, DatabaseChanges, Import
<1>3. ASSUME NEW s \in Source, ArtifactsChange(s)
      PROVE  damaged' \subseteq released'
  BY <1>3 DEF ArtifactsChange
<1>4. ASSUME NEW x \in Api, ProcessStep(x)
      PROVE  UNCHANGED << released, damaged >>
  BY <1>4 DEF ProcessStep, Start, StartStep, RedisOnModuleInit, PrismaOnModuleInit,
     RegistryOnModuleInit, BeginProbe, ProbeStep, CheckRedis, CheckDatabase,
     CheckPinnedReadModel, Reconnect
<1>5. ASSUME NEW x \in Api, ProcessStops(x)
      PROVE  UNCHANGED << released, damaged >>
  BY <1>5 DEF ProcessStops, Stop
<1>6. ASSUME NEW k \in Slot, NEW x \in Api, NEW r \in Request,
             \/ ReceiveUncounted(k, x, r) \/ ReceiveCounted(k, x, r)
             \/ StorageFails(k, x, r) \/ ReplyLost(k, x, r)
      PROVE  UNCHANGED << released, damaged >>
  BY <1>6 DEF ReceiveUncounted, ReceiveCounted, StorageFails, ReplyLost, RedisStops,
     readinessVars
<1>7. ASSUME NEW k \in Slot, Handle(k) \/ Deliver(k)
      PROVE  UNCHANGED << released, damaged >>
  BY <1>7 DEF Handle, Deliver, readinessVars
<1>8. ASSUME NEW s \in Storage, NEW t \in Tracker, WindowEnds(s, t)
      PROVE  UNCHANGED << released, damaged >>
  BY <1>8 DEF WindowEnds, readinessVars
<1>9. CASE UNCHANGED opsVars
  BY <1>9 DEF opsVars, readinessVars
<1> QED
  BY <1>1, <1>2, <1>3, <1>4, <1>5, <1>6, <1>7, <1>8, <1>9 DEF Next

LEMMA NextOpsInv ==
  ASSUME OpsInv, [Next]_opsVars
  PROVE  OpsInv'
<1>1. ReadinessType' /\ VouchInv' /\ damaged' \subseteq released'
  BY StepsProcesses, NextVouchInv, NextDamaged DEF OpsInv
<1> DEFINE Places == /\ request' = [k \in Slot |-> request'[k]]
                     /\ \A k \in Slot : PlaceInv(k)'
<1>2. ReadinessType
  BY DEF OpsInv
<1> SUFFICES Places
  BY <1>1 DEF OpsInv
<1>3. CASE \/ SyncBegins \/ SyncStep \/ SyncEnds
           \/ \E s \in Storage, t \in Tracker : WindowEnds(s, t)
           \/ UNCHANGED opsVars
  <2>1. UNCHANGED << request, services, process >>
    BY <1>3 DEF SyncBegins, SyncStep, SyncEnds, WindowEnds, opsVars, readinessVars, services
  <2>2. \A z \in Api : Stays(z)
    BY <2>1 DEF Stays
  <2> QED
    BY <2>1, <2>2, QuietPlaces
<1>4. CASE ServicesChange
  BY <1>2, <1>4, ServicesDisturb, DisturbedPlaces DEF ServicesChange
<1>10. ASSUME NEW s \in Source, ArtifactsChange(s)
       PROVE  Places
  <2>1. Disturbing
    BY <1>2, <1>10, ArtifactsDisturb
  <2> QED
    BY <1>10, <2>1, DisturbedPlaces DEF ArtifactsChange
<1>5. ASSUME NEW x \in Api, ProcessStep(x)
      PROVE  Places
  <2>1. UNCHANGED request
    BY <1>5 DEF ProcessStep
  <2>2. UNCHANGED services /\ \A z \in Api : Stays(z)
    <3>1. ASSUME NEW c \in Connections, Reconnect(x, c)
          PROVE  Quiet
      BY <1>2, <3>1, ConnectionStays DEF Reconnect, ConnectionStates
    <3> QED
      BY <1>2, <1>5, <3>1, StartQuiet, ProbeStays DEF ProcessStep, Quiet
  <2> QED
    BY <2>1, <2>2, QuietPlaces
<1>6. ASSUME NEW x \in Api, ProcessStops(x)
      PROVE  Places
  BY <1>6, StopPlaces
<1>7. ASSUME NEW k \in Slot, NEW x \in Api, NEW r \in Request,
             \/ ReceiveUncounted(k, x, r) \/ ReceiveCounted(k, x, r) \/ StorageFails(k, x, r)
      PROVE  Places
  <2>1. \A z \in Api : Stays(z)
    <3>1. CASE ReceiveUncounted(k, x, r) \/ (ReceiveCounted(k, x, r) /\ ~ Config[x].redis.enabled)
      <4>1. UNCHANGED process
        BY <3>1 DEF ReceiveUncounted, ReceiveCounted, readinessVars
      <4> QED
        BY <4>1 DEF Stays
    <3>2. CASE ReceiveCounted(k, x, r) /\ Config[x].redis.enabled
      BY <1>2, <3>2, ConnectionStays DEF ReceiveCounted, Connections, ConnectionStates, Quiet
    <3>3. CASE StorageFails(k, x, r)
      BY <1>2, <3>3, ConnectionStays DEF StorageFails, Connections, ConnectionStates, Quiet
    <3> QED
      BY <1>7, <3>1, <3>2, <3>3
  <2> QED
    BY <1>7, <2>1, ReceivedPlaces
<1>8. ASSUME NEW k \in Slot, NEW x \in Api, NEW r \in Request, ReplyLost(k, x, r)
      PROVE  Places
  BY <1>2, <1>8, ReplyLostAnswers, DisturbedPlaces DEF OpsInv
<1>9. ASSUME NEW k \in Slot, Handle(k) \/ Deliver(k)
      PROVE  Places
  BY <1>9, HandledPlaces
<1> HIDE DEF Places
<1> QED
  BY <1>3, <1>4, <1>5, <1>6, <1>7, <1>8, <1>9, <1>10 DEF Next

LEMMA SpecOpsInv ==
  Spec => []OpsInv
  BY InitOpsInv, NextOpsInv, PTL DEF Spec

LEMMA SpecQuotaInv ==
  Spec => []QuotaInv
  BY InitQuotaInv, NextQuotaInv, PTL DEF Spec

-----------------------------------------------------------------------------
(* Who lets requests in, and who answers them.                             *)

\* What changes a place, but for stops and deliveries.
LEMMA StepsAnswer ==
  ASSUME OpsInv, [Next]_opsVars, NEW k \in Slot, request'[k] # request[k], request'[k] # None
  PROVE  \/ \E x \in Api, r \in Request :
              \/ ReceiveUncounted(k, x, r) \/ ReceiveCounted(k, x, r)
              \/ StorageFails(k, x, r) \/ ReplyLost(k, x, r)
         \/ Handle(k)
         \/ Handling(k) /\ Handling(k)'
<1>0. request = [j \in Slot |-> request[j]] /\ ReadinessType
  BY DEF OpsInv
<1>1. ASSUME request'[k] = Outdated(k)
      PROVE  Handling(k) /\ Handling(k)'
  <2>1. Handling(k)
    BY <1>1 DEF Outdated
  <2>2. request[k] # None /\ IsPlaced(request[k])
    BY <2>1 DEF Handling, OpsInv, PlaceInv
  <2>3. request'[k].step = "handler"
    BY <1>1, <2>1, <2>2, OutdatedIsPlaced DEF Handling
  <2> QED
    BY <2>1, <2>3 DEF Handling
<1>2. CASE \/ SyncBegins \/ SyncStep \/ SyncEnds
           \/ \E x \in Api : ProcessStep(x)
           \/ \E s \in Storage, t \in Tracker : WindowEnds(s, t)
           \/ UNCHANGED opsVars
  BY <1>2 DEF SyncBegins, SyncStep, SyncEnds, ProcessStep, WindowEnds, opsVars
<1>3. CASE ServicesChange \/ \E s \in Source : ArtifactsChange(s)
  BY <1>1, <1>3 DEF ServicesChange, ArtifactsChange
<1>4. ASSUME NEW x \in Api, ProcessStops(x)
      PROVE  FALSE
  BY <1>4 DEF ProcessStops
<1>5. ASSUME NEW i \in Slot, NEW x \in Api, NEW r \in Request,
             \/ ReceiveUncounted(i, x, r) \/ ReceiveCounted(i, x, r)
             \/ StorageFails(i, x, r) \/ ReplyLost(i, x, r)
      PROVE  i = k \/ (Handling(k) /\ Handling(k)')
  BY <1>0, <1>1, <1>5, UncountedAnswers, CountedAnswers, StorageFailsAnswers, ReplyLostAnswers
<1>6. ASSUME NEW i \in Slot, Handle(i) \/ Deliver(i)
      PROVE  i = k /\ Handle(i)
  <2>1. CASE Handle(i)
    BY <1>0, <2>1, HandleAnswers
  <2>2. CASE Deliver(i)
    BY <1>0, <2>2, PendingSuccessor DEF Deliver
  <2> QED
    BY <1>6, <2>1, <2>2
<1> QED
  BY <1>2, <1>3, <1>4, <1>5, <1>6 DEF Next

\* The fields of an answer to a request that has just come.
LEMMA AnswerFields ==
  ASSUME NEW x \in Api, NEW r \in Request, NEW status, NEW source
  PROVE  LET q == AnsweredWith(Received(x, r), status, source)
         IN  /\ q.api = x /\ q.of = r /\ q.vouched = vouched[x]
             /\ q.step = "answered" /\ q.status = status /\ q.source = source
<1> DEFINE q == AnsweredWith(Received(x, r), status, source)
<1>1. q = [ api |-> x, of |-> r, headers |-> CorsHeaders(r, Config[x].app),
            vouched |-> vouched[x], step |-> "answered", status |-> status,
            source |-> source ]
  BY AnsweredFields DEF Received
<1> HIDE DEF q
<1>2. /\ q.api = x /\ q.of = r /\ q.vouched = vouched[x]
      /\ q.step = "answered" /\ q.status = status /\ q.source = source
  BY <1>1
<1> QED
  BY <1>2 DEF q

\* A failure is one of the storage, of the database or of artifacts.
LEMMA WhoFails ==
  ASSUME OpsInv, [Next]_opsVars, NEW k \in Slot, Answers(k, 500)
  PROVE  \/ \E x \in Api, r \in Request :
              /\ StorageFails(k, x, r)
              /\ request'[k].api = x /\ request'[k].vouched = vouched[x]
         \/ request'[k].vouched # "now"
         \/ /\ Handling(k)
            /\ request'[k].api = request[k].api /\ request'[k].of = request[k].of
            /\ request'[k].vouched = request[k].vouched
            /\ \/ HasReadModel(request[k].api) /\ ~ databaseUp
               \/ OfDamaged(request[k].api, request[k].of)
<1>0. request = [j \in Slot |-> request[j]] /\ ReadinessType /\ VouchInv
  BY DEF OpsInv
<1>1. /\ request'[k] # request[k] /\ request'[k] # None
      /\ request'[k].step = "answered" /\ request'[k].status = 500
  BY DEF Answers
<1>2. ASSUME NEW x \in Api, NEW r \in Request, ReceiveUncounted(k, x, r)
      PROVE  FALSE
  BY <1>0, <1>1, <1>2, UncountedAnswers, AnswerFields, ReceivedIsPlaced
<1>3. ASSUME NEW x \in Api, NEW r \in Request, ReceiveCounted(k, x, r)
      PROVE  FALSE
  BY <1>0, <1>1, <1>3, CountedAnswers, AnswerFields, ReceivedIsPlaced
<1>4. ASSUME NEW x \in Api, NEW r \in Request, StorageFails(k, x, r)
      PROVE  request'[k].api = x /\ request'[k].vouched = vouched[x]
  BY <1>0, <1>4, StorageFailsAnswers, AnswerFields
<1>5. ASSUME NEW x \in Api, NEW r \in Request, ReplyLost(k, x, r)
      PROVE  request'[k].vouched # "now"
  BY <1>0, <1>5, ReplyLostAnswers, PlaceLost
<1>6. ASSUME Handle(k)
      PROVE  /\ Handling(k)
             /\ request'[k].api = request[k].api /\ request'[k].of = request[k].of
             /\ request'[k].vouched = request[k].vouched
             /\ \/ HasReadModel(request[k].api) /\ ~ databaseUp
                \/ OfDamaged(request[k].api, request[k].of)
  <2>1. PICK p : p = request[k]
    OBVIOUS
  <2>2. IsPlaced(p) /\ Handling(k)
    BY <1>6, <2>1 DEF Handle, Handling, OpsInv, PlaceInv
  <2>3. \A status \in {200, 500}, source \in {None, "database", "artifacts"} :
          LET q == AnsweredWith(p, status, source)
          IN  /\ q.api = p.api /\ q.of = p.of /\ q.vouched = p.vouched
              /\ q.status = status
    BY <2>2, AnsweredIsPlaced
  <2> QED
    BY <1>0, <1>1, <1>6, <2>1, <2>2, <2>3, HandleAnswers DEF AsksDatabase, OfDamaged
<1>7. CASE Handling(k) /\ Handling(k)'
  BY <1>1, <1>7 DEF Handling
<1> QED
  BY <1>1, <1>2, <1>3, <1>4, <1>5, <1>6, <1>7, StepsAnswer

\* A success is a liveness check, or comes from the handler.
LEMMA WhoSucceeds ==
  ASSUME OpsInv, [Next]_opsVars, NEW k \in Slot, Answers(k, 200)
  PROVE  \/ request'[k].of.route = "live"
         \/ /\ Handling(k)
            /\ request'[k].api = request[k].api /\ request'[k].of = request[k].of
            /\ request'[k].vouched = request[k].vouched
            /\ request[k].of.dataset = Geography /\ HasReadModel(request[k].api) /\ row # None
                 => request'[k].source = "database"
<1>0. request = [j \in Slot |-> request[j]] /\ ReadinessType
  BY DEF OpsInv
<1>1. /\ request'[k] # request[k] /\ request'[k] # None
      /\ request'[k].step = "answered" /\ request'[k].status = 200
  BY DEF Answers
<1>2. ASSUME NEW x \in Api, NEW r \in Request, ReceiveUncounted(k, x, r)
      PROVE  request'[k].of.route = "live"
  BY <1>0, <1>1, <1>2, UncountedAnswers, AnswerFields, ReceivedIsPlaced
<1>3. ASSUME NEW x \in Api, NEW r \in Request, ReceiveCounted(k, x, r)
      PROVE  FALSE
  BY <1>0, <1>1, <1>3, CountedAnswers, AnswerFields, ReceivedIsPlaced
<1>4. ASSUME NEW x \in Api, NEW r \in Request, StorageFails(k, x, r)
      PROVE  FALSE
  BY <1>0, <1>1, <1>4, StorageFailsAnswers, AnswerFields
<1>5. ASSUME NEW x \in Api, NEW r \in Request, ReplyLost(k, x, r)
      PROVE  FALSE
  <2> PICK v : v = vouched'[x]
    OBVIOUS
  <2> QED
    BY <1>0, <1>1, <1>5, ReplyLostAnswers, LostFields
<1>6. ASSUME Handle(k)
      PROVE  /\ Handling(k)
             /\ request'[k].api = request[k].api /\ request'[k].of = request[k].of
             /\ request'[k].vouched = request[k].vouched
             /\ request[k].of.dataset = Geography /\ HasReadModel(request[k].api) /\ row # None
                  => request'[k].source = "database"
  <2>1. PICK p : p = request[k]
    OBVIOUS
  <2>2. IsPlaced(p) /\ Handling(k)
    BY <1>6, <2>1 DEF Handle, Handling, OpsInv, PlaceInv
  <2>3. \A status \in {200, 500}, source \in {None, "database", "artifacts"} :
          LET q == AnsweredWith(p, status, source)
          IN  /\ q.api = p.api /\ q.of = p.of /\ q.vouched = p.vouched
              /\ q.status = status /\ q.source = source
    BY <2>2, AnsweredIsPlaced
  <2> QED
    BY <1>0, <1>1, <1>6, <2>1, <2>2, <2>3, HandleAnswers DEF AsksDatabase
<1>7. CASE Handling(k) /\ Handling(k)'
  BY <1>1, <1>7 DEF Handling
<1> QED
  BY <1>1, <1>2, <1>3, <1>4, <1>5, <1>6, <1>7, StepsAnswer

\* Only the guard refuses, a client that its storage has blocked.
LEMMA WhoRefuses ==
  ASSUME OpsInv, [Next]_opsVars, NEW k \in Slot, Answers(k, 429)
  PROVE  \E x \in Api, r \in Request :
           /\ request'[k].of = r
           /\ bucket'[StorageOf(x, Config[x].redis)][TrackerOf(x, r.client)].blocked
<1>0. request = [j \in Slot |-> request[j]] /\ ReadinessType
  BY DEF OpsInv
<1>1. /\ request'[k] # request[k] /\ request'[k] # None
      /\ request'[k].step = "answered" /\ request'[k].status = 429
  BY DEF Answers
<1>2. ASSUME NEW x \in Api, NEW r \in Request, ReceiveUncounted(k, x, r)
      PROVE  FALSE
  BY <1>0, <1>1, <1>2, UncountedAnswers, AnswerFields, ReceivedIsPlaced
<1>3. ASSUME NEW x \in Api, NEW r \in Request, ReceiveCounted(k, x, r)
      PROVE  /\ request'[k].of = r
             /\ bucket'[StorageOf(x, Config[x].redis)][TrackerOf(x, r.client)].blocked
  BY <1>0, <1>1, <1>3, CountedAnswers, AnswerFields, ReceivedIsPlaced
<1>4. ASSUME NEW x \in Api, NEW r \in Request, StorageFails(k, x, r)
      PROVE  FALSE
  BY <1>0, <1>1, <1>4, StorageFailsAnswers, AnswerFields
<1>5. ASSUME NEW x \in Api, NEW r \in Request, ReplyLost(k, x, r)
      PROVE  FALSE
  <2> PICK v : v = vouched'[x]
    OBVIOUS
  <2> QED
    BY <1>0, <1>1, <1>5, ReplyLostAnswers, LostFields
<1>6. ASSUME Handle(k)
      PROVE  FALSE
  <2>1. PICK p : p = request[k]
    OBVIOUS
  <2>2. IsPlaced(p)
    BY <1>6, <2>1 DEF Handle, Handling, OpsInv, PlaceInv
  <2>3. \A status \in {200, 500}, source \in {None, "database", "artifacts"} :
          AnsweredWith(p, status, source).status = status
    BY <2>2, AnsweredIsPlaced
  <2> QED
    BY <1>0, <1>1, <1>6, <2>1, <2>3, HandleAnswers
<1>7. CASE Handling(k) /\ Handling(k)'
  BY <1>1, <1>7 DEF Handling
<1> QED
  BY <1>1, <1>2, <1>3, <1>4, <1>5, <1>6, <1>7, StepsAnswer

\* A request gets to its handler without the guard, or past it.
LEMMA WhoAdmits ==
  ASSUME OpsInv, [Next]_opsVars, NEW k \in Slot, Admits(k)
  PROVE  \E x \in Api, r \in Request :
           /\ request'[k].of = r
           /\ \/ ~ IsPreflight(r) /\ Matched(x, r) /\ ShouldSkipFreeTierQuota(r)
              \/ ~ bucket'[StorageOf(x, Config[x].redis)][TrackerOf(x, r.client)].blocked
<1>0. request = [j \in Slot |-> request[j]] /\ ReadinessType
  BY DEF OpsInv
<1>1. /\ request'[k] # None /\ request'[k].step = "handler"
      /\ request'[k] # request[k] /\ ~ Handling(k)
  BY DEF Admits, Handling
<1>2. ASSUME NEW x \in Api, NEW r \in Request, ReceiveUncounted(k, x, r)
      PROVE  /\ request'[k].of = r
             /\ ~ IsPreflight(r) /\ Matched(x, r) /\ ShouldSkipFreeTierQuota(r)
  BY <1>0, <1>1, <1>2, UncountedAnswers, AnswerFields, ReceivedIsPlaced
<1>3. ASSUME NEW x \in Api, NEW r \in Request, ReceiveCounted(k, x, r)
      PROVE  /\ request'[k].of = r
             /\ ~ bucket'[StorageOf(x, Config[x].redis)][TrackerOf(x, r.client)].blocked
  BY <1>0, <1>1, <1>3, CountedAnswers, AnswerFields, ReceivedIsPlaced
<1>4. ASSUME NEW x \in Api, NEW r \in Request, StorageFails(k, x, r)
      PROVE  FALSE
  BY <1>0, <1>1, <1>4, StorageFailsAnswers, AnswerFields
<1>5. ASSUME NEW x \in Api, NEW r \in Request, ReplyLost(k, x, r)
      PROVE  FALSE
  <2> PICK v : v = vouched'[x]
    OBVIOUS
  <2> QED
    BY <1>0, <1>1, <1>5, ReplyLostAnswers, LostFields
<1>6. ~ Handle(k)
  BY <1>1 DEF Handle
<1> QED
  BY <1>1, <1>2, <1>3, <1>4, <1>5, <1>6, StepsAnswer

-----------------------------------------------------------------------------
(* What holds of a deployment.                                             *)

\* The types of a deployment, for any number of processes, clients and sources.
THEOREM OperationsTypeCorrect ==
  Spec => []OperationsTypeOK
<1>1. FetchInv /\ OpsInv /\ QuotaInv => OperationsTypeOK
  <2> SUFFICES ASSUME FetchInv, OpsInv, QuotaInv PROVE OperationsTypeOK
    OBVIOUS
  <2>1. fetch.attempt \in 1 .. MaxAttempts /\ fetch.outcomes \in Seq(Outcome)
    BY DEF FetchInv, FetchType
  <2>2. \A x \in Api : /\ process[x] \in Process
                       /\ \A c \in Connections : process[x][c] \in ConnectionStates
    BY DEF OpsInv, ReadinessType, Process, Connections
  <2>3. \A x \in Api : /\ process[x].state \in {"down", "starting", "up"}
                       /\ process[x].hooks \subseteq Hooks
                       /\ process[x].loaded \subseteq Source
    BY <2>2 DEF Process
  <2>4. bucket \in [Storage -> [Tracker -> Bucket]] /\ spent \in [Client -> 0 .. Limit + 1]
    BY DEF QuotaInv, BucketType
  <2>5. \A k \in Slot : request[k] # None => process[request[k].api].state = "up"
    BY DEF OpsInv, PlaceInv
  <2>6. /\ redisUp \in BOOLEAN /\ databaseUp \in BOOLEAN
        /\ row \in Row \cup {None} /\ released \subseteq Source
        /\ damaged \subseteq released
    BY Zenon DEF OpsInv, ReadinessType
  <2>7. \A x \in Api : /\ process[x].hooks # {} <=> process[x].state = "starting"
                       /\ vouched[x] \in {"never", "once", "now"}
                       /\ vouched[x] # "never" => process[x].state = "up"
                       /\ probe[x] # None => process[x].state = "up"
    BY DEF OpsInv, ReadinessType
  <2> QED
    BY <2>1, <2>2, <2>3, <2>4, <2>5, <2>6, <2>7, Zenon DEF OperationsTypeOK
<1>2. Spec => []FetchInv
  BY StepsFetch, InitFetchInv, NextFetchInv, PTL DEF Spec, Init
<1> QED
  BY <1>1, <1>2, SpecOpsInv, SpecQuotaInv, PTL

\* If nothing has changed since a process with all it uses required was asked
\* and said it was ready, a data request to it fails only while its throttler
\* is making its own connection to Redis, or because it is answered from
\* artifacts, and those of its dataset cannot be read (health.service.ts:75-103,
\* local-dataset-artifact-reader.service.ts:39-96).
THEOREM ReadyProcessesAnswer ==
  Spec => ReadyAnswers
<1>1. OpsInv /\ [Next]_opsVars =>
        [\A k \in Slot :
           Answers(k, 500) /\ request'[k].vouched = "now" /\ RequiresWhatItUses(request'[k].api)
         => \/ redisUp /\ process[request'[k].api].throttler = "reconnecting"
            \/ OfDamaged(request'[k].api, request'[k].of)]_opsVars
  <2> SUFFICES ASSUME OpsInv, [Next]_opsVars, NEW k \in Slot, Answers(k, 500),
                      request'[k].vouched = "now", RequiresWhatItUses(request'[k].api)
               PROVE  \/ redisUp /\ process[request'[k].api].throttler = "reconnecting"
                      \/ OfDamaged(request'[k].api, request'[k].of)
    OBVIOUS
  <2>1. ASSUME NEW x \in Api, NEW r \in Request, StorageFails(k, x, r),
               request'[k].api = x, vouched[x] = "now"
        PROVE  redisUp /\ process[x].throttler = "reconnecting"
    <3>1. Config[x].redis.enabled /\ FALSE \in Reaches(x, process[x].throttler)
      BY <2>1 DEF StorageFails
    <3>2. redisUp
      BY <2>1, <3>1 DEF OpsInv, VouchInv, VouchedInv, Sound
    <3> QED
      BY <3>1, <3>2 DEF Reaches
  <2>2. ASSUME Handling(k), request'[k].api = request[k].api, request[k].vouched = "now",
               HasReadModel(request[k].api), ~ databaseUp
        PROVE  FALSE
    <3>1. PlaceInv(k) /\ request[k] # None
      BY <2>2 DEF OpsInv, Handling
    <3>2. Sound(request[k].api)
      BY <2>2, <3>1 DEF PlaceInv
    <3> QED
      BY <2>2, <3>2 DEF Sound
  <2> QED
    BY <2>1, <2>2, WhoFails
<1> QED
  BY <1>1, SpecOpsInv, PTL DEF Spec, ReadyAnswers

\* A process that has been ready once, with all it uses required, answers for
\* geography from the database and never from artifacts, whatever stops and is
\* imported since.
THEOREM ReadyProcessesUseTheDatabase ==
  Spec => ReadyFromDatabase
<1>1. OpsInv /\ [Next]_opsVars =>
        [\A k \in Slot :
           Answers(k, 200) /\ request'[k].vouched # "never" /\ request'[k].of.route = "data"
         /\ request'[k].of.dataset = Geography
         /\ HasReadModel(request'[k].api) /\ RequiresWhatItUses(request'[k].api)
         => request'[k].source = "database"]_opsVars
  <2> SUFFICES ASSUME OpsInv, [Next]_opsVars, NEW k \in Slot, Answers(k, 200),
                      request'[k].vouched # "never", request'[k].of.route = "data",
                      request'[k].of.dataset = Geography,
                      HasReadModel(request'[k].api), RequiresWhatItUses(request'[k].api)
               PROVE  request'[k].source = "database"
    OBVIOUS
  <2>1. /\ Handling(k)
        /\ request'[k].api = request[k].api /\ request'[k].of = request[k].of
        /\ request'[k].vouched = request[k].vouched
        /\ request[k].of.dataset = Geography /\ HasReadModel(request[k].api) /\ row # None
             => request'[k].source = "database"
    BY WhoSucceeds
  <2>2. PlaceInv(k) /\ request[k] # None
    BY <2>1 DEF OpsInv, Handling
  <2>3. row # None
    BY <2>1, <2>2 DEF PlaceInv
  <2> QED
    BY <2>1, <2>3
<1> QED
  BY <1>1, SpecOpsInv, PTL DEF Spec, ReadyFromDatabase

\* Over any number of processes that share a Redis, no client gets more than
\* Limit data requests in a window, though replies of Redis are lost.
THEOREM QuotaIsKept ==
  Spec => QuotaKept
<1>1. OpsInv /\ QuotaInv /\ QuotaInv' /\ [Next]_opsVars =>
        [\A k \in Slot :
           SharedQuota /\ Admits(k) /\ IsData(request'[k].of)
           => spent'[request'[k].of.client] <= Limit]_opsVars
  <2> SUFFICES ASSUME OpsInv, QuotaInv', [Next]_opsVars, NEW k \in Slot,
                      SharedQuota, Admits(k), IsData(request'[k].of)
               PROVE  spent'[request'[k].of.client] <= Limit
    OBVIOUS
  <2>1. PICK x \in Api, r \in Request :
          /\ request'[k].of = r
          /\ \/ ~ IsPreflight(r) /\ Matched(x, r) /\ ShouldSkipFreeTierQuota(r)
             \/ ~ bucket'[StorageOf(x, Config[x].redis)][TrackerOf(x, r.client)].blocked
    BY WhoAdmits
  <2>2. ~ (Matched(x, r) /\ ShouldSkipFreeTierQuota(r))
    BY <2>1 DEF IsData, Matched, ShouldSkipFreeTierQuota, SharedQuota
  <2> PICK t : t = TrackerOf(x, r.client)
    OBVIOUS
  <2>3. r.client \in Client /\ t \in Trackers(r.client) /\ t \in Tracker
    BY OperationsAssumption, TrackersAreTrackers
  <2>4. StorageOf(x, Config[x].redis) = "redis" /\ "redis" \in Storage
    BY DEF SharedQuota, StorageOf, Storage
  <2>5. ~ bucket'["redis"][t].blocked
    BY <2>1, <2>2, <2>4
  <2>6. SharedQuota' /\ Trackers(r.client)' = Trackers(r.client)
    BY DEF SharedQuota, Trackers, TrackerOf
  <2>7. /\ spent'[r.client] <= bucket'["redis"][t].hits
        /\ bucket'["redis"][t] \in Bucket /\ bucket'["redis"][t].hits # Limit + 1
        /\ spent'[r.client] \in 0 .. Limit + 1
    BY <2>3, <2>4, <2>5, <2>6 DEF QuotaInv, ChargesAreHits, BucketType, Tracker, Trackers,
                                 TrackerOf
  <2> QED
    BY <2>1, <2>7, GatewayAssumption DEF Bucket
<1> QED
  BY <1>1, SpecOpsInv, SpecQuotaInv, PTL DEF Spec, QuotaKept

\* Where no two clients are taken for one, none is refused for what others, or
\* requests that are not counted, have done, counted in Redis or in memory.
THEOREM QuotaIsTheirOwn ==
  ASSUME ClientsApart
  PROVE  Spec => OnlyOwnQuota
<1>1. OpsInv /\ QuotaInv /\ QuotaInv' /\ [Next]_opsVars =>
        [\A k \in Slot : Answers(k, 429) => spent'[request'[k].of.client] > Limit]_opsVars
  <2> SUFFICES ASSUME OpsInv, QuotaInv', [Next]_opsVars, NEW k \in Slot, Answers(k, 429)
               PROVE  spent'[request'[k].of.client] > Limit
    OBVIOUS
  <2>1. PICK x \in Api, r \in Request :
          /\ request'[k].of = r
          /\ bucket'[StorageOf(x, Config[x].redis)][TrackerOf(x, r.client)].blocked
    BY WhoRefuses
  <2> PICK t, s : t = TrackerOf(x, r.client) /\ s = StorageOf(x, Config[x].redis)
    OBVIOUS
  <2>2. r.client \in Client /\ t \in Trackers(r.client) /\ t \in Tracker
    BY OperationsAssumption, TrackersAreTrackers
  <2>3. s \in Storage
    BY DEF StorageOf, Storage
  <2>4. Trackers(r.client)' = Trackers(r.client) /\ ClientsApart'
    BY DEF Trackers, TrackerOf, ClientsApart
  <2>5. bucket'[s][t].hits = Limit + 1
    BY <2>1, <2>2, <2>3 DEF QuotaInv, BucketType, Tracker, Trackers, TrackerOf
  <2>6. bucket'[s][t].hits <= spent'[r.client]
    BY <2>2, <2>3, <2>4 DEF QuotaInv, HitsAreCharged, Trackers, TrackerOf
  <2>7. spent'[r.client] \in 0 .. Limit + 1
    BY <2>2 DEF QuotaInv, BucketType
  <2> QED
    BY <2>1, <2>5, <2>6, <2>7, GatewayAssumption
<1> QED
  BY <1>1, SpecOpsInv, SpecQuotaInv, PTL DEF Spec, OnlyOwnQuota

\* The origins that an application lets in.
Allows(app, origin) ==
  \/ app.corsOrigin.kind \in {"true", "*"}
  \/ /\ app.corsOrigin.kind = "list"
     /\ NormalizeOrigin[origin] \in app.corsOrigin.origins \ {None}

\* What the hook gives to a request of a page, for every configuration.
LEMMA HeadersAsConfigured ==
  ASSUME NEW x \in Api, NEW r \in Request, r.origin # None
  PROVE  LET app == Config[x].app
             headers == CorsHeaders(r, app)
         IN  /\ Readable(r.origin, FALSE, headers) <=> Allows(app, r.origin)
             /\ Readable(r.origin, TRUE, headers) <=> Allows(app, r.origin) /\ app.corsCredentials
             /\ IsPreflight(r) /\ PreflightStatus(r, app) = 204 => Allows(app, r.origin)
<1> PICK app : app = Config[x].app
  OBVIOUS
<1> DEFINE responseOrigin == ResponseOrigin(r, app)
           headers == CorsHeaders(r, app)
<1>1. /\ app.corsOrigin.kind \in {"false", "true", "*", "list"}
      /\ app.corsCredentials \in BOOLEAN
      /\ r.origin # "*" /\ None # "*"
  BY OperationsAssumption
<1>2. responseOrigin = IF ~ Allows(app, r.origin) THEN None
                       ELSE IF app.corsOrigin.kind = "*" /\ ~ app.corsCredentials
                              THEN "*" ELSE r.origin
  BY <1>1 DEF ResponseOrigin, GetCorsResponseOrigin, IsOriginAllowed, Allows
<1> HIDE DEF responseOrigin
<1>3. headers.allowOrigin = responseOrigin
  BY DEF CorsHeaders, responseOrigin
<1>4. headers.allowCredentials =
        (responseOrigin # None /\ app.corsCredentials /\ responseOrigin # "*")
  BY DEF CorsHeaders, responseOrigin
<1>5. headers.allowCredentials <=>
        responseOrigin # None /\ app.corsCredentials /\ responseOrigin # "*"
  BY <1>4, Zenon
<1>6. IsPreflight(r) /\ PreflightStatus(r, app) = 204 => responseOrigin # None
  BY DEF PreflightStatus, responseOrigin
<1> HIDE DEF headers
<1>7. Readable(r.origin, FALSE, headers) <=> Allows(app, r.origin)
  BY <1>1, <1>2, <1>3 DEF Readable
<1>8. Readable(r.origin, TRUE, headers) <=> Allows(app, r.origin) /\ app.corsCredentials
  BY <1>1, <1>2, <1>3, <1>5 DEF Readable
<1> QED
  BY <1>2, <1>6, <1>7, <1>8 DEF headers

\* Browsers let pages of the configured origins, and no others, read answers,
\* for every configuration and whatever becomes of the request (setupCors:122).
THEOREM CorsIsAsConfigured ==
  Spec => []CorsAsConfigured
<1>1. OpsInv => CorsAsConfigured
  <2> SUFFICES ASSUME OpsInv, NEW k \in Slot, Answered(k), request[k].of.origin # None
               PROVE  LET app == Config[request[k].api].app
                          origin == request[k].of.origin
                          headers == request[k].headers
                      IN  /\ Readable(origin, FALSE, headers) <=> Allows(app, origin)
                          /\ Readable(origin, TRUE, headers)
                               <=> Allows(app, origin) /\ app.corsCredentials
                          /\ request[k].status = 204 => Allows(app, origin)
    BY Zenon DEF CorsAsConfigured, Allows
  <2> PICK p, x, r : p = request[k] /\ x = p.api /\ r = p.of
    OBVIOUS
  <2>1. /\ x \in Api /\ r \in Request /\ p.headers = CorsHeaders(r, Config[x].app)
        /\ p.status = 204 => IsPreflight(r) /\ PreflightStatus(r, Config[x].app) = 204
    BY DEF Answered, OpsInv, PlaceInv, IsPlaced
  <2>2. /\ Readable(r.origin, FALSE, CorsHeaders(r, Config[x].app))
             <=> Allows(Config[x].app, r.origin)
        /\ Readable(r.origin, TRUE, CorsHeaders(r, Config[x].app))
             <=> Allows(Config[x].app, r.origin) /\ Config[x].app.corsCredentials
        /\ IsPreflight(r) /\ PreflightStatus(r, Config[x].app) = 204
             => Allows(Config[x].app, r.origin)
    <3>1. r.origin # None
      OBVIOUS
    <3> QED
      BY <2>1, <3>1, HeadersAsConfigured, Zenon
  <2>3. /\ Readable(r.origin, FALSE, p.headers) <=> Allows(Config[x].app, r.origin)
        /\ Readable(r.origin, TRUE, p.headers)
             <=> Allows(Config[x].app, r.origin) /\ Config[x].app.corsCredentials
    BY <2>1, <2>2, Zenon
  <2>4. p.status = 204 => Allows(Config[x].app, r.origin)
    BY <2>1, <2>2, Zenon
  <2> QED
    BY <2>3, <2>4, Zenon
<1> QED
  BY <1>1, SpecOpsInv, PTL

=============================================================================
