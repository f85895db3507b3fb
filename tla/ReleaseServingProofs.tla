------------------------ MODULE ReleaseServingProofs ------------------------
(***************************************************************************)
(* Theorems about ReleaseServing: its type invariant, that a process with  *)
(* a lock serves what its lock vouches for, and that answers carry what    *)
(* the served manifest declares.  That every step of a process leaves the  *)
(* releases directory alone, and every step of a run of the sync command   *)
(* the processes, lets the invariants of ReleaseSync be used as they are.  *)
(***************************************************************************)
EXTENDS ReleaseServing, ReleaseSyncProofs

-----------------------------------------------------------------------------
(* What carries over from ReleaseSync.                                     *)

LEMMA ServingStepSyncs == [ServingNext]_<< vars, serving >> => [Next]_vars
BY DEF ServingNext

LEMMA SpecRefinesSync == ServingSpec => Spec
<1>1. ServingInit => Init
  BY DEF ServingInit
<1>2. QED BY <1>1, ServingStepSyncs, PTL DEF ServingSpec, Spec

LEMMA ServingTInv == ServingSpec => []TInv
<1>1. QED BY SpecRefinesSync, SpecTInv, PTL

LEMMA ServingLiveTrusted ==
  ASSUME InitiallyGood PROVE ServingSpec => []LiveTrusted
<1>1. Spec => []LiveTrusted
  BY LiveIsTrusted
<1>2. QED BY <1>1, SpecRefinesSync, PTL

\* A manifest in the releases directory is one of the manifests.
LEMMA LiveManifest ==
  ASSUME TInv, NEW d \in Directory, live[d] # None
  PROVE  live[d].manifest \in Manifest \cup {None}
BY DEF TInv, TypeOK, Content

LEMMA LiveFile ==
  ASSUME TInv, NEW d \in Directory, live[d] # None, NEW x \in Artifact
  PROVE  live[d].files[x] \in Bytes \cup {None}
BY DEF TInv, TypeOK, Content

-----------------------------------------------------------------------------
(* Type correctness.                                                       *)

StartingTypeOK ==
  /\ boot \in [Api -> Boots]
  /\ agenda \in [Api -> SUBSET Slug]
  /\ listed \in [Api -> SUBSET Directory]
  /\ found \in [Api -> SUBSET Directory]
  /\ loaded \in [Api -> SUBSET Registration]
  /\ registry \in [Api -> SUBSET Registration]

CallsTypeOK ==
  /\ step \in [Call -> CallSteps]
  /\ reading \in [Call -> Registration \cup {None}]
  /\ wanted \in [Call -> Artifact]
  /\ outcome \in [Call -> Outcomes]
  /\ payload \in [Call -> Bytes \cup {None}]
  /\ payloads \in [PayloadKey -> Bytes \cup {None}]

LEMMA ServingTypeParts == ServingTypeOK <=> StartingTypeOK /\ CallsTypeOK
BY DEF ServingTypeOK, StartingTypeOK, CallsTypeOK

\* The call of a request that is under way has a registration and asks for an
\* artifact that its manifest declares.
Underway ==
  \A c \in Call :
    step[c] # "done" => /\ reading[c] # None
                        /\ Declared(c) # None
                        /\ outcome[c] = "pending"

ServingInv == ServingTypeOK /\ Underway

LEMMA RegistrationFacts ==
  ASSUME NEW r \in Registration
  PROVE  r.manifest \in Manifest /\ r.directory \in Directory /\ r # None
BY ServingAssumption DEF Registration

LEMMA DeclaredType ==
  ASSUME ServingInv, NEW c \in Call, step[c] # "done"
  PROVE  /\ reading[c] \in Registration
         /\ Declared(c) \in Bytes
         /\ KeyOf(reading[c].manifest, wanted[c]) \in PayloadKey
         /\ KeyOf(reading[c].manifest, wanted[c]).digest = Declared(c)
<1>1. reading[c] \in Registration /\ wanted[c] \in Artifact
  BY DEF ServingInv, ServingTypeOK, Underway
<1>2. reading[c].manifest \in Manifest
  BY <1>1, RegistrationFacts
<1>3. Declared(c) \in Bytes
  BY <1>1, <1>2, ManifestFacts DEF ServingInv, Underway, Declared
<1>4. KeyOf(reading[c].manifest, wanted[c]).digest = Declared(c)
  BY DEF KeyOf, Declared
<1>5. /\ DatasetOf[reading[c].manifest] \in Dataset
      /\ ManifestData[reading[c].manifest].version \in Version
  BY <1>2, ServingAssumption
<1>6. KeyOf(reading[c].manifest, wanted[c]) \in PayloadKey
  BY <1>1, <1>3, <1>5 DEF KeyOf, PayloadKey, Declared
<1>7. QED BY <1>1, <1>3, <1>4, <1>6

LEMMA ServingInvInit == ServingInit => ServingInv
BY DEF ServingInit, ServingInv, ServingTypeOK, Underway, Boots, CallSteps, Outcomes

\* The steps of the startup.
LEMMA BootStepInv ==
  ASSUME TInv, ServingInv, NEW a \in Api, BootStep(a)
  PROVE  ServingInv'
<1>1. UNCHANGED << calls, payloads >>
  BY DEF BootStep, Boot, ListDataset, ListRelease, LoadManifest, SelectPinned,
         SelectLatest, Refuse
<1>2. CallsTypeOK' /\ Underway'
  BY <1>1 DEF ServingInv, ServingTypeOK, CallsTypeOK, Underway, calls, Declared
<1>3. StartingTypeOK
  BY ServingTypeParts DEF ServingInv
<1>4. StartingTypeOK'
  <2>1. CASE Boot(a)
    BY <1>3, <2>1 DEF Boot, Advance, StartingTypeOK, Boots
  <2>2. CASE ListDataset(a)
    BY <1>3, <2>2 DEF ListDataset, StartingTypeOK
  <2>3. CASE ListRelease(a)
    BY <1>3, <2>3 DEF ListRelease, StartingTypeOK
  <2>4. CASE LoadManifest(a)
    <3>1. PICK d \in found[a] :
            LET m == IF live[d] = None THEN None ELSE live[d].manifest
            IN  \/ /\ m # None
                   /\ loaded' = [loaded EXCEPT ![a] =
                                   @ \cup {[manifest |-> m, directory |-> d]}]
                   /\ found' = [found EXCEPT ![a] = @ \ {d}]
                   /\ UNCHANGED boot
                \/ Advance(a, "refused") /\ UNCHANGED << loaded, found >>
      BY <2>4 DEF LoadManifest
    <3>2. UNCHANGED << agenda, listed, registry >>
      BY <2>4 DEF LoadManifest
    <3>3. d \in Directory
      BY <1>3 DEF StartingTypeOK
    <3>4. CASE Advance(a, "refused") /\ UNCHANGED << loaded, found >>
      BY <1>3, <3>2, <3>4 DEF StartingTypeOK, Advance, Boots
    <3>5. CASE /\ live[d] # None /\ live[d].manifest # None
               /\ loaded' = [loaded EXCEPT ![a] =
                       @ \cup {[manifest |-> live[d].manifest, directory |-> d]}]
               /\ found' = [found EXCEPT ![a] = @ \ {d}]
               /\ UNCHANGED boot
      <4>1. [manifest |-> live[d].manifest, directory |-> d] \in Registration
        BY <3>3, <3>5, LiveManifest DEF Registration
      <4>2. QED BY <1>3, <3>2, <3>5, <4>1 DEF StartingTypeOK
    <3>6. QED BY <3>1, <3>4, <3>5
  <2>5. CASE SelectPinned(a)
    <3>1. UNION { MatchesOf(a, s) : s \in Lock[a] } \in SUBSET Registration
      BY <1>3 DEF MatchesOf, StartingTypeOK
    <3>2. QED BY <1>3, <2>5, <3>1 DEF SelectPinned, Advance, StartingTypeOK, Boots
  <2>6. CASE SelectLatest(a)
    BY <1>3, <2>6 DEF SelectLatest, Advance, StartingTypeOK, Boots
  <2>7. CASE Refuse(a)
    BY <1>3, <2>7 DEF Refuse, Advance, StartingTypeOK, Boots
  <2>8. QED BY <2>1, <2>2, <2>3, <2>4, <2>5, <2>6, <2>7 DEF BootStep
<1>5. QED BY <1>2, <1>4 DEF ServingInv, ServingTypeOK, StartingTypeOK, CallsTypeOK

LEMMA StopInv ==
  ASSUME ServingInv, NEW a \in Api, Stop(a)
  PROVE  ServingInv'
<1>1. StartingTypeOK' /\ CallsTypeOK'
  BY DEF ServingInv, ServingTypeOK, Stop, Advance, StartingTypeOK, CallsTypeOK,
         Boots, CallSteps, Outcomes
<1>2. ASSUME NEW c \in Call, step'[c] # "done"
      PROVE  /\ ApiOf[c] # a /\ step[c] # "done"
             /\ reading'[c] = reading[c] /\ wanted'[c] = wanted[c]
             /\ outcome'[c] = outcome[c]
  BY <1>2 DEF Stop
<1>3. Underway'
  BY <1>2 DEF ServingInv, Underway, Declared
<1>4. QED BY <1>1, <1>3 DEF ServingInv, ServingTypeOK, StartingTypeOK, CallsTypeOK

\* The steps of a request: the call that has made one is of its type, and the
\* other calls are as they were.
LEMMA AskArtifactInv ==
  ASSUME ServingInv, NEW c \in Call, AskArtifact(c)
  PROVE  ServingInv'
<1>1. StartingTypeOK' /\ CallsTypeOK
  BY DEF ServingInv, ServingTypeOK, StartingTypeOK, CallsTypeOK, AskArtifact, starting
<1>2. registry[ApiOf[c]] \in SUBSET Registration
  BY ServingAssumption DEF ServingInv, ServingTypeOK
<1>3. PICK x \in Artifact :
        /\ wanted' = [wanted EXCEPT ![c] = x]
        /\ \/ \E r \in registry[ApiOf[c]] :
                /\ reading' = [reading EXCEPT ![c] = r]
                /\ \/ /\ Digest(r.manifest)[x] # None
                      /\ outcome' = [outcome EXCEPT ![c] = "pending"]
                      /\ payload' = [payload EXCEPT ![c] = None]
                      /\ Proceed(c, "lookup")
                   \/ Answer(c, "failed", None)
           \/ /\ reading' = [reading EXCEPT ![c] = None]
              /\ Answer(c, "empty", None)
  BY DEF AskArtifact
<1>4. payloads' = payloads
  BY DEF AskArtifact
<1>5. CASE \E r \in registry[ApiOf[c]] :
               /\ reading' = [reading EXCEPT ![c] = r]
               /\ Digest(r.manifest)[x] # None
               /\ outcome' = [outcome EXCEPT ![c] = "pending"]
               /\ payload' = [payload EXCEPT ![c] = None]
               /\ Proceed(c, "lookup")
  <2>1. PICK r \in registry[ApiOf[c]] :
               /\ reading' = [reading EXCEPT ![c] = r]
               /\ Digest(r.manifest)[x] # None
               /\ outcome' = [outcome EXCEPT ![c] = "pending"]
               /\ payload' = [payload EXCEPT ![c] = None]
               /\ Proceed(c, "lookup")
    BY <1>5
  <2>2. r \in Registration /\ r # None
    BY <1>2, <2>1, RegistrationFacts
  <2>3. CallsTypeOK'
    BY <1>1, <1>3, <1>4, <2>1, <2>2 DEF CallsTypeOK, Proceed, CallSteps, Outcomes
  <2>4. Underway'
    BY <1>1, <1>3, <2>1, <2>2
       DEF ServingInv, Underway, CallsTypeOK, Proceed, Declared, Digest
  <2>5. QED BY <1>1, <2>3, <2>4
            DEF ServingInv, ServingTypeOK, StartingTypeOK, CallsTypeOK
<1>6. CASE \E r \in Registration \cup {None}, o \in {"failed", "empty"} :
               /\ reading' = [reading EXCEPT ![c] = r]
               /\ Answer(c, o, None)
  <2>1. CallsTypeOK'
    BY <1>1, <1>3, <1>4, <1>6
       DEF CallsTypeOK, Answer, Proceed, CallSteps, Outcomes
  <2>2. Underway'
    BY <1>1, <1>3, <1>6
       DEF ServingInv, Underway, CallsTypeOK, Answer, Proceed, Declared, Digest
  <2>3. QED BY <1>1, <2>1, <2>2
            DEF ServingInv, ServingTypeOK, StartingTypeOK, CallsTypeOK
<1>7. QED BY <1>2, <1>3, <1>5, <1>6

LEMMA CallStepInv ==
  ASSUME TInv, ServingInv, NEW c \in Call, CallStep(c)
  PROVE  ServingInv'
<1>1. StartingTypeOK' /\ CallsTypeOK /\ reading' = reading /\ wanted' = wanted
  BY DEF ServingInv, ServingTypeOK, StartingTypeOK, CallsTypeOK, CallStep,
         LookUpPayload, ReadFile, PutPayload, starting
<1>2. step[c] # "done"
  BY DEF CallStep, LookUpPayload, ReadFile, PutPayload
<1>3. /\ Declared(c) \in Bytes
      /\ KeyOf(reading[c].manifest, wanted[c]) \in PayloadKey
  BY <1>2, DeclaredType
<1>4. CallsTypeOK'
  <2>1. CASE LookUpPayload(c)
    <3>1. Cached(c) \in Bytes \cup {None}
      BY <1>1, <1>3 DEF Cached, CallsTypeOK
    <3>2. QED BY <1>1, <2>1, <3>1
              DEF LookUpPayload, CallsTypeOK, Answer, Proceed, CallSteps, Outcomes
  <2>2. CASE ReadFile(c)
    BY <1>1, <1>3, <2>2
       DEF ReadFile, CallsTypeOK, Answer, Proceed, CallSteps, Outcomes
  <2>3. CASE PutPayload(c)
    BY <1>1, <1>3, <2>3
       DEF PutPayload, CallsTypeOK, Answer, Proceed, CallSteps, Outcomes
  <2>4. QED BY <2>1, <2>2, <2>3 DEF CallStep
<1>5. ASSUME NEW d \in Call, step'[d] # "done"
      PROVE  step[d] # "done" /\ outcome'[d] = outcome[d]
  BY <1>1, <1>2, <1>5
     DEF CallStep, LookUpPayload, ReadFile, PutPayload, CallsTypeOK, Answer, Proceed
<1>6. Underway'
  BY <1>1, <1>5 DEF ServingInv, Underway, Declared
<1>7. QED BY <1>1, <1>4, <1>6
          DEF ServingInv, ServingTypeOK, StartingTypeOK, CallsTypeOK

LEMMA ServingStutter ==
  ASSUME ServingInv, UNCHANGED serving
  PROVE  ServingInv'
BY DEF ServingInv, ServingTypeOK, Underway, Declared, serving, starting, calls

LEMMA NextServingInv ==
  ASSUME TInv, ServingInv, [ServingNext]_<< vars, serving >>
  PROVE  ServingInv'
<1>1. CASE UNCHANGED serving
  BY <1>1, ServingStutter
<1>2. CASE ServingStep
  BY <1>2, BootStepInv, StopInv, AskArtifactInv, CallStepInv DEF ServingStep
<1>3. QED BY <1>1, <1>2 DEF ServingNext

LEMMA SpecServingInv == ServingSpec => []ServingInv
<1>1. TInv /\ ServingInv /\ [ServingNext]_<< vars, serving >> => ServingInv'
  BY NextServingInv
<1>2. QED BY <1>1, ServingInvInit, ServingTInv, PTL DEF ServingSpec

\* Every variable of the processes keeps its type, whatever the runs of the
\* sync command do to the directories they read (findManifestFiles:27-60,
\* onModuleInit:134-164, readJsonArtifact:39-96).
THEOREM ServingTypeCorrect == ServingSpec => []ServingTypeOK
<1>1. ServingInv => ServingTypeOK
  BY DEF ServingInv
<1>2. QED BY <1>1, SpecServingInv, PTL

-----------------------------------------------------------------------------
(* What a process with a lock serves.                                      *)
(*                                                                         *)
(* The registry compares the repository and the tag.  What it has loaded   *)
(* was live, so a source vouches for it (LiveTrusted), and the repository  *)
(* and the tag tell which.                                                 *)

\* No two sources have one repository and one tag.
SourcesDistinguished ==
  \A s, t \in Source :
     /\ SourceConfig[s].repository = SourceConfig[t].repository
     /\ SourceConfig[s].tag = SourceConfig[t].tag
     => s = t

LoadedVouched ==
  \A a \in Api : \A r \in loaded[a] : \E t \in Source : Eligible(t, r.manifest)

LEMMA MatchVouched ==
  ASSUME SourcesDistinguished, NEW s \in Source, NEW m \in Manifest, Matches(s, m),
         NEW t \in Source, Eligible(t, m)
  PROVE  Eligible(s, m)
<1>1. /\ SourceConfig[s].repository = SourceConfig[t].repository
      /\ SourceConfig[s].tag = SourceConfig[t].tag
  BY DEF Matches, Eligible, ManifestIdentified
<1>2. QED BY <1>1 DEF SourcesDistinguished

LEMMA BootStepVouched ==
  ASSUME SourcesDistinguished, LiveTrusted, ServingInv, LoadedVouched, PinsServed,
         NEW a \in Api, BootStep(a)
  PROVE  LoadedVouched' /\ PinsServed'
<1>1. StartingTypeOK
  BY ServingTypeParts DEF ServingInv
<1>2. CASE Boot(a) \/ ListDataset(a) \/ ListRelease(a) \/ Refuse(a)
  <2>1. UNCHANGED << loaded, registry >>
    BY <1>2 DEF Boot, ListDataset, ListRelease, Refuse
  <2>2. \A e \in Api : Up(e)' => Up(e)
    BY <1>1, <1>2 DEF Boot, ListDataset, ListRelease, Refuse, Advance, Up, StartingTypeOK
  <2>3. QED BY <2>1, <2>2 DEF LoadedVouched, PinsServed
<1>3. CASE LoadManifest(a)
  <2>1. registry' = registry
    BY <1>3 DEF LoadManifest
  <2>2. \A e \in Api : Up(e)' => Up(e)
    BY <1>1, <1>3 DEF LoadManifest, Advance, Up, StartingTypeOK
  <2>3. ASSUME NEW e \in Api, NEW r \in loaded'[e]
        PROVE  \E t \in Source : Eligible(t, r.manifest)
    <3>1. CASE r \in loaded[e]
      BY <3>1 DEF LoadedVouched
    <3>2. CASE r \notin loaded[e]
      <4>1. PICK d \in found[a] :
              /\ live[d] # None
              /\ loaded' = [loaded EXCEPT ![a] =
                   @ \cup {[manifest |-> live[d].manifest, directory |-> d]}]
        BY <1>3, <3>2 DEF LoadManifest
      <4>2. r.manifest = live[d].manifest /\ d \in Directory
        BY <1>1, <3>2, <4>1 DEF StartingTypeOK
      <4>3. QED BY <4>1, <4>2 DEF LiveTrusted, Trusted
    <3>3. QED BY <3>1, <3>2
  <2>4. QED BY <2>1, <2>2, <2>3 DEF LoadedVouched, PinsServed
<1>4. CASE SelectPinned(a)
  <2>1. /\ registry' = [registry EXCEPT ![a] = UNION { MatchesOf(a, s) : s \in Lock[a] }]
        /\ boot' = [boot EXCEPT ![a] = "up"]
        /\ a \in Required => Missing(a) = {}
        /\ loaded' = loaded
    BY <1>4 DEF SelectPinned, Advance
  <2>2. Lock[a] \in SUBSET Source
    BY ServingAssumption
  <2>3. ASSUME NEW s \in Lock[a], NEW r \in MatchesOf(a, s)
        PROVE  r \in registry'[a] /\ Eligible(s, r.manifest)
    <3>1. r \in loaded[a] /\ Matches(s, r.manifest)
      BY DEF MatchesOf
    <3>2. r.manifest \in Manifest
      BY <1>1, <3>1, RegistrationFacts DEF StartingTypeOK
    <3>3. QED BY <1>1, <2>1, <2>2, <3>1, <3>2, MatchVouched
              DEF LoadedVouched, StartingTypeOK
  <2>4. \A r \in registry'[a] : \E s \in Lock[a] : Eligible(s, r.manifest)
    BY <1>1, <2>1, <2>3 DEF StartingTypeOK
  <2>5. ASSUME a \in Required, NEW s \in Lock[a]
        PROVE  \E r \in registry'[a] : Eligible(s, r.manifest)
    <3>1. MatchesOf(a, s) # {}
      BY <2>1, <2>5 DEF Missing
    <3>2. QED BY <2>3, <3>1
  <2>6. \A e \in Api \ {a} : registry'[e] = registry[e] /\ (Up(e)' => Up(e))
    BY <1>1, <2>1 DEF StartingTypeOK, Up
  <2>7. QED BY <2>1, <2>4, <2>5, <2>6 DEF LoadedVouched, PinsServed
<1>5. CASE SelectLatest(a)
  <2>1. loaded' = loaded /\ Lock[a] = {}
    BY <1>5 DEF SelectLatest
  <2>2. \A e \in Api \ {a} : registry'[e] = registry[e] /\ (Up(e)' => Up(e))
    BY <1>1, <1>5 DEF SelectLatest, Advance, StartingTypeOK, Up
  <2>3. QED BY <2>1, <2>2 DEF LoadedVouched, PinsServed
<1>6. QED BY <1>2, <1>3, <1>4, <1>5 DEF BootStep

LEMMA NextVouched ==
  ASSUME SourcesDistinguished, LiveTrusted, ServingInv, LoadedVouched, PinsServed,
         [ServingNext]_<< vars, serving >>
  PROVE  LoadedVouched' /\ PinsServed'
<1>1. CASE UNCHANGED starting
  BY <1>1 DEF LoadedVouched, PinsServed, Up, starting
<1>2. CASE \E a \in Api : Stop(a)
  <2>1. PICK a \in Api : Stop(a)
    BY <1>2
  <2>2. \A e \in Api : /\ loaded'[e] \in SUBSET loaded[e]
                       /\ Up(e)' => Up(e) /\ registry'[e] = registry[e]
    BY <2>1 DEF ServingInv, ServingTypeOK, Stop, Advance, Up
  <2>3. QED BY <2>2 DEF LoadedVouched, PinsServed
<1>3. CASE \E a \in Api : BootStep(a)
  BY <1>3, BootStepVouched
<1>4. ASSUME NEW c \in Call, AskArtifact(c) \/ CallStep(c) PROVE UNCHANGED starting
  BY <1>4 DEF AskArtifact, CallStep, LookUpPayload, ReadFile, PutPayload
<1>5. QED BY <1>1, <1>2, <1>3, <1>4 DEF ServingNext, ServingStep, serving

\* From intact directories, and when a repository and a tag name one source, a
\* process with a lock serves manifests its lock vouches for and nothing else,
\* and where releases are required all of them
\* (selectPinnedManifestRegistrations:78-120, onModuleInit:134-155).
THEOREM PinsAreServed ==
  ASSUME InitiallyGood, SourcesDistinguished
  PROVE  ServingSpec => []PinsServed
<1>1. ServingInit => LoadedVouched /\ PinsServed
  BY DEF ServingInit, LoadedVouched, PinsServed, Up
<1>2. /\ LiveTrusted /\ ServingInv /\ LoadedVouched /\ PinsServed
      /\ [ServingNext]_<< vars, serving >>
      => LoadedVouched' /\ PinsServed'
  BY NextVouched
<1>3. ServingSpec => []LiveTrusted
  BY ServingLiveTrusted
<1>4. QED BY <1>1, <1>2, <1>3, SpecServingInv, PTL DEF ServingSpec

-----------------------------------------------------------------------------
(* A dataset is served from one release.                                   *)

LEMMA NextOneRelease ==
  ASSUME ServingInv, OneReleaseServed, [ServingNext]_<< vars, serving >>
  PROVE  OneReleaseServed'
<1>1. StartingTypeOK
  BY ServingTypeParts DEF ServingInv
<1>2. CASE UNCHANGED starting
  BY <1>2 DEF OneReleaseServed, Up, starting
<1>3. ASSUME NEW a \in Api, BootStep(a) PROVE OneReleaseServed'
  <2>1. CASE SelectPinned(a) \/ SelectLatest(a)
    <3>1. \A e \in Api \ {a} : registry'[e] = registry[e] /\ (Up(e)' => Up(e))
      BY <1>1, <2>1 DEF SelectPinned, SelectLatest, Advance, Up, StartingTypeOK
    <3>2. \A q, r \in registry'[a] :
             DatasetOf[q.manifest] = DatasetOf[r.manifest] => q = r
      <4>1. CASE SelectPinned(a)
        <5>1. /\ registry'[a] = UNION { MatchesOf(a, s) : s \in Lock[a] }
              /\ Unambiguous(a)
          BY <1>1, <4>1 DEF SelectPinned, StartingTypeOK
        <5>2. SUFFICES ASSUME NEW s \in Lock[a], NEW t \in Lock[a],
                              NEW q \in MatchesOf(a, s), NEW r \in MatchesOf(a, t),
                              DatasetOf[q.manifest] = DatasetOf[r.manifest]
                       PROVE  q = r
          BY <5>1
        <5>3. QED BY <5>1, <5>2 DEF Unambiguous
      <4>2. CASE SelectLatest(a)
        BY <1>1, <4>2 DEF SelectLatest, OnePerDataset, StartingTypeOK
      <4>3. QED BY <2>1, <4>1, <4>2
    <3>3. QED BY <3>1, <3>2 DEF OneReleaseServed
  <2>2. CASE Boot(a) \/ ListDataset(a) \/ ListRelease(a) \/ LoadManifest(a) \/ Refuse(a)
    <3>1. registry' = registry /\ \A e \in Api : Up(e)' => Up(e)
      BY <1>1, <2>2 DEF Boot, ListDataset, ListRelease, LoadManifest, Refuse, Advance,
                        Up, StartingTypeOK
    <3>2. QED BY <3>1 DEF OneReleaseServed
  <2>3. QED BY <1>3, <2>1, <2>2 DEF BootStep
<1>4. ASSUME NEW a \in Api, Stop(a) PROVE OneReleaseServed'
  <2>1. \A e \in Api : Up(e)' => Up(e) /\ registry'[e] = registry[e]
    BY <1>1, <1>4 DEF Stop, Advance, Up, StartingTypeOK
  <2>2. QED BY <2>1 DEF OneReleaseServed
<1>5. ASSUME NEW c \in Call, AskArtifact(c) \/ CallStep(c) PROVE UNCHANGED starting
  BY <1>5 DEF AskArtifact, CallStep, LookUpPayload, ReadFile, PutPayload
<1>6. QED BY <1>2, <1>3, <1>4, <1>5 DEF ServingNext, ServingStep, serving

\* Whichever releases are in place when a process starts, with a lock or
\* without, it serves one release of a dataset at most
\* (selectPinnedManifestRegistrations:99-116,
\* selectLatestManifestRegistrations:63-76).
THEOREM OneReleaseIsServed == ServingSpec => []OneReleaseServed
<1>1. ServingInit => OneReleaseServed
  BY DEF ServingInit, OneReleaseServed, Up
<1>2. ServingInv /\ OneReleaseServed /\ [ServingNext]_<< vars, serving >>
        => OneReleaseServed'
  BY NextOneRelease
<1>3. QED BY <1>1, <1>2, SpecServingInv, PTL DEF ServingSpec

-----------------------------------------------------------------------------
(* What answers carry.                                                     *)
(*                                                                         *)
(* Every entry of the cache has the contents its key names, and so has the *)
(* payload a request is about to put there.                                *)

PayloadsDeclared == \A k \in PayloadKey : payloads[k] \in {None, k.digest}

PutDeclared == \A c \in Call : step[c] = "put" => payload[c] = Declared(c)

AnswerInv == PayloadsDeclared /\ PutDeclared /\ AnswersDeclared

\* What an answer means to AnswerInv: the calls that answer or are about to.
LEMMA OtherCalls ==
  ASSUME AnswerInv, NEW c \in Call,
         \A d \in Call \ {c} :
            /\ step'[d] = step[d] /\ outcome'[d] = outcome[d]
            /\ payload'[d] = payload[d]
            /\ reading'[d] = reading[d] /\ wanted'[d] = wanted[d],
         step'[c] = "put" \/ outcome'[c] = "found" => payload'[c] = Declared(c)'
  PROVE  PutDeclared' /\ AnswersDeclared'
BY DEF AnswerInv, PutDeclared, AnswersDeclared, Declared

LEMMA CallStepAnswers ==
  ASSUME ServingInv, AnswerInv, NEW c \in Call, CallStep(c)
  PROVE  AnswerInv'
<1> DEFINE k == KeyOf(reading[c].manifest, wanted[c])
<1>1. CallsTypeOK /\ reading' = reading /\ wanted' = wanted
  BY DEF ServingInv, ServingTypeOK, CallsTypeOK, CallStep, LookUpPayload, ReadFile,
         PutPayload
<1>2. step[c] # "done"
  BY DEF CallStep, LookUpPayload, ReadFile, PutPayload
<1>3. outcome[c] = "pending" /\ Declared(c)' = Declared(c)
  BY <1>1, <1>2 DEF ServingInv, Underway, Declared
<1>4. k \in PayloadKey /\ k.digest = Declared(c)
  BY <1>2, DeclaredType
<1>5. \A d \in Call \ {c} : step'[d] = step[d] /\ outcome'[d] = outcome[d]
                             /\ payload'[d] = payload[d]
  BY DEF CallStep, LookUpPayload, ReadFile, PutPayload, Answer, Proceed,
         ServingInv, ServingTypeOK
<1>6. PayloadsDeclared'
  <2>1. CASE PutPayload(c)
    <3>1. payload[c] = Declared(c) /\ payloads' = [payloads EXCEPT ![k] = payload[c]]
      BY <2>1 DEF PutPayload, AnswerInv, PutDeclared
    <3>2. QED BY <1>1, <1>4, <3>1 DEF AnswerInv, PayloadsDeclared, CallsTypeOK
  <2>2. CASE LookUpPayload(c) \/ ReadFile(c)
    BY <2>2 DEF LookUpPayload, ReadFile, AnswerInv, PayloadsDeclared
  <2>3. QED BY <2>1, <2>2 DEF CallStep
<1>7. step'[c] = "put" \/ outcome'[c] = "found" => payload'[c] = Declared(c)
  <2>1. CASE LookUpPayload(c)
    <3>1. Cached(c) # None => Cached(c) = Declared(c)
      BY <1>4 DEF Cached, AnswerInv, PayloadsDeclared
    <3>2. QED BY <1>1, <1>3, <2>1, <3>1
              DEF LookUpPayload, Answer, Proceed, CallsTypeOK
  <2>2. CASE ReadFile(c)
    BY <1>1, <1>3, <2>2 DEF ReadFile, Answer, Proceed, CallsTypeOK
  <2>3. CASE PutPayload(c)
    BY <1>1, <1>3, <2>3
       DEF PutPayload, Answer, Proceed, CallsTypeOK, AnswerInv, PutDeclared
  <2>4. QED BY <2>1, <2>2, <2>3 DEF CallStep
<1>8. PutDeclared' /\ AnswersDeclared'
  BY <1>1, <1>3, <1>5, <1>7, OtherCalls
<1>9. QED BY <1>6, <1>8 DEF AnswerInv

LEMMA AskArtifactAnswers ==
  ASSUME ServingInv, AnswerInv, NEW c \in Call, AskArtifact(c)
  PROVE  AnswerInv'
<1>1. CallsTypeOK
  BY ServingTypeParts DEF ServingInv
<1>2. step'[c] # "put" /\ outcome'[c] # "found"
  BY <1>1 DEF AskArtifact, Answer, Proceed, CallsTypeOK
<1>3. \A d \in Call \ {c} :
         /\ step'[d] = step[d] /\ outcome'[d] = outcome[d]
         /\ payload'[d] = payload[d]
         /\ reading'[d] = reading[d] /\ wanted'[d] = wanted[d]
  BY <1>1 DEF AskArtifact, Answer, Proceed, CallsTypeOK
<1>4. PayloadsDeclared'
  BY DEF AskArtifact, AnswerInv, PayloadsDeclared
<1>5. PutDeclared' /\ AnswersDeclared'
  BY <1>2, <1>3, OtherCalls
<1>6. QED BY <1>4, <1>5 DEF AnswerInv

LEMMA NextAnswers ==
  ASSUME ServingInv, AnswerInv, [ServingNext]_<< vars, serving >>
  PROVE  AnswerInv'
<1>1. CASE UNCHANGED << calls, payloads >>
  BY <1>1 DEF AnswerInv, PayloadsDeclared, PutDeclared, AnswersDeclared, Declared, calls
<1>2. CASE \E a \in Api : Stop(a)
  <2>1. PICK a \in Api : Stop(a)
    BY <1>2
  <2>2. payloads' = payloads /\ wanted' = wanted
    BY <2>1 DEF Stop
  <2>3. \A c \in Call :
           \/ step'[c] = "done" /\ outcome'[c] = "empty"
           \/ /\ step'[c] = step[c] /\ outcome'[c] = outcome[c]
              /\ payload'[c] = payload[c] /\ reading'[c] = reading[c]
    BY <2>1 DEF Stop
  <2>4. QED BY <2>2, <2>3
            DEF AnswerInv, PayloadsDeclared, PutDeclared, AnswersDeclared, Declared
<1>3. ASSUME NEW a \in Api, BootStep(a) PROVE UNCHANGED << calls, payloads >>
  BY <1>3 DEF BootStep, Boot, ListDataset, ListRelease, LoadManifest, SelectPinned,
              SelectLatest, Refuse
<1>4. CASE \E c \in Call : AskArtifact(c) \/ CallStep(c)
  BY <1>4, AskArtifactAnswers, CallStepAnswers
<1>5. QED BY <1>1, <1>2, <1>3, <1>4 DEF ServingNext, ServingStep, serving

\* Whichever processes share the cache, whatever they have loaded and whatever
\* happens to the directories, an answer carries the contents whose digest the
\* manifest served by its process declares (readJsonArtifact:39-96,
\* buildArtifactCacheKey:114-126).
THEOREM AnswersAsDeclared == ServingSpec => []AnswersDeclared
<1>1. ServingInit => AnswerInv
  BY DEF ServingInit, AnswerInv, PayloadsDeclared, PutDeclared, AnswersDeclared
<1>2. ServingInv /\ AnswerInv /\ [ServingNext]_<< vars, serving >> => AnswerInv'
  BY NextAnswers
<1>3. AnswerInv => AnswersDeclared
  BY DEF AnswerInv
<1>4. QED BY <1>1, <1>2, <1>3, SpecServingInv, PTL DEF ServingSpec

=============================================================================
