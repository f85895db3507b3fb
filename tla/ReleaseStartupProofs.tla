------------------------- MODULE ReleaseStartupProofs -------------------------
(***************************************************************************)
(* Theorems about ReleaseServing while no two runs of the sync command     *)
(* overlap: calls for artifacts succeed, a process whose releases are in   *)
(* place starts, and a process without a lock never serves an older        *)
(* release than before.  All three rest on one fact about runs that do not *)
(* overlap (StepOwn): a release directory that is there stays as it is.    *)
(***************************************************************************)
EXTENDS ReleaseServingProofs, FiniteSetTheorems, WellFoundedInduction

-----------------------------------------------------------------------------
(* What is known of every state, and of every step.                        *)

Settled ==
  /\ TInv /\ OwnInv /\ ServingInv
  /\ LiveTrusted /\ LiveComplete
  /\ SourcesDistinguished => LoadedVouched

LiveStays == \A d \in Directory : live[d] # None => live'[d] = live[d]

LEMMA SpecLoadedVouched ==
  ASSUME InitiallyGood, SourcesDistinguished
  PROVE  ServingSpec => []LoadedVouched
<1>1. ServingInit => LoadedVouched /\ PinsServed
  BY DEF ServingInit, LoadedVouched, PinsServed, Up
<1>2. /\ LiveTrusted /\ ServingInv /\ LoadedVouched /\ PinsServed
      /\ [ServingNext]_<< vars, serving >>
      => LoadedVouched' /\ PinsServed'
  BY NextVouched
<1>3. ServingSpec => []LiveTrusted
  BY ServingLiveTrusted
<1>4. QED BY <1>1, <1>2, <1>3, SpecServingInv, PTL DEF ServingSpec

LEMMA SpecSettled ==
  ASSUME InitiallyGood, OneRun PROVE ServingSpec => []Settled
<1>1. Spec => []OwnInv
  BY SpecOwnInv
<1>2. Spec => []LiveComplete
  BY LiveIsComplete
<1>3. ServingSpec => []LiveTrusted
  BY ServingLiveTrusted
<1>4. ServingSpec => [](SourcesDistinguished => LoadedVouched)
  <2>1. CASE SourcesDistinguished
    <3>1. ServingSpec => []LoadedVouched
      BY <2>1, SpecLoadedVouched
    <3>2. LoadedVouched => (SourcesDistinguished => LoadedVouched)
      OBVIOUS
    <3>3. QED BY <3>1, <3>2, PTL
  <2>2. CASE ~ SourcesDistinguished
    <3>1. SourcesDistinguished => LoadedVouched
      BY <2>2
    <3>2. QED BY <3>1, PTL
  <2>3. QED BY <2>1, <2>2
<1>5. TInv /\ OwnInv /\ ServingInv /\ LiveTrusted /\ LiveComplete
        /\ (SourcesDistinguished => LoadedVouched) => Settled
  BY DEF Settled
<1>6. QED BY <1>1, <1>2, <1>3, <1>4, <1>5, SpecRefinesSync, ServingTInv,
            SpecServingInv, PTL

LEMMA StepStays ==
  ASSUME OneRun, Settled, [ServingNext]_<< vars, serving >>
  PROVE  LiveStays
BY ServingStepSyncs, StepOwn DEF Settled, LiveStays

\* What the sync has put in place is a manifest of its directory.
LEMMA LiveFacts ==
  ASSUME Settled, NEW d \in Directory, live[d] # None
  PROVE  /\ live[d].manifest \in Manifest /\ live[d].manifest # None
         /\ DirOf(live[d].manifest) = d
         /\ ManifestData[live[d].manifest].parses
BY ManifestFacts DEF Settled, LiveTrusted, Trusted, Eligible

-----------------------------------------------------------------------------
(* What a process has found, loaded, selected or reads from is there.      *)

\* The directory a registration was loaded from still has its manifest.
Standing(r) ==
  live[r.directory] # None /\ live[r.directory].manifest = r.manifest

RegistrationsStand ==
  /\ \A a \in Api : \A d \in found[a] : live[d] # None
  /\ \A a \in Api : \A r \in loaded[a] \cup registry[a] : Standing(r)
  /\ \A c \in Call : reading[c] # None => Standing(reading[c])

\* What one process has done to its sets; the requests are as they were.
LEMMA BootStepStands ==
  ASSUME Settled, RegistrationsStand, NEW a \in Api, BootStep(a), live' = live
  PROVE  RegistrationsStand'
<1>1. StartingTypeOK /\ reading' = reading
  BY ServingTypeParts
     DEF Settled, ServingInv, BootStep, Boot, ListDataset, ListRelease, LoadManifest,
         SelectPinned, SelectLatest, Refuse, calls
<1>2. CASE Boot(a) \/ ListDataset(a) \/ Refuse(a)
  <2>1. UNCHANGED << found, loaded, registry >>
    BY <1>2 DEF Boot, ListDataset, Refuse
  <2>2. QED BY <1>1, <2>1 DEF RegistrationsStand, Standing
<1>3. CASE ListRelease(a)
  <2>1. PICK d \in listed[a] :
          found' = IF live[d] # None /\ live[d].manifest # None
                     THEN [found EXCEPT ![a] = @ \cup {d}]
                     ELSE found
    BY <1>3 DEF ListRelease
  <2>2. UNCHANGED << loaded, registry >>
    BY <1>3 DEF ListRelease
  <2>3. \A e \in Api : \A x \in found'[e] : live[x] # None
    BY <1>1, <2>1 DEF RegistrationsStand, StartingTypeOK
  <2>4. QED BY <1>1, <2>2, <2>3 DEF RegistrationsStand, Standing
<1>4. CASE LoadManifest(a)
  <2>1. PICK d \in found[a] :
          \/ /\ loaded' = [loaded EXCEPT ![a] =
                   @ \cup {[manifest |-> live[d].manifest, directory |-> d]}]
             /\ found' = [found EXCEPT ![a] = @ \ {d}]
             /\ live[d] # None
          \/ UNCHANGED << loaded, found >>
    BY <1>4 DEF LoadManifest
  <2>2. registry' = registry
    BY <1>4 DEF LoadManifest
  <2>3. \A e \in Api : \A x \in found'[e] : live[x] # None
    BY <1>1, <2>1 DEF RegistrationsStand, StartingTypeOK
  <2>4. ASSUME NEW e \in Api, NEW r \in loaded'[e], r \notin loaded[e]
        PROVE  Standing(r)
    BY <1>1, <2>1, <2>4 DEF StartingTypeOK, Standing
  <2>5. QED BY <1>1, <2>2, <2>3, <2>4 DEF RegistrationsStand, Standing
<1>5. CASE SelectPinned(a) \/ SelectLatest(a)
  <2>1. UNCHANGED << found, loaded >>
    BY <1>5 DEF SelectPinned, SelectLatest
  <2>2. \A e \in Api : registry'[e] \in SUBSET (registry[e] \cup loaded[e])
    BY <1>1, <1>5 DEF SelectPinned, SelectLatest, MatchesOf, StartingTypeOK
  <2>3. QED BY <1>1, <2>1, <2>2 DEF RegistrationsStand, Standing
<1>6. QED BY <1>2, <1>3, <1>4, <1>5 DEF BootStep

LEMMA NextStands ==
  ASSUME OneRun, Settled, RegistrationsStand, [ServingNext]_<< vars, serving >>
  PROVE  RegistrationsStand'
<1>1. LiveStays /\ ServingTypeOK
  BY StepStays DEF Settled, ServingInv
<1>2. CASE UNCHANGED serving
  <2>1. \A a \in Api : /\ \A d \in found[a] : d \in Directory
                       /\ \A r \in loaded[a] \cup registry[a] : r \in Registration
    BY <1>1 DEF ServingTypeOK
  <2>2. \A c \in Call : reading[c] # None => reading[c] \in Registration
    BY <1>1 DEF ServingTypeOK
  <2>3. \A r \in Registration : Standing(r) =>
           live'[r.directory] # None /\ live'[r.directory].manifest = r.manifest
    BY <1>1, RegistrationFacts DEF LiveStays, Standing
  <2>4. \A a \in Api : \A d \in found[a] : live'[d] # None
    BY <1>1, <2>1 DEF RegistrationsStand, LiveStays
  <2>5. UNCHANGED << found, loaded, registry, reading >>
    BY <1>2 DEF serving, starting, calls
  <2>6. \A a \in Api : \A r \in loaded'[a] \cup registry'[a] : Standing(r)'
    BY <2>1, <2>3, <2>5 DEF RegistrationsStand, Standing
  <2>7. \A c \in Call : reading'[c] # None => Standing(reading[c])'
    BY <2>2, <2>3, <2>5 DEF RegistrationsStand, Standing
  <2>8. QED BY <2>4, <2>5, <2>6, <2>7 DEF RegistrationsStand
<1>3. CASE ServingStep /\ UNCHANGED vars
  <2>1. live' = live
    BY <1>3 DEF vars, files
  <2>2. ASSUME NEW a \in Api, BootStep(a) PROVE RegistrationsStand'
    BY <2>1, <2>2, BootStepStands
  <2>3. ASSUME NEW a \in Api, Stop(a) PROVE RegistrationsStand'
    <3>1. \A e \in Api : /\ found'[e] \in SUBSET found[e]
                         /\ loaded'[e] \in SUBSET loaded[e]
                         /\ registry'[e] \in SUBSET registry[e]
      BY <1>1, <2>3 DEF Stop, ServingTypeOK
    <3>2. \A c \in Call : reading'[c] \in {reading[c], None}
      BY <2>3 DEF Stop
    <3>3. QED BY <2>1, <3>1, <3>2 DEF RegistrationsStand, Standing
  <2>4. ASSUME NEW c \in Call, CallStep(c) PROVE RegistrationsStand'
    BY <2>1, <2>4
       DEF CallStep, LookUpPayload, ReadFile, PutPayload, starting,
           RegistrationsStand, Standing
  <2>5. ASSUME NEW c \in Call, AskArtifact(c) PROVE RegistrationsStand'
    <3>1. UNCHANGED << found, loaded, registry >>
      BY <2>5 DEF AskArtifact, starting
    <3>2. \E r \in registry[ApiOf[c]] \cup {None} : reading' = [reading EXCEPT ![c] = r]
      BY <2>5 DEF AskArtifact
    <3>3. ApiOf[c] \in Api
      BY ServingAssumption
    <3>4. \A e \in Call : \/ reading'[e] = reading[e]
                          \/ reading'[e] \in registry[ApiOf[c]] \cup {None}
      BY <1>1, <3>2 DEF ServingTypeOK
    <3>5. QED BY <2>1, <3>1, <3>3, <3>4 DEF RegistrationsStand, Standing
  <2>6. QED BY <1>3, <2>2, <2>3, <2>4, <2>5 DEF ServingStep
<1>4. QED BY <1>2, <1>3 DEF ServingNext

LEMMA SpecStands ==
  ASSUME InitiallyGood, OneRun PROVE ServingSpec => []RegistrationsStand
<1>1. ServingInit => RegistrationsStand
  BY DEF ServingInit, RegistrationsStand
<1>2. Settled /\ RegistrationsStand /\ [ServingNext]_<< vars, serving >>
        => RegistrationsStand'
  BY NextStands
<1>3. ServingSpec => []Settled
  BY SpecSettled
<1>4. QED BY <1>1, <1>2, <1>3, PTL DEF ServingSpec

-----------------------------------------------------------------------------
(* Calls for artifacts.                                                    *)

\* A file that is read while all are in place is the one that is declared.
LEMMA ReadsDeclared ==
  ASSUME DownloadOptions = {TRUE}, Settled, RegistrationsStand, NEW c \in Call,
         step[c] = "read"
  PROVE  /\ live[reading[c].directory] # None
         /\ live[reading[c].directory].files[wanted[c]] = Declared(c)
<1>1. /\ reading[c] \in Registration /\ reading[c] # None
      /\ wanted[c] \in Artifact /\ Declared(c) # None
  BY DeclaredType DEF Settled, ServingInv, ServingTypeOK, Underway
<1>2. Standing(reading[c]) /\ reading[c].directory \in Directory
  BY <1>1, RegistrationFacts DEF RegistrationsStand
<1>3. Complete(live[reading[c].directory])
  BY <1>2 DEF Settled, LiveComplete, Standing
<1>4. wanted[c] \in Listed(reading[c].manifest)
  BY <1>1 DEF Listed, Declared
<1>5. QED BY <1>2, <1>3, <1>4 DEF Complete, Standing, Declared

LEMMA NextSucceeds ==
  ASSUME DownloadOptions = {TRUE}, Settled, RegistrationsStand, CallsSucceed,
         [ServingNext]_<< vars, serving >>
  PROVE  CallsSucceed'
<1>1. CallsTypeOK /\ Underway
  BY ServingTypeParts DEF Settled, ServingInv
<1>2. CASE UNCHANGED calls
  BY <1>2 DEF calls, CallsSucceed, Declared
<1>3. ASSUME NEW a \in Api, Stop(a) PROVE CallsSucceed'
  <2>1. \A c \in Call : /\ outcome'[c] = "failed" =>
                             outcome[c] = "failed" /\ reading'[c] = reading[c]
                        /\ wanted'[c] = wanted[c]
    BY <1>3 DEF Stop
  <2>2. QED BY <2>1 DEF CallsSucceed, Declared
<1>4. ASSUME NEW a \in Api, BootStep(a) PROVE UNCHANGED calls
  BY <1>4 DEF BootStep, Boot, ListDataset, ListRelease, LoadManifest, SelectPinned,
              SelectLatest, Refuse
<1>5. ASSUME NEW c \in Call, AskArtifact(c) \/ CallStep(c) PROVE CallsSucceed'
  <2>1. \A d \in Call \ {c} : /\ outcome'[d] = outcome[d] /\ reading'[d] = reading[d]
                              /\ wanted'[d] = wanted[d]
    BY <1>1, <1>5
       DEF AskArtifact, CallStep, LookUpPayload, ReadFile, PutPayload, Answer, CallsTypeOK
  <2>2. Accepts[ApiOf[c]] \subseteq Bytes /\ None \notin Bytes
    BY ServingAssumption, DataAssumption
  <2>3. ASSUME outcome'[c] = "failed" PROVE Declared(c)' \notin Accepts[ApiOf[c]]
    <3>1. CASE AskArtifact(c)
      <4>1. Declared(c)' = None
        BY <1>1, <2>3, <3>1 DEF AskArtifact, Answer, Declared, CallsTypeOK, Digest
      <4>2. QED BY <2>2, <4>1
    <3>2. CASE ReadFile(c)
      <4>1. step[c] = "read" /\ Declared(c)' = Declared(c) /\ outcome[c] = "pending"
        BY <1>1, <3>2 DEF ReadFile, Declared, Underway
      <4>2. QED BY <2>3, <3>2, <4>1, ReadsDeclared DEF ReadFile
    <3>3. CASE LookUpPayload(c) \/ PutPayload(c)
      BY <1>1, <2>3, <3>3
         DEF LookUpPayload, PutPayload, Answer, CallsTypeOK, Underway
    <3>4. QED BY <1>5, <3>1, <3>2, <3>3 DEF CallStep
  <2>4. QED BY <2>1, <2>3 DEF CallsSucceed, Declared
<1>6. QED BY <1>2, <1>3, <1>4, <1>5 DEF ServingNext, ServingStep, serving

\* While no two runs of the sync command overlap and every run downloads
\* artifacts: whatever a process has loaded, however long ago, an artifact that
\* its schemas accept can be read (readJsonArtifact:39-96).
THEOREM CallsForArtifactsSucceed ==
  ASSUME InitiallyGood, OneRun, DownloadOptions = {TRUE}
  PROVE  ServingSpec => []CallsSucceed
<1>1. ServingInit => CallsSucceed
  BY DEF ServingInit, CallsSucceed
<1>2. Settled /\ RegistrationsStand /\ CallsSucceed
        /\ [ServingNext]_<< vars, serving >> => CallsSucceed'
  BY NextSucceeds
<1>3. ServingSpec => []Settled
  BY SpecSettled
<1>4. ServingSpec => []RegistrationsStand
  BY SpecStands
<1>5. QED BY <1>1, <1>2, <1>3, <1>4, PTL DEF ServingSpec

-----------------------------------------------------------------------------
(* A process whose releases are in place starts.                           *)

\* The configuration's half of what makes a directory belong to a source: its
\* manifests, if its pin allows several, are of one release directory, because
\* a repository publishes one dataset.
SourcesSingle ==
  \A s \in Source, m, n \in Manifest :
     Eligible(s, m) /\ Eligible(s, n) => DirOf(m) = DirOf(n)

\* How far a process that starts has come with release directory d.
Reaches(a, d) ==
  \/ SlugOf[d] \in agenda[a]
  \/ d \in listed[a]
  \/ d \in found[a]
  \/ [manifest |-> live[d].manifest, directory |-> d] \in loaded[a]

\* A release directory that is in place when a process starts is not passed
\* over.
Kept(a, d) == live[d] # None /\ (boot[a] = "starting" => Reaches(a, d))

LEMMA KeptStays ==
  ASSUME OneRun, Settled, RegistrationsStand, NEW a \in Api, NEW d \in Directory,
         Kept(a, d), [ServingNext]_<< vars, serving >>
  PROVE  Kept(a, d)'
<1>1. /\ live'[d] # None /\ live'[d] = live[d] /\ StartingTypeOK
      /\ live[d].manifest # None
  BY StepStays, LiveFacts, ServingTypeParts DEF Settled, ServingInv, LiveStays, Kept
<1>2. CASE UNCHANGED << boot, agenda, listed, found, loaded >>
  BY <1>1, <1>2 DEF Kept, Reaches
<1>3. ASSUME NEW e \in Api, BootStep(e) \/ Stop(e), e # a PROVE Kept(a, d)'
  <2>1. /\ boot'[a] = boot[a] /\ agenda'[a] = agenda[a] /\ listed'[a] = listed[a]
        /\ found'[a] = found[a] /\ loaded'[a] = loaded[a]
    BY <1>1, <1>3
       DEF BootStep, Boot, ListDataset, ListRelease, LoadManifest, SelectPinned,
           SelectLatest, Refuse, Stop, Advance, StartingTypeOK
  <2>2. QED BY <1>1, <2>1 DEF Kept, Reaches
<1>4. CASE Boot(a) /\ UNCHANGED vars
  <2>1. SlugOf[d] \in agenda'[a]
    BY <1>1, <1>4 DEF Boot, StartingTypeOK
  <2>2. QED BY <1>1, <2>1 DEF Kept, Reaches
<1>5. CASE ListDataset(a) /\ UNCHANGED vars
  <2>1. PICK g \in agenda[a] :
          /\ agenda' = [agenda EXCEPT ![a] = @ \ {g}]
          /\ listed' = [listed EXCEPT ![a] =
                          { x \in Directory : SlugOf[x] = g /\ live[x] # None }]
    BY <1>5 DEF ListDataset
  <2>2. boot[a] = "starting" /\ listed[a] = {} /\ UNCHANGED << found, loaded >>
    BY <1>5 DEF ListDataset
  <2>3. Reaches(a, d)
    BY <2>2 DEF Kept
  <2>4. CASE SlugOf[d] = g
    <3>1. d \in listed'[a]
      BY <1>1, <2>1, <2>4 DEF StartingTypeOK, Kept
    <3>2. QED BY <1>1, <3>1 DEF Kept, Reaches
  <2>5. CASE SlugOf[d] # g
    <3>1. SlugOf[d] \in agenda[a] => SlugOf[d] \in agenda'[a]
      BY <1>1, <2>1, <2>5 DEF StartingTypeOK
    <3>2. QED BY <1>1, <2>2, <2>3, <3>1 DEF Kept, Reaches
  <2>6. QED BY <2>4, <2>5
<1>6. CASE ListRelease(a) /\ UNCHANGED vars
  <2>1. PICK x \in listed[a] :
          /\ listed' = [listed EXCEPT ![a] = @ \ {x}]
          /\ found' = IF live[x] # None /\ live[x].manifest # None
                        THEN [found EXCEPT ![a] = @ \cup {x}]
                        ELSE found
    BY <1>6 DEF ListRelease
  <2>2. boot[a] = "starting" /\ UNCHANGED << agenda, loaded >>
    BY <1>6 DEF ListRelease
  <2>3. Reaches(a, d)
    BY <2>2 DEF Kept
  <2>4. found[a] \subseteq found'[a] /\ listed[a] \ {x} \subseteq listed'[a]
    BY <1>1, <2>1 DEF StartingTypeOK
  <2>5. d = x => d \in found'[a]
    BY <1>1, <2>1 DEF StartingTypeOK, Kept
  <2>6. QED BY <1>1, <2>2, <2>3, <2>4, <2>5 DEF Kept, Reaches
<1>7. CASE LoadManifest(a) /\ UNCHANGED vars
  <2>1. boot[a] = "starting" /\ UNCHANGED << agenda, listed >>
    BY <1>7 DEF LoadManifest, Walked
  <2>2. PICK x \in found[a] :
          \/ /\ loaded' = [loaded EXCEPT ![a] =
                   @ \cup {[manifest |-> live[x].manifest, directory |-> x]}]
             /\ found' = [found EXCEPT ![a] = @ \ {x}]
          \/ boot' = [boot EXCEPT ![a] = "refused"]
    BY <1>7 DEF LoadManifest, Advance, RegistrationsStand
  <2>3. Reaches(a, d)
    BY <2>1 DEF Kept
  <2>4. CASE boot' = [boot EXCEPT ![a] = "refused"]
    BY <1>1, <2>4 DEF Kept, StartingTypeOK
  <2>5. CASE /\ loaded' = [loaded EXCEPT ![a] =
                   @ \cup {[manifest |-> live[x].manifest, directory |-> x]}]
             /\ found' = [found EXCEPT ![a] = @ \ {x}]
    <3>1. /\ loaded[a] \subseteq loaded'[a] /\ found[a] \ {x} \subseteq found'[a]
          /\ [manifest |-> live[x].manifest, directory |-> x] \in loaded'[a]
      BY <1>1, <2>5 DEF StartingTypeOK
    <3>2. QED BY <1>1, <2>1, <2>3, <3>1 DEF Kept, Reaches
  <2>6. QED BY <2>2, <2>4, <2>5
<1>8. CASE SelectPinned(a) \/ SelectLatest(a) \/ Refuse(a) \/ Stop(a)
  <2>1. boot'[a] # "starting"
    BY <1>1, <1>8 DEF SelectPinned, SelectLatest, Refuse, Stop, Advance, StartingTypeOK
  <2>2. QED BY <1>1, <2>1 DEF Kept
<1>9. ASSUME NEW c \in Call, AskArtifact(c) \/ CallStep(c) PROVE UNCHANGED starting
  BY <1>9 DEF AskArtifact, CallStep, LookUpPayload, ReadFile, PutPayload
<1>10. QED
  BY <1>2, <1>3, <1>4, <1>5, <1>6, <1>7, <1>8, <1>9
     DEF ServingNext, ServingStep, BootStep, serving, starting

\* Once it has been down with its lock in place.
Startable(a) ==
  /\ boot[a] # "refused"
  /\ \A s \in Lock[a] : \E d \in Directory : Kept(a, d) /\ Eligible(s, live[d].manifest)

\* The manifests of a lock, once loaded, are those of the directories in place:
\* one for each source.
LEMMA LockResolves ==
  ASSUME SourcesDistinguished, SourcesSingle, Settled, RegistrationsStand,
         NEW a \in Api, LockIsSound(a), Startable(a), Loaded(a)
  PROVE  Unambiguous(a) /\ Missing(a) = {}
<1>1. StartingTypeOK /\ LoadedVouched /\ Lock[a] \in SUBSET Source
  BY ServingTypeParts, ServingAssumption DEF Settled, ServingInv
<1>2. ASSUME NEW s \in Lock[a], NEW r \in MatchesOf(a, s)
      PROVE  /\ r \in Registration /\ r.manifest \in Manifest
             /\ Eligible(s, r.manifest)
             /\ DirOf(r.manifest) = r.directory
  <2>1. r \in loaded[a] /\ Matches(s, r.manifest)
    BY DEF MatchesOf
  <2>2. r \in Registration /\ r.manifest \in Manifest /\ r.directory \in Directory
    BY <1>1, <2>1, RegistrationFacts DEF StartingTypeOK
  <2>3. Eligible(s, r.manifest)
    BY <1>1, <2>1, <2>2, MatchVouched DEF LoadedVouched
  <2>4. Standing(r)
    BY <2>1 DEF RegistrationsStand
  <2>5. DirOf(r.manifest) = r.directory
    BY <2>2, <2>4, LiveFacts DEF Standing
  <2>6. QED BY <2>2, <2>3, <2>5
<1>3. ASSUME NEW s \in Lock[a], NEW q \in MatchesOf(a, s), NEW r \in MatchesOf(a, s)
      PROVE  q = r
  <2>1. q.directory = r.directory
    BY <1>1, <1>2 DEF SourcesSingle
  <2>2. Standing(q) /\ Standing(r)
    BY DEF MatchesOf, RegistrationsStand
  <2>3. q.manifest = r.manifest
    BY <2>1, <2>2 DEF Standing
  <2>4. QED BY <1>2, <2>1, <2>3 DEF Registration
<1>4. ASSUME NEW s \in Lock[a], NEW t \in Lock[a],
             NEW q \in MatchesOf(a, s), NEW r \in MatchesOf(a, t),
             DatasetOf[q.manifest] = DatasetOf[r.manifest]
      PROVE  s = t
  BY <1>2, <1>4 DEF LockIsSound
<1>5. ASSUME NEW s \in Lock[a] PROVE MatchesOf(a, s) # {}
  <2>1. PICK d \in Directory : Kept(a, d) /\ Eligible(s, live[d].manifest)
    BY DEF Startable
  <2>2. [manifest |-> live[d].manifest, directory |-> d] \in loaded[a]
    BY <2>1 DEF Loaded, Walked, Kept, Reaches
  <2>3. Matches(s, live[d].manifest)
    BY <2>1 DEF Eligible, ManifestIdentified, Matches
  <2>4. QED BY <2>2, <2>3 DEF MatchesOf
<1>6. QED BY <1>3, <1>4, <1>5 DEF Unambiguous, Missing

LEMMA StartableStays ==
  ASSUME OneRun, SourcesDistinguished, SourcesSingle, Settled, RegistrationsStand,
         NEW a \in Api, Lock[a] # {}, LockIsSound(a), Startable(a),
         [ServingNext]_<< vars, serving >>
  PROVE  Startable(a)'
<1>1. ASSUME NEW s \in Lock[a]
      PROVE  \E d \in Directory : Kept(a, d)' /\ Eligible(s, live'[d].manifest)
  <2>1. PICK d \in Directory : Kept(a, d) /\ Eligible(s, live[d].manifest)
    BY DEF Startable
  <2>2. Kept(a, d)'
    BY <2>1, KeptStays
  <2>3. live'[d] = live[d]
    BY <2>1, StepStays DEF LiveStays, Kept
  <2>4. QED BY <2>1, <2>2, <2>3
<1>2. boot'[a] # "refused"
  <2> SUFFICES ASSUME boot'[a] = "refused" PROVE FALSE
    OBVIOUS
  <2>1. StartingTypeOK /\ boot'[a] # boot[a]
    BY ServingTypeParts DEF Settled, ServingInv, Startable
  <2>2. LoadManifest(a) \/ Refuse(a)
    <3>1. PICK e \in Api : BootStep(e) \/ Stop(e)
      BY <2>1 DEF ServingNext, ServingStep, serving, starting, AskArtifact, CallStep,
                  LookUpPayload, ReadFile, PutPayload
    <3>2. QED
      BY <2>1, <3>1
         DEF BootStep, Boot, ListDataset, ListRelease, LoadManifest, SelectPinned,
             SelectLatest, Refuse, Stop, Advance, StartingTypeOK
  <2>3. ~ Refuse(a)
    BY LockResolves DEF Refuse
  <2>4. ~ LoadManifest(a)
    <3>1. SUFFICES ASSUME LoadManifest(a) PROVE FALSE
      OBVIOUS
    <3>2. PICK d \in found[a] :
            LET m == IF live[d] = None THEN None ELSE live[d].manifest
            IN  \/ UNCHANGED boot
                \/ m # None => ~ ManifestData[m].parses
      BY <3>1 DEF LoadManifest
    <3>3. d \in Directory /\ live[d] # None
      BY <2>1 DEF StartingTypeOK, RegistrationsStand
    <3>4. live[d].manifest # None /\ ManifestData[live[d].manifest].parses
      BY <3>3, LiveFacts
    <3>5. QED BY <2>1, <3>2, <3>3, <3>4
  <2>5. QED BY <2>2, <2>3, <2>4
<1>3. QED BY <1>1, <1>2 DEF Startable

\* While no two runs of the sync command overlap: once every release of its lock
\* is in place a process is never refused, however often it restarts and
\* whatever a run adds or leaves behind meanwhile
\* (findManifestFiles:27-60, onModuleInit:134-164).
THEOREM StartsOnceInPlace ==
  ASSUME InitiallyGood, OneRun, SourcesDistinguished, SourcesSingle
  PROVE  ServingSpec => StartsWhenInPlace
<1>1. ASSUME NEW a \in { b \in Api : Lock[b] # {} /\ LockIsSound(b) }
      PROVE  ServingSpec =>
               [](LockInPlace(a) /\ boot[a] = "down" => [](boot[a] # "refused"))
  <2>1. LockInPlace(a) /\ boot[a] = "down" => Startable(a)
    BY DEF LockInPlace, Startable, Kept
  <2>2. Settled /\ RegistrationsStand /\ Startable(a)
          /\ [ServingNext]_<< vars, serving >> => Startable(a)'
    BY <1>1, StartableStays
  <2>3. Startable(a) => boot[a] # "refused"
    BY DEF Startable
  <2>4. ServingSpec => []Settled
    BY SpecSettled
  <2>5. ServingSpec => []RegistrationsStand
    BY SpecStands
  <2>6. QED BY <2>1, <2>2, <2>3, <2>4, <2>5, PTL DEF ServingSpec
<1>2. QED BY <1>1 DEF StartsWhenInPlace

-----------------------------------------------------------------------------
(* A process without a lock.                                               *)

\* Of finitely many registrations with one of a dataset, one is newest.
LEMMA NewestExists ==
  ASSUME NEW a \in Api, loaded[a] \in SUBSET Registration, IsFiniteSet(loaded[a]),
         NEW r \in loaded[a]
  PROVE  \E q \in NewestOf(a) : DatasetOf[q.manifest] = DatasetOf[r.manifest]
<1> DEFINE Same == { q \in loaded[a] : DatasetOf[q.manifest] = DatasetOf[r.manifest] }
           Above(q) == { n \in Same : Newer(n.manifest, q.manifest) }
           Aboves == { Above(q) : q \in Same }
<1>1. \A q \in Same : RankOf[q.manifest] \in Nat /\ TimeOf[q.manifest] \in Nat
  BY RegistrationFacts, ServingAssumption
<1>2. /\ IsFiniteSet(Same)
      /\ r \in Same
  BY FS_Subset
<1>3. Aboves \subseteq FiniteSubsetsOf(Same) /\ Aboves # {}
  <2>1. FiniteSubsetsOf(Same) = SUBSET Same
    <3> HIDE DEF Same
    <3>1. QED BY <1>2, FS_FiniteSubsetsOfFinite
  <2>2. \A q \in Same : Above(q) \in SUBSET Same
    OBVIOUS
  <2>3. Aboves \in SUBSET (SUBSET Same) /\ Aboves # {}
    <3> HIDE DEF Above
    <3>1. QED BY <1>2, <2>2
  <2>4. QED BY <2>1, <2>3
<1>4. IsWellFoundedOn(StrictSubsetOrdering(Same), FiniteSubsetsOf(Same))
  BY FS_StrictSubsetOrderingWellFounded
<1>5. PICK least \in Aboves : \A x \in Aboves :
              ~ (<< x, least >> \in StrictSubsetOrdering(Same))
  <2> HIDE DEF Aboves, Same
  <2>1. QED BY <1>3, <1>4, WFMin
<1>6. PICK q \in Same : least = Above(q)
  BY <1>5
<1>7. Above(q) = {}
  <2>1. SUFFICES ASSUME NEW n \in Above(q) PROVE FALSE
    OBVIOUS
  <2>2. n \in Same /\ Newer(n.manifest, q.manifest)
    OBVIOUS
  <2>3. Above(n) \subseteq Above(q) /\ n \notin Above(n)
    BY <1>1, <1>6, <2>2 DEF Newer
  <2>4. << Above(n), Above(q) >> \in StrictSubsetOrdering(Same)
    BY <2>1, <2>3 DEF StrictSubsetOrdering
  <2>5. QED BY <1>5, <1>6, <2>2, <2>4
<1>8. \A n \in loaded[a] : DatasetOf[n.manifest] = DatasetOf[q.manifest] =>
                            ~ Newer(n.manifest, q.manifest)
  BY <1>6, <1>7
<1>9. QED BY <1>6, <1>8 DEF NewestOf

\* What a process has loaded is finitely many registrations, one for each
\* manifest it has read.
LoadedFinite == \A a \in Api : IsFiniteSet(loaded[a])

LEMMA NextLoadedFinite ==
  ASSUME ServingInv, LoadedFinite, [ServingNext]_<< vars, serving >>
  PROVE  LoadedFinite'
<1>1. StartingTypeOK
  BY ServingTypeParts DEF ServingInv
<1>2. CASE UNCHANGED loaded
  BY <1>2 DEF LoadedFinite
<1>3. ASSUME NEW a \in Api, Stop(a) PROVE LoadedFinite'
  <2>1. \A e \in Api : loaded'[e] \in {loaded[e], {}}
    BY <1>1, <1>3 DEF Stop, StartingTypeOK
  <2>2. QED BY <2>1, FS_EmptySet DEF LoadedFinite
<1>4. ASSUME NEW a \in Api, LoadManifest(a) PROVE LoadedFinite'
  <2>1. \/ UNCHANGED loaded
        \/ \E r : loaded' = [loaded EXCEPT ![a] = @ \cup {r}]
    BY <1>4 DEF LoadManifest
  <2>2. CASE \E r : loaded' = [loaded EXCEPT ![a] = @ \cup {r}]
    <3>1. PICK r : loaded' = [loaded EXCEPT ![a] = @ \cup {r}]
      BY <2>2
    <3>2. IsFiniteSet(loaded[a] \cup {r})
      BY FS_AddElement DEF LoadedFinite
    <3>3. \A e \in Api : loaded'[e] = IF e = a THEN loaded[a] \cup {r} ELSE loaded[e]
      BY <1>1, <3>1 DEF StartingTypeOK
    <3>4. QED BY <3>2, <3>3 DEF LoadedFinite
  <2>3. QED BY <1>2, <2>1, <2>2
<1>5. ASSUME NEW a \in Api, BootStep(a), ~ LoadManifest(a) PROVE UNCHANGED loaded
  BY <1>5 DEF BootStep, Boot, ListDataset, ListRelease, SelectPinned, SelectLatest, Refuse
<1>6. ASSUME NEW c \in Call, AskArtifact(c) \/ CallStep(c) PROVE UNCHANGED starting
  BY <1>6 DEF AskArtifact, CallStep, LookUpPayload, ReadFile, PutPayload
<1>7. QED BY <1>2, <1>3, <1>4, <1>5, <1>6
          DEF ServingNext, ServingStep, serving, starting

LEMMA SpecLoadedFinite == ServingSpec => []LoadedFinite
<1>1. ServingInit => LoadedFinite
  BY FS_EmptySet DEF ServingInit, LoadedFinite
<1>2. ServingInv /\ LoadedFinite /\ [ServingNext]_<< vars, serving >> => LoadedFinite'
  BY NextLoadedFinite
<1>3. QED BY <1>1, <1>2, SpecServingInv, PTL DEF ServingSpec

\* What a process serves that has served m: nothing of its dataset is older.
ServesNoOlder(a, m) ==
  Up(a) => \E n \in Manifest : /\ Serves(a, n)
                               /\ DatasetOf[n] = DatasetOf[m]
                               /\ ~ Newer(m, n)

\* The release of m is still in place, so a process that starts will load it.
Outlives(a, m) ==
  /\ \E d \in Directory : Kept(a, d) /\ live[d].manifest = m
  /\ ServesNoOlder(a, m)

LEMMA ServedOutlives ==
  ASSUME Settled, RegistrationsStand, NEW a \in Api, NEW m \in Manifest, Serves(a, m)
  PROVE  Outlives(a, m)
<1>1. PICK r \in registry[a] : r.manifest = m
  BY DEF Serves
<1>2. Standing(r) /\ r.directory \in Directory
  BY RegistrationFacts DEF RegistrationsStand, Settled, ServingInv, ServingTypeOK
<1>3. Kept(a, r.directory) /\ live[r.directory].manifest = m
  BY <1>1, <1>2 DEF Kept, Standing, Serves, Up
<1>4. ~ Newer(m, m)
  BY ServingAssumption DEF Newer
<1>5. QED BY <1>2, <1>3, <1>4 DEF Outlives, ServesNoOlder

\* The newest releases of what has been loaded are not older than one of it.
LEMMA SelectsNoOlder ==
  ASSUME Settled, LoadedFinite, NEW a \in Api, NEW m \in Manifest, SelectLatest(a),
         NEW r \in loaded[a], r.manifest = m
  PROVE  ServesNoOlder(a, m)'
<1>1. StartingTypeOK
  BY ServingTypeParts DEF Settled, ServingInv
<1>2. PICK rs \in SUBSET loaded[a] :
        /\ OnePerDataset(rs, NewestOf(a))
        /\ registry' = [registry EXCEPT ![a] = rs]
  BY DEF SelectLatest
<1>3. PICK q \in NewestOf(a) : DatasetOf[q.manifest] = DatasetOf[r.manifest]
  BY <1>1, NewestExists DEF LoadedFinite, StartingTypeOK
<1>4. PICK n \in rs : DatasetOf[n.manifest] = DatasetOf[q.manifest]
  BY <1>2, <1>3 DEF OnePerDataset
<1>5. n \in NewestOf(a) /\ n \in registry'[a]
  BY <1>1, <1>2, <1>4 DEF OnePerDataset, StartingTypeOK
<1>6. ~ Newer(m, n.manifest) /\ DatasetOf[n.manifest] = DatasetOf[m]
  BY <1>3, <1>4, <1>5 DEF NewestOf
<1>7. n.manifest \in Manifest
  BY <1>1, <1>2, <1>4, RegistrationFacts DEF StartingTypeOK
<1>8. QED BY <1>5, <1>6, <1>7 DEF ServesNoOlder, Serves

LEMMA OutlivesStep ==
  ASSUME OneRun, Settled, RegistrationsStand, LoadedFinite,
         NEW a \in Api, Lock[a] = {}, NEW m \in Manifest, Outlives(a, m),
         [ServingNext]_<< vars, serving >>
  PROVE  Outlives(a, m)'
<1>1. PICK d \in Directory : Kept(a, d) /\ live[d].manifest = m
  BY DEF Outlives
<1>2. Kept(a, d)' /\ live'[d] = live[d]
  BY <1>1, KeptStays, StepStays DEF LiveStays, Kept
<1>3. StartingTypeOK
  BY ServingTypeParts DEF Settled, ServingInv
<1>4. ServesNoOlder(a, m)'
  <2>1. CASE SelectLatest(a)
    <3>1. [manifest |-> m, directory |-> d] \in loaded[a]
      BY <1>1, <2>1 DEF SelectLatest, Loaded, Walked, Kept, Reaches
    <3>2. QED BY <2>1, <3>1, SelectsNoOlder
  <2>2. CASE ~ SelectLatest(a)
    <3>1. ~ SelectPinned(a)
      BY DEF SelectPinned
    <3>2. Up(a)' => Up(a) /\ registry'[a] = registry[a]
      BY <1>3, <2>2, <3>1
         DEF ServingNext, ServingStep, serving, starting, BootStep, Boot, ListDataset,
             ListRelease, LoadManifest, SelectPinned, SelectLatest, Refuse, Stop,
             Advance, AskArtifact, CallStep, LookUpPayload, ReadFile, PutPayload, Up,
             StartingTypeOK
    <3>3. QED BY <3>2 DEF Outlives, ServesNoOlder, Serves
  <2>3. QED BY <2>1, <2>2
<1>5. QED BY <1>1, <1>2, <1>4 DEF Outlives

\* While no two runs of the sync command overlap: a process without a lock never
\* serves an older release of a dataset than it has served before, however
\* often it restarts (selectLatestManifestRegistrations:63-76).
THEOREM NeverServesOlder ==
  ASSUME InitiallyGood, OneRun PROVE ServingSpec => NeverOlder
<1>1. ASSUME NEW a \in { b \in Api : Lock[b] = {} }, NEW m \in Manifest
      PROVE  ServingSpec =>
               [](Serves(a, m) =>
                    [](Up(a) => \E n \in Manifest :
                                   /\ Serves(a, n)
                                   /\ DatasetOf[n] = DatasetOf[m]
                                   /\ ~ Newer(m, n)))
  <2>1. Settled /\ RegistrationsStand /\ Serves(a, m) => Outlives(a, m)
    BY ServedOutlives
  <2>2. Settled /\ RegistrationsStand /\ LoadedFinite /\ Outlives(a, m)
          /\ [ServingNext]_<< vars, serving >> => Outlives(a, m)'
    BY <1>1, OutlivesStep
  <2>3. Outlives(a, m) => (Up(a) => \E n \in Manifest :
                                       /\ Serves(a, n)
                                       /\ DatasetOf[n] = DatasetOf[m]
                                       /\ ~ Newer(m, n))
    BY DEF Outlives, ServesNoOlder
  <2>4. ServingSpec => []Settled
    BY SpecSettled
  <2>5. ServingSpec => []RegistrationsStand
    BY SpecStands
  <2>6. QED BY <2>1, <2>2, <2>3, <2>4, <2>5, SpecLoadedFinite, PTL DEF ServingSpec
<1>2. QED BY <1>1 DEF NeverOlder

=============================================================================
