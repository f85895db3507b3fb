------------------------- MODULE ReleaseSyncProofs -------------------------
(***************************************************************************)
(* Theorems about ReleaseSync: its type invariant, that only verified and  *)
(* complete releases are ever visible, that no promoted release is lost,   *)
(* and that pinned sources make the releases directory a write-once store. *)
(* While no process dies, a release is missing only between the two        *)
(* renames of a run.  While no two runs overlap, a release directory is    *)
(* never touched again, and what a run reports is in place.                *)
(***************************************************************************)
EXTENDS ReleaseSync, TLAPS

-----------------------------------------------------------------------------
(* Facts about the constants.                                              *)

\* What ReleaseSync assumes of a manifest.
LEMMA ManifestFacts ==
  ASSUME NEW m \in Manifest
  PROVE  /\ DirOf(m) \in Directory
         /\ Digest(m) \in [Artifact -> Bytes \cup {None}]
         /\ Listed(m) \in SUBSET Artifact
         /\ m # None
BY DataAssumption DEF DirOf, Digest, Listed

\* What it assumes of a GitHub release.
LEMMA RemoteFacts ==
  ASSUME NEW r \in Remote
  PROVE  /\ r.manifest \in Manifest \cup {None}
         /\ r.asset \in [Asset -> Bytes \cup {None}]
         /\ r # None
BY DataAssumption

\* A fresh staging directory is a directory.
LEMMA EmptyDirectoryType == EmptyDirectory \in Content /\ EmptyDirectory # None
BY DataAssumption DEF EmptyDirectory, Content

LEMMA ContentNotNone == None \notin Content
BY DataAssumption

-----------------------------------------------------------------------------
(* Type correctness.                                                       *)

\* The locals a step may assign, as a conjunct of TypeOK.
RunTypeOK ==
  /\ pc \in [Proc -> Steps]
  /\ option \in [Proc -> BOOLEAN]
  /\ at \in [Proc -> SourceIndex]
  /\ result \in [Proc -> [SourceIndex -> Results]]
  /\ seen \in [Proc -> Remote \cup {None}]
  /\ manifest \in [Proc -> Manifest \cup {None}]
  /\ todo \in [Proc -> SUBSET Artifact]

FilesTypeOK ==
  /\ live \in [Directory -> Content \cup {None}]
  /\ staging \in [Proc -> Content \cup {None}]
  /\ backup \in [Proc -> Content \cup {None}]
  /\ orphan \in [Directory -> SUBSET Content]
  /\ debris \in SUBSET Directory

LEMMA TypeParts == TypeOK <=> remote \in [Source -> Remote] /\ FilesTypeOK /\ RunTypeOK
BY DEF TypeOK, FilesTypeOK, RunTypeOK

\* The steps at which a run knows its manifest, and those at which it has a
\* staging directory, or may have a backup.
Accepting == { "readManifest", "validateArtifacts", "lstat" }
Staging == { "downloadArtifacts", "writeManifest", "moveAside", "promote" }
Recovering == { "restore", "rmBackup", "rmStaging" }

\* Which locals are set at which step.
Locals ==
  \A p \in Proc :
    /\ pc[p] = "downloadManifest" => seen[p] # None
    /\ pc[p] \in Accepting \cup Staging \cup Recovering =>
         manifest[p] # None /\ seen[p] # None
    /\ pc[p] \in Staging \cup {"restore"} => staging[p] # None
    /\ staging[p] # None => pc[p] \in Staging \cup {"restore", "rmStaging"}
    /\ backup[p] # None => pc[p] \in {"promote", "restore", "rmBackup"}
    /\ pc[p] \in {"restore", "rmBackup"} => backup[p] # None

TInv == TypeOK /\ Locals

LEMMA SourceType ==
  ASSUME TypeOK, NEW p \in Proc
  PROVE  Src(p) \in Source /\ remote[Src(p)] \in Remote
BY ConfigAssumption DEF TypeOK, Src, SourceIndex

\* Return and Throw assign every local a value of its type.
LEMMA ReturnType ==
  ASSUME RunTypeOK, NEW p \in Proc, NEW outcome \in Results, Return(p, outcome),
         option' = option
  PROVE  RunTypeOK'
<1>1. at[p] \in SourceIndex /\ Len(SourceList) \in Nat
  BY ConfigAssumption DEF RunTypeOK
<1>2. at[p] < Len(SourceList) => at[p] + 1 \in SourceIndex
  BY <1>1 DEF SourceIndex
<1>3. at' \in [Proc -> SourceIndex] /\ pc' \in [Proc -> Steps]
  <2>1. CASE at[p] < Len(SourceList)
    BY <1>2, <2>1 DEF RunTypeOK, Return, Goto, Steps
  <2>2. CASE ~ (at[p] < Len(SourceList))
    BY <2>2 DEF RunTypeOK, Return, Goto, Steps
  <2>3. QED BY <2>1, <2>2
<1>4. result' \in [Proc -> [SourceIndex -> Results]]
  BY <1>1 DEF RunTypeOK, Return
<1>5. QED BY <1>3, <1>4 DEF RunTypeOK, Return, Forget

LEMMA ThrowType ==
  ASSUME RunTypeOK, NEW p \in Proc, Throw(p), option' = option
  PROVE  RunTypeOK'
<1>1. result' \in [Proc -> [SourceIndex -> Results]]
  BY DEF RunTypeOK, Throw, Results
<1>2. QED BY <1>1 DEF RunTypeOK, Throw, Forget, Goto, Steps

LEMMA CatchType ==
  ASSUME RunTypeOK, NEW p \in Proc, Catch(p), option' = option
  PROVE  RunTypeOK'
BY DEF RunTypeOK, Catch, Goto, Steps

LEMMA GotoType ==
  ASSUME RunTypeOK, NEW p \in Proc, NEW step \in Steps, Goto(p, step)
  PROVE  pc' \in [Proc -> Steps]
BY DEF RunTypeOK, Goto

-----------------------------------------------------------------------------
(* TInv is inductive: one lemma per action.                                *)

LEMMA TInvInit == Init => TInv
<1> SUFFICES ASSUME Init PROVE TInv
  OBVIOUS
<1>1. live \in [Directory -> Content \cup {None}]
  BY DataAssumption DEF Init
<1>2. 1 \in SourceIndex
  BY ConfigAssumption DEF SourceIndex
<1>3. TypeOK
  BY <1>1, <1>2 DEF Init, TypeOK, Steps, Results
<1>4. Locals
  BY DEF Init, Locals, Accepting, Staging, Recovering
<1>5. QED BY <1>3, <1>4 DEF TInv

LEMMA StartTInv ==
  ASSUME TInv, NEW p \in Proc, Start(p)
  PROVE  TInv'
<1>1. 1 \in SourceIndex
  BY ConfigAssumption DEF SourceIndex
<1>2. DownloadOptions \in SUBSET BOOLEAN
  BY ConfigAssumption
<1>3. TypeOK'
  BY <1>1, <1>2 DEF TInv, TypeOK, Start, Goto, files, Steps, Results
<1>4. Locals'
  BY DEF TInv, TypeOK, Locals, Start, Goto, files, Accepting, Staging, Recovering
<1>5. QED BY <1>3, <1>4 DEF TInv

LEMMA FetchReleaseTInv ==
  ASSUME TInv, NEW p \in Proc, FetchRelease(p)
  PROVE  TInv'
<1>1. RunTypeOK /\ FilesTypeOK /\ remote \in [Source -> Remote]
  BY TypeParts DEF TInv
<1>2. remote[Src(p)] \in Remote /\ remote[Src(p)] # None
  BY SourceType, RemoteFacts DEF TInv
<1>3. FilesTypeOK' /\ remote' \in [Source -> Remote]
  BY <1>1 DEF FetchRelease, files, FilesTypeOK
<1>4. CASE remote[Src(p)].manifest # None
  <2>1. RunTypeOK'
    BY <1>1, <1>2, <1>4 DEF RunTypeOK, FetchRelease, Goto, Throw, Steps
  <2>2. Locals'
    BY <1>2, <1>4 DEF TInv, TypeOK, Locals, FetchRelease, Goto, files,
       Accepting, Staging, Recovering
  <2>3. QED BY <1>3, <2>1, <2>2, TypeParts DEF TInv, TypeOK, RunTypeOK, FilesTypeOK
<1>5. CASE remote[Src(p)].manifest = None
  <2>1. Throw(p) /\ option' = option
    BY <1>5 DEF FetchRelease
  <2>2. RunTypeOK'
    BY <1>1, <2>1, ThrowType
  <2>3. Locals'
    BY <2>1 DEF TInv, TypeOK, Locals, FetchRelease, Throw, Forget, Goto, files,
       Accepting, Staging, Recovering
  <2>4. QED BY <1>3, <2>2, <2>3 DEF TInv, TypeOK, RunTypeOK, FilesTypeOK
<1>6. QED BY <1>4, <1>5

LEMMA DownloadManifestTInv ==
  ASSUME TInv, NEW p \in Proc, DownloadManifest(p)
  PROVE  TInv'
<1> DEFINE m == remote[Src(p)].manifest
<1>1. RunTypeOK /\ FilesTypeOK /\ remote \in [Source -> Remote]
  BY TypeParts DEF TInv
<1>2. FilesTypeOK' /\ remote' \in [Source -> Remote]
  BY <1>1 DEF DownloadManifest, files, FilesTypeOK
<1>3. RunTypeOK' /\ Locals'
  <2>1. CASE Accepted(Src(p), seen[p], m)
    <3>1. m \in Manifest /\ m # None
      BY <2>1, ManifestFacts DEF Accepted
    <3>2. manifest' = [manifest EXCEPT ![p] = m] /\ Goto(p, "readManifest")
          /\ UNCHANGED << option, files, at, result, seen, todo >>
      BY <2>1 DEF DownloadManifest
    <3>3. RunTypeOK'
      BY <1>1, <3>1, <3>2 DEF RunTypeOK, Goto, Steps
    <3>4. Locals'
      BY <3>1, <3>2 DEF TInv, TypeOK, Locals, DownloadManifest, Goto, files,
         Accepting, Staging, Recovering
    <3>5. QED BY <3>3, <3>4
  <2>2. CASE ~ Accepted(Src(p), seen[p], m)
    <3>1. Throw(p) /\ UNCHANGED << option, files >>
      BY <2>2 DEF DownloadManifest
    <3>2. RunTypeOK'
      BY <1>1, <3>1, ThrowType
    <3>3. Locals'
      BY <3>1 DEF TInv, TypeOK, Locals, DownloadManifest, Throw, Forget, Goto,
         files, Accepting, Staging, Recovering
    <3>4. QED BY <3>2, <3>3
  <2>3. QED BY <2>1, <2>2
<1>4. QED BY <1>2, <1>3, TypeParts DEF TInv, TypeOK, RunTypeOK, FilesTypeOK

\* Return and Throw leave every run without locals, as Locals demands at the
\* steps they go to, if no dot directory of the run remains.
LEMMA LeaveLocals ==
  ASSUME TInv, NEW p \in Proc, NEW outcome, Return(p, outcome) \/ Throw(p),
         \A q \in Proc \ {p} : staging'[q] = staging[q] /\ backup'[q] = backup[q],
         staging'[p] = None, backup'[p] = None
  PROVE  Locals'
<1>1. /\ pc'[p] \in {"idle", "fetchRelease"}
      /\ \A q \in Proc \ {p} : /\ pc'[q] = pc[q]
                               /\ seen'[q] = seen[q]
                               /\ manifest'[q] = manifest[q]
  BY DEF TInv, TypeOK, Return, Throw, Goto, Forget
<1>2. QED BY <1>1 DEF TInv, TypeOK, Locals, Accepting, Staging, Recovering

\* Likewise for Catch, if only the staging directory remains.
LEMMA CatchLocals ==
  ASSUME TInv, NEW p \in Proc, Catch(p),
         \A q \in Proc \ {p} : staging'[q] = staging[q] /\ backup'[q] = backup[q],
         backup'[p] = None, manifest[p] # None, seen[p] # None
  PROVE  Locals'
<1>1. /\ pc'[p] = "rmStaging"
      /\ \A q \in Proc \ {p} : pc'[q] = pc[q]
      /\ UNCHANGED << seen, manifest >>
  BY DEF TInv, TypeOK, Catch, Goto
<1>2. QED BY <1>1 DEF TInv, TypeOK, Locals, Accepting, Staging, Recovering

LEMMA ReadManifestTInv ==
  ASSUME TInv, NEW p \in Proc, ReadManifest(p)
  PROVE  TInv'
<1> DEFINE existing == IF live[Dir(p)] = None THEN None ELSE live[Dir(p)].manifest
<1>1. RunTypeOK /\ FilesTypeOK /\ remote \in [Source -> Remote]
  BY TypeParts DEF TInv
<1>2. FilesTypeOK' /\ remote' \in [Source -> Remote]
  BY <1>1 DEF ReadManifest, files, FilesTypeOK
<1>3. /\ UNCHANGED << files, option >>
      /\ pc[p] = "readManifest" /\ staging[p] = None /\ backup[p] = None
      /\ manifest[p] \in Manifest
  BY DEF ReadManifest, TInv, TypeOK, Locals, Staging, Accepting
<1>4. CASE Goto(p, "lstat") /\ UNCHANGED << at, result, seen, manifest, todo >>
  <2>1. RunTypeOK'
    BY <1>1, <1>3, <1>4 DEF RunTypeOK, Goto, Steps
  <2>2. Locals'
    BY <1>3, <1>4 DEF TInv, TypeOK, Locals, Goto, files, Accepting, Staging, Recovering
  <2>3. QED BY <1>2, <2>1, <2>2, TypeParts DEF TInv, TypeOK, RunTypeOK, FilesTypeOK
<1>5. CASE /\ Goto(p, "validateArtifacts")
           /\ todo' = [todo EXCEPT ![p] = Listed(manifest[p])]
           /\ UNCHANGED << at, result, seen, manifest >>
  <2>1. RunTypeOK'
    BY <1>1, <1>3, <1>5, ManifestFacts DEF RunTypeOK, Goto, Steps
  <2>2. Locals'
    BY <1>3, <1>5 DEF TInv, TypeOK, Locals, Goto, files, Accepting, Staging, Recovering
  <2>3. QED BY <1>2, <2>1, <2>2, TypeParts DEF TInv, TypeOK, RunTypeOK, FilesTypeOK
<1>6. CASE Return(p, "skipped") \/ Throw(p)
  <2>1. RunTypeOK'
    BY <1>1, <1>3, <1>6, ReturnType, ThrowType DEF Results
  <2>2. Locals'
    BY <1>3, <1>6, LeaveLocals DEF files
  <2>3. QED BY <1>2, <2>1, <2>2, TypeParts DEF TInv, TypeOK, RunTypeOK, FilesTypeOK
<1>7. QED BY <1>4, <1>5, <1>6 DEF ReadManifest

LEMMA ValidateArtifactTInv ==
  ASSUME TInv, NEW p \in Proc, ValidateArtifact(p)
  PROVE  TInv'
<1>1. RunTypeOK /\ FilesTypeOK /\ remote \in [Source -> Remote]
  BY TypeParts DEF TInv
<1>2. FilesTypeOK' /\ remote' \in [Source -> Remote]
  BY <1>1 DEF ValidateArtifact, files, FilesTypeOK
<1>3. /\ UNCHANGED << files, option >>
      /\ pc[p] = "validateArtifacts" /\ staging[p] = None /\ backup[p] = None
  BY DEF ValidateArtifact, TInv, TypeOK, Locals, Staging, Accepting
<1>4. ASSUME NEW a \in todo[p], todo' = [todo EXCEPT ![p] = @ \ {a}],
             UNCHANGED << pc, at, result, seen, manifest >>
      PROVE  TInv'
  <2>1. RunTypeOK'
    BY <1>1, <1>3, <1>4 DEF RunTypeOK
  <2>2. Locals'
    BY <1>3, <1>4 DEF TInv, Locals, files
  <2>3. QED BY <1>2, <2>1, <2>2, TypeParts DEF TInv, TypeOK, RunTypeOK, FilesTypeOK
<1>5. CASE Return(p, "skipped") \/ Throw(p)
  <2>1. RunTypeOK'
    BY <1>1, <1>3, <1>5, ReturnType, ThrowType DEF Results
  <2>2. Locals'
    BY <1>3, <1>5, LeaveLocals DEF files
  <2>3. QED BY <1>2, <2>1, <2>2, TypeParts DEF TInv, TypeOK, RunTypeOK, FilesTypeOK
<1>6. QED BY <1>4, <1>5 DEF ValidateArtifact

\* The parts a step establishes make up TInv again.
LEMMA Assemble ==
  ASSUME remote' \in [Source -> Remote], FilesTypeOK', RunTypeOK', Locals'
  PROVE  TInv'
BY DEF TInv, TypeOK, FilesTypeOK, RunTypeOK

LEMMA LstatTInv ==
  ASSUME TInv, NEW p \in Proc, Lstat(p)
  PROVE  TInv'
<1>1. RunTypeOK /\ FilesTypeOK /\ remote \in [Source -> Remote]
  BY TypeParts DEF TInv
<1>2. /\ UNCHANGED << remote, option, live, backup, orphan, debris >>
      /\ pc[p] = "lstat" /\ staging[p] = None /\ backup[p] = None
      /\ manifest[p] \in Manifest
  BY DEF Lstat, TInv, TypeOK, Locals, Staging, Accepting
<1>3. CASE live[Dir(p)] = None
  <2>1. /\ staging' = [staging EXCEPT ![p] = EmptyDirectory]
        /\ Goto(p, "downloadArtifacts")
        /\ todo' \in [Proc -> SUBSET Artifact]
        /\ UNCHANGED << at, result, seen, manifest >>
    BY <1>1, <1>2, <1>3, ManifestFacts DEF Lstat, RunTypeOK
  <2>2. FilesTypeOK'
    BY <1>1, <1>2, <2>1, EmptyDirectoryType DEF FilesTypeOK
  <2>3. RunTypeOK'
    BY <1>1, <1>2, <2>1 DEF RunTypeOK, Goto, Steps
  <2>4. Locals'
    BY <1>2, <2>1, EmptyDirectoryType
       DEF TInv, TypeOK, Locals, Goto, Accepting, Staging, Recovering
  <2>5. QED BY <1>1, <1>2, <2>2, <2>3, <2>4, Assemble
<1>4. CASE live[Dir(p)] # None
  <2>1. Throw(p) /\ UNCHANGED staging
    BY <1>4 DEF Lstat
  <2>2. RunTypeOK'
    BY <1>1, <1>2, <2>1, ThrowType
  <2>3. Locals'
    BY <1>2, <2>1, LeaveLocals
  <2>4. FilesTypeOK'
    BY <1>1, <1>2, <2>1 DEF FilesTypeOK
  <2>5. QED BY <1>1, <1>2, <2>2, <2>3, <2>4, Assemble
<1>5. QED BY <1>3, <1>4

LEMMA DownloadArtifactTInv ==
  ASSUME TInv, NEW p \in Proc, DownloadArtifact(p)
  PROVE  TInv'
<1>1. RunTypeOK /\ FilesTypeOK /\ remote \in [Source -> Remote]
  BY TypeParts DEF TInv
<1>2. /\ UNCHANGED << remote, option, live, backup, orphan, debris >>
      /\ pc[p] = "downloadArtifacts" /\ backup[p] = None
      /\ staging[p] \in Content /\ staging[p] # None
      /\ manifest[p] # None /\ seen[p] # None
  BY DEF DownloadArtifact, TInv, TypeOK, Locals, Staging
<1>3. CASE /\ Goto(p, "writeManifest")
           /\ UNCHANGED << staging, at, result, seen, manifest, todo >>
  <2>1. RunTypeOK' /\ FilesTypeOK'
    BY <1>1, <1>2, <1>3 DEF RunTypeOK, FilesTypeOK, Goto, Steps
  <2>2. Locals'
    BY <1>2, <1>3 DEF TInv, TypeOK, Locals, Goto, Accepting, Staging, Recovering
  <2>3. QED BY <1>1, <1>2, <2>1, <2>2, Assemble
<1>4. ASSUME NEW a \in todo[p],
             staging' = [staging EXCEPT ![p].files[a] =
                           remote[Src(p)].asset[AssetOf[a]]],
             todo' = [todo EXCEPT ![p] = @ \ {a}],
             UNCHANGED << pc, at, result, seen, manifest >>
      PROVE  TInv'
  <2>1. a \in Artifact /\ remote[Src(p)].asset[AssetOf[a]] \in Bytes \cup {None}
    BY <1>1, SourceType, RemoteFacts, ConfigAssumption DEF TInv, RunTypeOK
  <2>2. staging'[p] \in Content /\ staging'[p] # None
    BY <1>1, <1>2, <1>4, <2>1, ContentNotNone DEF FilesTypeOK, Content
  <2>3. staging' \in [Proc -> Content \cup {None}]
    BY <1>1, <1>4, <2>2 DEF FilesTypeOK
  <2>4. RunTypeOK' /\ FilesTypeOK'
    BY <1>1, <1>2, <1>4, <2>3 DEF RunTypeOK, FilesTypeOK
  <2>5. Locals'
    BY <1>2, <1>4, <2>2 DEF TInv, TypeOK, Locals, Staging
  <2>6. QED BY <1>1, <1>2, <2>4, <2>5, Assemble
<1>5. CASE Catch(p) /\ UNCHANGED staging
  <2>1. RunTypeOK' /\ FilesTypeOK'
    BY <1>1, <1>2, <1>5, CatchType DEF FilesTypeOK
  <2>2. Locals'
    BY <1>2, <1>5, CatchLocals
  <2>3. QED BY <1>1, <1>2, <2>1, <2>2, Assemble
<1>6. QED BY <1>3, <1>4, <1>5 DEF DownloadArtifact

LEMMA WriteManifestTInv ==
  ASSUME TInv, NEW p \in Proc, WriteManifest(p)
  PROVE  TInv'
<1>1. RunTypeOK /\ FilesTypeOK /\ remote \in [Source -> Remote]
  BY TypeParts DEF TInv
<1>2. staging[p] \in Content /\ manifest[p] \in Manifest \cup {None}
  BY DEF WriteManifest, TInv, TypeOK, Locals, Staging
<1>3. staging'[p] \in Content /\ staging'[p] # None
  BY <1>1, <1>2, ContentNotNone DEF FilesTypeOK, Content, WriteManifest
<1>4. staging' \in [Proc -> Content \cup {None}]
  BY <1>1, <1>3 DEF FilesTypeOK, WriteManifest
<1>5. RunTypeOK' /\ FilesTypeOK'
  BY <1>1, <1>4 DEF RunTypeOK, FilesTypeOK, WriteManifest, Goto, Steps
<1>6. Locals'
  BY <1>3 DEF TInv, TypeOK, Locals, WriteManifest, Goto, Accepting, Staging, Recovering
<1>7. QED BY <1>1, <1>5, <1>6, Assemble DEF WriteManifest

LEMMA MoveAsideTInv ==
  ASSUME TInv, NEW p \in Proc, MoveAside(p)
  PROVE  TInv'
<1>1. RunTypeOK /\ FilesTypeOK /\ remote \in [Source -> Remote]
  BY TypeParts DEF TInv
<1>2. manifest[p] \in Manifest /\ Dir(p) \in Directory
  BY ManifestFacts DEF MoveAside, TInv, TypeOK, Locals, Staging, Dir
<1>3. RunTypeOK' /\ FilesTypeOK'
  BY <1>1, <1>2 DEF RunTypeOK, FilesTypeOK, MoveAside, Goto, Steps
<1>4. Locals'
  BY DEF TInv, TypeOK, Locals, MoveAside, Goto, Accepting, Staging, Recovering
<1>5. QED BY <1>1, <1>3, <1>4, Assemble DEF MoveAside

LEMMA PromoteTInv ==
  ASSUME TInv, NEW p \in Proc, Promote(p)
  PROVE  TInv'
<1>1. RunTypeOK /\ FilesTypeOK /\ remote \in [Source -> Remote]
  BY TypeParts DEF TInv
<1>2. /\ manifest[p] \in Manifest /\ Dir(p) \in Directory /\ manifest[p] # None
      /\ seen[p] # None /\ staging[p] \in Content /\ pc[p] = "promote"
      /\ UNCHANGED << remote, option, backup, orphan, debris >>
  BY ManifestFacts DEF Promote, TInv, TypeOK, Locals, Staging, Dir
<1>3. CASE live[Dir(p)] = None
  <2>1. /\ live' = [live EXCEPT ![Dir(p)] = staging[p]]
        /\ staging' = [staging EXCEPT ![p] = None]
        /\ IF backup[p] # None
             THEN Goto(p, "rmBackup") /\ UNCHANGED << at, result, seen, manifest, todo >>
             ELSE Return(p, "synced")
    BY <1>3 DEF Promote
  <2>2. FilesTypeOK'
    BY <1>1, <1>2, <2>1 DEF FilesTypeOK
  <2>3. CASE backup[p] # None
    <3>1. RunTypeOK'
      BY <1>1, <1>2, <2>1, <2>3 DEF RunTypeOK, Goto, Steps
    <3>2. Locals'
      BY <1>2, <2>1, <2>3 DEF TInv, TypeOK, Locals, Goto, Accepting, Staging, Recovering
    <3>3. QED BY <1>1, <1>2, <2>2, <3>1, <3>2, Assemble
  <2>4. CASE backup[p] = None
    <3>1. RunTypeOK'
      BY <1>1, <1>2, <2>1, <2>4, ReturnType DEF Results
    <3>2. staging'[p] = None /\ \A q \in Proc \ {p} : staging'[q] = staging[q]
      BY <1>1, <2>1 DEF FilesTypeOK
    <3>3. Locals'
      BY <1>2, <2>1, <2>4, <3>2, LeaveLocals
    <3>4. QED BY <1>1, <1>2, <2>2, <3>1, <3>3, Assemble
  <2>5. QED BY <2>3, <2>4
<1>4. CASE live[Dir(p)] # None
  <2>1. /\ UNCHANGED << live, staging >>
        /\ IF backup[p] # None
             THEN Goto(p, "restore") /\ UNCHANGED << at, result, seen, manifest, todo >>
             ELSE Catch(p)
    BY <1>4 DEF Promote
  <2>2. FilesTypeOK'
    BY <1>1, <1>2, <2>1 DEF FilesTypeOK
  <2>3. RunTypeOK'
    BY <1>1, <1>2, <2>1, CatchType DEF RunTypeOK, Goto, Steps
  <2>4. Locals'
    <3>1. CASE backup[p] # None
      BY <1>2, <2>1, <3>1 DEF TInv, TypeOK, Locals, Goto, Accepting, Staging, Recovering
    <3>2. CASE backup[p] = None
      BY <1>2, <2>1, <3>2, CatchLocals
    <3>3. QED BY <3>1, <3>2
  <2>5. QED BY <1>1, <1>2, <2>2, <2>3, <2>4, Assemble
<1>5. QED BY <1>3, <1>4

\* An abandoned backup is a directory among the orphans.
LEMMA AbandonBackupType ==
  ASSUME TInv, NEW p \in Proc, AbandonBackup(p),
         backup[p] # None, manifest[p] # None
  PROVE  /\ orphan' \in [Directory -> SUBSET Content]
         /\ backup' \in [Proc -> Content \cup {None}]
         /\ backup'[p] = None
         /\ \A q \in Proc \ {p} : backup'[q] = backup[q]
<1>1. manifest[p] \in Manifest /\ Dir(p) \in Directory
  BY ManifestFacts DEF TInv, TypeOK, Dir
<1>2. QED BY <1>1 DEF TInv, TypeOK, AbandonBackup

LEMMA RestoreTInv ==
  ASSUME TInv, NEW p \in Proc, Restore(p) \/ RestoreFails(p)
  PROVE  TInv'
<1>1. RunTypeOK /\ FilesTypeOK /\ remote \in [Source -> Remote]
  BY TypeParts DEF TInv
<1>2. /\ manifest[p] \in Manifest /\ Dir(p) \in Directory
      /\ manifest[p] # None /\ seen[p] # None
      /\ backup[p] \in Content /\ backup[p] # None
      /\ Catch(p)
      /\ UNCHANGED << remote, option, staging, debris >>
  BY ManifestFacts DEF Restore, RestoreFails, TInv, TypeOK, Locals, Recovering, Dir
<1>3. /\ live' \in [Directory -> Content \cup {None}]
      /\ orphan' \in [Directory -> SUBSET Content]
      /\ backup' \in [Proc -> Content \cup {None}]
      /\ backup'[p] = None
      /\ \A q \in Proc \ {p} : backup'[q] = backup[q]
  <2>1. CASE AbandonBackup(p) /\ UNCHANGED live
    BY <1>1, <1>2, <2>1, AbandonBackupType DEF FilesTypeOK
  <2>2. CASE /\ live' = [live EXCEPT ![Dir(p)] = backup[p]]
             /\ backup' = [backup EXCEPT ![p] = None]
             /\ UNCHANGED orphan
    BY <1>1, <1>2, <2>2 DEF FilesTypeOK
  <2>3. QED BY <2>1, <2>2 DEF Restore, RestoreFails
<1>4. RunTypeOK' /\ FilesTypeOK'
  BY <1>1, <1>2, <1>3, CatchType DEF FilesTypeOK
<1>5. Locals'
  BY <1>2, <1>3, CatchLocals
<1>6. QED BY <1>1, <1>2, <1>4, <1>5, Assemble

LEMMA RmTInv ==
  ASSUME TInv, NEW p \in Proc, RmBackup(p) \/ RmStaging(p) \/ RmFails(p)
  PROVE  TInv'
<1>1. RunTypeOK /\ FilesTypeOK /\ remote \in [Source -> Remote]
  BY TypeParts DEF TInv
<1>2. /\ manifest[p] \in Manifest /\ Dir(p) \in Directory
      /\ manifest[p] # None /\ seen[p] # None
      /\ pc[p] \in {"rmBackup", "rmStaging"}
      /\ UNCHANGED << remote, option, live, orphan >>
  BY ManifestFacts
     DEF RmBackup, RmStaging, RmFails, TInv, TypeOK, Locals, Recovering, Dir
<1>3. FilesTypeOK'
  BY <1>1, <1>2 DEF FilesTypeOK, RmBackup, RmStaging, RmFails
<1>4. /\ staging'[p] = None /\ backup'[p] = None
      /\ \A q \in Proc \ {p} : staging'[q] = staging[q] /\ backup'[q] = backup[q]
  BY <1>1, <1>2 DEF FilesTypeOK, RmBackup, RmStaging, RmFails,
     TInv, Locals, Staging
<1>5. RunTypeOK'
  BY <1>1, <1>2, ReturnType, ThrowType, CatchType
     DEF RmBackup, RmStaging, RmFails, Results
<1>6. Locals'
  BY <1>2, <1>4, LeaveLocals, CatchLocals DEF RmBackup, RmStaging, RmFails
<1>7. QED BY <1>1, <1>2, <1>3, <1>5, <1>6, Assemble

LEMMA CallFailsTInv ==
  ASSUME TInv, NEW p \in Proc,
         FetchFails(p) \/ ReadFails(p) \/ WriteFails(p) \/ PromoteFails(p)
  PROVE  TInv'
<1>1. RunTypeOK /\ FilesTypeOK /\ remote \in [Source -> Remote]
  BY TypeParts DEF TInv
<1>2. UNCHANGED << remote, option, files >>
  BY DEF FetchFails, ReadFails, WriteFails, PromoteFails
<1>3. FilesTypeOK'
  BY <1>1, <1>2 DEF FilesTypeOK, files
<1>4. CASE /\ pc[p] \in { "fetchRelease", "downloadManifest", "readManifest",
                          "validateArtifacts", "lstat" }
           /\ Throw(p)
  <2>1. staging[p] = None /\ backup[p] = None
    BY <1>4 DEF TInv, Locals, Staging
  <2>2. Locals'
    BY <1>2, <1>4, <2>1, LeaveLocals DEF files
  <2>3. QED BY <1>1, <1>2, <1>3, <1>4, <2>2, ThrowType, Assemble
<1>5. CASE /\ pc[p] \in Staging
           /\ backup[p] = None
           /\ Catch(p)
  <2>1. manifest[p] # None /\ seen[p] # None
    BY <1>5 DEF TInv, Locals
  <2>2. Locals'
    BY <1>2, <1>5, <2>1, CatchLocals DEF files
  <2>3. QED BY <1>1, <1>2, <1>3, <1>5, <2>2, CatchType, Assemble
<1>6. CASE PromoteFails(p)
  <2>1. RunTypeOK'
    BY <1>1, <1>2, <1>6 DEF PromoteFails, RunTypeOK, Goto, Steps
  <2>2. Locals'
    BY <1>2, <1>6 DEF PromoteFails, TInv, TypeOK, Locals, Goto, files,
       Accepting, Staging, Recovering
  <2>3. QED BY <1>1, <1>2, <1>3, <2>1, <2>2, Assemble
<1>7. backup[p] # None => pc[p] \in {"promote", "restore", "rmBackup"}
  BY DEF TInv, Locals
<1>8. QED BY <1>4, <1>5, <1>6, <1>7
          DEF FetchFails, ReadFails, WriteFails, Staging

LEMMA CrashTInv ==
  ASSUME TInv, NEW p \in Proc, Crash(p)
  PROVE  TInv'
<1>1. RunTypeOK /\ FilesTypeOK /\ remote \in [Source -> Remote]
  BY TypeParts DEF TInv
<1>2. pc[p] \in Staging \cup Recovering => manifest[p] # None /\ Dir(p) \in Directory
  BY ManifestFacts DEF TInv, TypeOK, Locals, Dir
<1>3. /\ orphan' \in [Directory -> SUBSET Content]
      /\ backup' \in [Proc -> Content \cup {None}]
      /\ backup'[p] = None
      /\ \A q \in Proc \ {p} : backup'[q] = backup[q]
  <2>1. CASE pc[p] \in {"promote", "restore"} /\ backup[p] # None
    <3>1. AbandonBackup(p) /\ manifest[p] # None
      BY <1>2, <2>1 DEF Crash, Staging, Recovering
    <3>2. QED BY <2>1, <3>1, AbandonBackupType
  <2>2. CASE ~ (pc[p] \in {"promote", "restore"} /\ backup[p] # None)
    <3>1. backup' = [backup EXCEPT ![p] = None] /\ UNCHANGED orphan
      BY <2>2 DEF Crash
    <3>2. QED BY <1>1, <3>1 DEF FilesTypeOK
  <2>3. QED BY <2>1, <2>2
<1>4. debris' \in SUBSET Directory
  BY <1>1, <1>2 DEF Crash, FilesTypeOK, TInv, Locals, Staging, Recovering
<1>5. FilesTypeOK'
  BY <1>1, <1>3, <1>4 DEF FilesTypeOK, Crash
<1>6. staging'[p] = None /\ \A q \in Proc \ {p} : staging'[q] = staging[q]
  BY <1>1 DEF FilesTypeOK, Crash
<1>7. Throw(p) /\ UNCHANGED << remote, option >>
  BY DEF Crash
<1>8. RunTypeOK' /\ Locals'
  BY <1>1, <1>3, <1>6, <1>7, ThrowType, LeaveLocals
<1>9. QED BY <1>1, <1>5, <1>7, <1>8, Assemble

LEMMA RepublishTInv ==
  ASSUME TInv, NEW s \in Source, Republish(s)
  PROVE  TInv'
BY DEF TInv, TypeOK, Locals, Republish, files, run

LEMMA NextTInv ==
  ASSUME TInv, [Next]_vars
  PROVE  TInv'
<1>1. ASSUME NEW p \in Proc, RunStep(p) PROVE TInv'
  BY <1>1, FetchReleaseTInv, DownloadManifestTInv, ReadManifestTInv,
     ValidateArtifactTInv, LstatTInv, DownloadArtifactTInv, WriteManifestTInv,
     MoveAsideTInv, PromoteTInv, RestoreTInv, RmTInv DEF RunStep
<1>2. ASSUME NEW p \in Proc, Fault(p) PROVE TInv'
  BY <1>2, CallFailsTInv, RestoreTInv, RmTInv, CrashTInv DEF Fault
<1>3. CASE UNCHANGED vars
  BY <1>3 DEF TInv, TypeOK, Locals, vars, files, run
<1>4. QED BY <1>1, <1>2, <1>3, StartTInv, RepublishTInv DEF Next

LEMMA SpecTInv == Spec => []TInv
BY TInvInit, NextTInv, PTL DEF Spec

\* Every variable of the sync model keeps its type, for any number of runs,
\* sources and releases (github-release-sync.service.ts:133-412).
THEOREM TypeCorrect == Spec => []TypeOK
<1>1. TInv => TypeOK
  BY DEF TInv
<1>2. QED BY <1>1, SpecTInv, PTL

-----------------------------------------------------------------------------
(* What is visible is verified and complete.                               *)
(*                                                                         *)
(* LiveTrusted is not inductive: a promotion makes a staging directory     *)
(* live, a restoration a backup.  SInv adds what each step of a run has    *)
(* established about its staging directory, and that backups and orphans   *)
(* are directories that were live.                                         *)

Good(d, c) ==
  /\ Trusted(d, c)
  /\ DownloadOptions = {TRUE} => Complete(c)

\* Before the first run, the releases directory holds only such directories.
InitiallyGood ==
  \A d \in Directory : \A c \in InitialContents[d] : c # None => Good(d, c)

FilesVerified(m, fs) == \A a \in Artifact : fs[a] \in {None, Digest(m)[a]}

FilesComplete(m, fs) == \A a \in Listed(m) : fs[a] = Digest(m)[a]

RunGood(p) ==
  /\ pc[p] # "idle" => option[p] \in DownloadOptions
  /\ pc[p] \in Accepting \cup Staging \cup Recovering =>
       Eligible(Src(p), manifest[p])
  /\ pc[p] \in Staging => FilesVerified(manifest[p], staging[p].files)
  /\ pc[p] = "downloadArtifacts" /\ option[p] =>
       \A a \in Listed(manifest[p]) \ todo[p] :
          staging[p].files[a] = Digest(manifest[p])[a]
  /\ pc[p] \in {"writeManifest", "moveAside", "promote"} /\ option[p] =>
       FilesComplete(manifest[p], staging[p].files)
  /\ pc[p] \in {"moveAside", "promote"} => staging[p].manifest = manifest[p]
  /\ backup[p] # None => Good(Dir(p), backup[p])

DirectoryGood(d) ==
  /\ live[d] # None => Good(d, live[d])
  /\ \A c \in orphan[d] : Good(d, c)

SInv ==
  /\ \A d \in Directory : DirectoryGood(d)
  /\ \A p \in Proc : RunGood(p)

\* A step of one run leaves the state of another alone.
LEMMA OthersUnaffected ==
  ASSUME TypeOK, NEW p \in Proc, Start(p) \/ RunStep(p) \/ Fault(p),
         NEW q \in Proc, q # p
  PROVE  /\ pc'[q] = pc[q] /\ option'[q] = option[q] /\ at'[q] = at[q]
         /\ manifest'[q] = manifest[q] /\ todo'[q] = todo[q]
         /\ staging'[q] = staging[q] /\ backup'[q] = backup[q]
<1> USE DEF TypeOK, Goto, Return, Throw, Catch, Forget, AbandonBackup, files
<1>1. CASE Start(p)
  BY <1>1 DEF Start
<1>2. CASE RunStep(p)
  <2>1. CASE FetchRelease(p) \/ DownloadManifest(p) \/ ReadManifest(p)
    BY <2>1 DEF FetchRelease, DownloadManifest, ReadManifest
  <2>2. CASE ValidateArtifact(p) \/ Lstat(p) \/ DownloadArtifact(p)
    BY <2>2 DEF ValidateArtifact, Lstat, DownloadArtifact
  <2>3. CASE WriteManifest(p) \/ MoveAside(p)
    BY <2>3 DEF WriteManifest, MoveAside
  <2>4. CASE Promote(p) \/ Restore(p) \/ RmBackup(p) \/ RmStaging(p)
    BY <2>4 DEF Promote, Restore, RmBackup, RmStaging
  <2>5. QED BY <1>2, <2>1, <2>2, <2>3, <2>4 DEF RunStep
<1>3. CASE Fault(p)
  <2>1. CASE FetchFails(p) \/ ReadFails(p) \/ WriteFails(p) \/ PromoteFails(p)
    BY <2>1 DEF FetchFails, ReadFails, WriteFails, PromoteFails
  <2>2. CASE RestoreFails(p) \/ RmFails(p) \/ Crash(p)
    BY <2>2 DEF RestoreFails, RmFails, Crash
  <2>3. QED BY <1>3, <2>1, <2>2 DEF Fault
<1>4. QED BY <1>1, <1>2, <1>3

\* So it keeps what is known of the other run.
LEMMA OthersGood ==
  ASSUME TypeOK, NEW p \in Proc, Start(p) \/ RunStep(p) \/ Fault(p),
         \A q \in Proc : RunGood(q)
  PROVE  \A q \in Proc \ {p} : RunGood(q)'
<1> SUFFICES ASSUME NEW q \in Proc, q # p
             PROVE  RunGood(q)'
  OBVIOUS
<1>1. /\ pc'[q] = pc[q] /\ option'[q] = option[q] /\ at'[q] = at[q]
      /\ manifest'[q] = manifest[q] /\ todo'[q] = todo[q]
      /\ staging'[q] = staging[q] /\ backup'[q] = backup[q]
  BY OthersUnaffected
<1>2. Src(q)' = Src(q) /\ Dir(q)' = Dir(q)
  BY <1>1 DEF Src, Dir
<1>3. RunGood(q)
  OBVIOUS
<1>4. QED BY <1>1, <1>2, <1>3 DEF RunGood

\* A step that changes no release directory and no orphan keeps them good.
LEMMA DirectoriesGood ==
  ASSUME \A d \in Directory : DirectoryGood(d), UNCHANGED << live, orphan >>
  PROVE  \A d \in Directory : DirectoryGood(d)'
BY DEF DirectoryGood

\* A run that has left syncSource has nothing left to be known.
LEMMA LeaveGood ==
  ASSUME TypeOK, NEW p \in Proc, NEW outcome, Return(p, outcome) \/ Throw(p),
         RunGood(p), pc[p] # "idle", option' = option, backup'[p] = None
  PROVE  RunGood(p)'
<1>1. pc'[p] \in {"idle", "fetchRelease"}
  BY DEF TypeOK, Return, Throw, Goto
<1>2. QED BY <1>1 DEF RunGood, Accepting, Staging, Recovering

LEMMA CatchGood ==
  ASSUME TypeOK, NEW p \in Proc, Catch(p), RunGood(p),
         pc[p] \in Staging \cup Recovering, option' = option, backup'[p] = None
  PROVE  RunGood(p)'
<1>1. pc'[p] = "rmStaging" /\ UNCHANGED << at, manifest >>
  BY DEF TypeOK, Catch, Goto
<1>2. Src(p)' = Src(p)
  BY <1>1 DEF Src
<1>3. QED BY <1>1, <1>2 DEF RunGood, Accepting, Staging, Recovering

LEMMA InitSInv == ASSUME InitiallyGood PROVE Init => SInv
<1> SUFFICES ASSUME Init PROVE SInv
  OBVIOUS
<1>1. ASSUME NEW d \in Directory PROVE DirectoryGood(d)
  <2>1. live[d] \in InitialContents[d] /\ orphan[d] = {}
    BY DEF Init
  <2>2. QED BY <2>1 DEF InitiallyGood, DirectoryGood
<1>2. ASSUME NEW p \in Proc PROVE RunGood(p)
  BY DEF Init, RunGood, Accepting, Staging, Recovering
<1>3. QED BY <1>1, <1>2 DEF SInv

\* The steps before a run has a staging directory.
LEMMA EarlySInv ==
  ASSUME TInv, SInv, NEW p \in Proc,
         Start(p) \/ FetchRelease(p) \/ DownloadManifest(p)
                  \/ ReadManifest(p) \/ ValidateArtifact(p)
  PROVE  RunGood(p)' /\ UNCHANGED << live, orphan >>
<1>1. RunGood(p) /\ TypeOK
  BY DEF SInv, TInv
<1>2. UNCHANGED << live, orphan, staging, backup >>
  BY DEF Start, FetchRelease, DownloadManifest, ReadManifest, ValidateArtifact, files
<1>3. pc[p] \notin {"promote", "restore", "rmBackup"} => backup[p] = None
  BY DEF TInv, Locals
<1>4. CASE Start(p)
  <2>1. pc'[p] = "fetchRelease" /\ option'[p] \in DownloadOptions /\ backup'[p] = None
    BY <1>1, <1>2, <1>3, <1>4, ConfigAssumption DEF Start, Goto, TypeOK
  <2>2. QED BY <1>2, <2>1 DEF RunGood, Accepting, Staging, Recovering
<1>5. CASE FetchRelease(p)
  <2>1. CASE Throw(p)
    BY <1>1, <1>2, <1>3, <1>5, <2>1, LeaveGood DEF FetchRelease
  <2>2. CASE Goto(p, "downloadManifest")
    <3>1. pc'[p] = "downloadManifest" /\ option' = option /\ backup'[p] = None
      BY <1>1, <1>2, <1>3, <1>5, <2>2 DEF FetchRelease, Goto, TypeOK
    <3>2. QED BY <1>1, <1>2, <1>5, <3>1
              DEF RunGood, FetchRelease, Accepting, Staging, Recovering
  <2>3. QED BY <1>2, <1>5, <2>1, <2>2 DEF FetchRelease
<1>6. CASE DownloadManifest(p)
  <2>1. CASE Throw(p)
    BY <1>1, <1>2, <1>3, <1>6, <2>1, LeaveGood DEF DownloadManifest
  <2>2. CASE ~ Throw(p)
    <3>1. /\ pc'[p] = "readManifest" /\ option' = option /\ backup'[p] = None
          /\ at' = at /\ Eligible(Src(p), manifest'[p])
      BY <1>1, <1>2, <1>3, <1>6, <2>2
         DEF DownloadManifest, Accepted, Goto, TypeOK
    <3>2. Src(p)' = Src(p)
      BY <3>1 DEF Src
    <3>3. Eligible(Src(p)', manifest'[p])
      BY <3>1, <3>2
    <3>4. Eligible(Src(p), manifest[p])'
      BY <3>3 DEF Eligible, PinMatches, ManifestIdentified, ReadinessMet
    <3>5. QED BY <1>1, <1>2, <1>6, <3>1, <3>4
              DEF RunGood, DownloadManifest, Accepting, Staging, Recovering
  <2>3. QED BY <2>1, <2>2
<1>7. CASE ReadManifest(p) \/ ValidateArtifact(p)
  <2>1. CASE Throw(p) \/ Return(p, "skipped")
    BY <1>1, <1>2, <1>3, <1>7, <2>1, LeaveGood DEF ReadManifest, ValidateArtifact
  <2>2. CASE ~ (Throw(p) \/ Return(p, "skipped"))
    <3>1. /\ pc[p] \in Accepting /\ pc'[p] \in Accepting
          /\ UNCHANGED << option, at, manifest >>
      BY <1>1, <1>7, <2>2 DEF ReadManifest, ValidateArtifact, Goto, TypeOK, Accepting
    <3>2. Src(p)' = Src(p)
      BY <3>1 DEF Src
    <3>3. pc'[p] \notin Staging
      BY <3>1 DEF Accepting, Staging
    <3>4. backup'[p] = None /\ pc[p] # "idle"
      BY <1>2, <1>3, <3>1 DEF Accepting
    <3>5. QED BY <1>1, <1>2, <3>1, <3>2, <3>3, <3>4 DEF RunGood, Staging
  <2>3. QED BY <2>1, <2>2
<1>8. QED BY <1>2, <1>4, <1>5, <1>6, <1>7

LEMMA LstatSInv ==
  ASSUME TInv, SInv, NEW p \in Proc, Lstat(p)
  PROVE  RunGood(p)' /\ UNCHANGED << live, orphan >>
<1>1. /\ RunGood(p) /\ TypeOK /\ pc[p] = "lstat" /\ backup[p] = None
      /\ UNCHANGED << live, orphan, backup, option >>
      /\ manifest[p] \in Manifest
  BY DEF SInv, TInv, TypeOK, Locals, Lstat, Accepting
<1>2. CASE live[Dir(p)] = None
  <2>1. /\ staging'[p] = EmptyDirectory
        /\ pc'[p] = "downloadArtifacts"
        /\ option[p] => todo'[p] = Listed(manifest[p])
        /\ UNCHANGED << at, manifest >>
    BY <1>1, <1>2 DEF Lstat, Goto, TypeOK
  <2>2. Src(p)' = Src(p)
    BY <2>1 DEF Src
  <2>3. FilesVerified(manifest[p], EmptyDirectory.files)
    BY DEF FilesVerified, EmptyDirectory
  <2>4. QED BY <1>1, <2>1, <2>2, <2>3
            DEF RunGood, Accepting, Staging, FilesVerified
<1>3. CASE live[Dir(p)] # None
  BY <1>1, <1>3, LeaveGood DEF Lstat
<1>4. QED BY <1>1, <1>2, <1>3

LEMMA DownloadArtifactSInv ==
  ASSUME TInv, SInv, NEW p \in Proc, DownloadArtifact(p)
  PROVE  RunGood(p)' /\ UNCHANGED << live, orphan >>
<1>1. /\ RunGood(p) /\ TypeOK /\ pc[p] = "downloadArtifacts" /\ backup[p] = None
      /\ UNCHANGED << live, orphan, backup, option >>
      /\ manifest[p] \in Manifest /\ staging[p] \in Content
  BY DEF SInv, TInv, TypeOK, Locals, DownloadArtifact, Staging
<1>2. CASE todo[p] = {} /\ Goto(p, "writeManifest")
           /\ UNCHANGED << staging, at, result, seen, manifest, todo >>
  <2>1. pc'[p] = "writeManifest"
    BY <1>1, <1>2 DEF Goto, TypeOK
  <2>2. Src(p)' = Src(p)
    BY <1>2 DEF Src
  <2>3. QED BY <1>1, <1>2, <2>1, <2>2
            DEF RunGood, Staging, FilesVerified, FilesComplete
<1>3. ASSUME NEW a \in todo[p],
             ArtifactAccepted(manifest[p], a, seen[p].asset[AssetOf[a]],
                              remote[Src(p)].asset[AssetOf[a]]),
             staging' = [staging EXCEPT ![p].files[a] =
                           remote[Src(p)].asset[AssetOf[a]]],
             todo' = [todo EXCEPT ![p] = @ \ {a}],
             UNCHANGED << pc, at, result, seen, manifest >>
      PROVE  RunGood(p)'
  <2>1. a \in Artifact /\ Src(p)' = Src(p)
    BY <1>1, <1>3 DEF TypeOK, Src
  <2>2. /\ staging'[p].files \in [Artifact -> Bytes \cup {None}]
        /\ staging'[p].files[a] = Digest(manifest[p])[a]
        /\ \A b \in Artifact \ {a} : staging'[p].files[b] = staging[p].files[b]
    <3>1. staging'[p] = [staging[p] EXCEPT !.files[a] = Digest(manifest[p])[a]]
      BY <1>1, <1>3 DEF TypeOK, ArtifactAccepted
    <3>2. Digest(manifest[p])[a] \in Bytes \cup {None}
      BY <1>1, <2>1, ManifestFacts
    <3>3. QED BY <1>1, <2>1, <3>1, <3>2 DEF Content
  <2>3. FilesVerified(manifest[p], staging'[p].files)
    BY <1>1, <2>1, <2>2 DEF RunGood, FilesVerified, Staging
  <2>4. todo'[p] = todo[p] \ {a}
    BY <1>1, <1>3 DEF TypeOK
  <2>5. option[p] => \A b \in Listed(manifest[p]) \ todo'[p] :
                       staging'[p].files[b] = Digest(manifest[p])[b]
    BY <1>1, <2>2, <2>4, ManifestFacts DEF RunGood
  <2>6. QED BY <1>1, <1>3, <2>1, <2>3, <2>5 DEF RunGood, Staging, FilesVerified
<1>4. CASE Catch(p)
  BY <1>1, <1>4, CatchGood DEF Staging
<1>5. QED BY <1>1, <1>2, <1>3, <1>4 DEF DownloadArtifact

LEMMA WriteManifestSInv ==
  ASSUME TInv, SInv, NEW p \in Proc, WriteManifest(p)
  PROVE  RunGood(p)' /\ UNCHANGED << live, orphan >>
<1>1. /\ RunGood(p) /\ TypeOK /\ pc[p] = "writeManifest" /\ backup[p] = None
      /\ UNCHANGED << live, orphan, backup, option, at, manifest >>
      /\ pc'[p] = "moveAside"
      /\ manifest[p] \in Manifest /\ staging[p] \in Content
  BY DEF SInv, TInv, TypeOK, Locals, WriteManifest, Staging, Goto
<1>2. staging'[p].manifest = manifest[p] /\ staging'[p].files = staging[p].files
  BY <1>1 DEF WriteManifest, TypeOK, Content
<1>3. Src(p)' = Src(p)
  BY <1>1 DEF Src
<1>4. QED BY <1>1, <1>2, <1>3 DEF RunGood, Staging, FilesVerified, FilesComplete

LEMMA MoveAsideSInv ==
  ASSUME TInv, SInv, NEW p \in Proc, MoveAside(p)
  PROVE  RunGood(p)' /\ \A d \in Directory : DirectoryGood(d)'
<1>1. /\ RunGood(p) /\ TypeOK /\ pc[p] = "moveAside"
      /\ UNCHANGED << staging, orphan, option, at, manifest, todo >>
      /\ pc'[p] = "promote" /\ backup'[p] = live[Dir(p)]
      /\ manifest[p] \in Manifest /\ Dir(p) \in Directory
  BY ManifestFacts DEF SInv, TInv, TypeOK, Locals, MoveAside, Staging, Goto, Dir
<1>2. Src(p)' = Src(p) /\ Dir(p)' = Dir(p)
  BY <1>1 DEF Src, Dir
<1>3. backup'[p] # None => Good(Dir(p), backup'[p])
  BY <1>1 DEF SInv, DirectoryGood
<1>4. RunGood(p)'
  BY <1>1, <1>2, <1>3 DEF RunGood, Staging, FilesVerified, FilesComplete
<1>5. \A d \in Directory : live'[d] # None => live'[d] = live[d]
  BY <1>1 DEF MoveAside, TypeOK
<1>6. QED BY <1>1, <1>4, <1>5 DEF SInv, DirectoryGood

\* What a run promotes is good.
LEMMA StagedGood ==
  ASSUME TInv, NEW p \in Proc, RunGood(p), pc[p] = "promote"
  PROVE  Good(Dir(p), staging[p])
<1>1. /\ manifest[p] \in Manifest /\ staging[p] \in Content
      /\ option[p] \in BOOLEAN /\ Src(p) \in Source
      /\ staging[p].manifest = manifest[p]
      /\ Eligible(Src(p), manifest[p])
      /\ FilesVerified(manifest[p], staging[p].files)
  BY SourceType DEF TInv, TypeOK, Locals, RunGood, Staging
<1>2. Trusted(Dir(p), staging[p])
  BY <1>1 DEF Trusted, Dir, FilesVerified
<1>3. ASSUME DownloadOptions = {TRUE} PROVE Complete(staging[p])
  <2>1. option[p] = TRUE
    BY <1>1, <1>3 DEF RunGood
  <2>2. FilesComplete(manifest[p], staging[p].files)
    BY <2>1 DEF RunGood
  <2>3. QED BY <1>1, <2>2, Zenon DEF Complete, FilesComplete
<1>4. QED BY <1>2, <1>3 DEF Good

LEMMA PromoteSInv ==
  ASSUME TInv, SInv, NEW p \in Proc, Promote(p)
  PROVE  RunGood(p)' /\ \A d \in Directory : DirectoryGood(d)'
<1>1. /\ RunGood(p) /\ TypeOK /\ pc[p] = "promote"
      /\ UNCHANGED << backup, orphan, option >>
      /\ manifest[p] \in Manifest /\ Dir(p) \in Directory
      /\ Good(Dir(p), staging[p])
  BY ManifestFacts, StagedGood
     DEF SInv, TInv, TypeOK, Locals, Promote, Staging, Dir
<1>2. RunGood(p)'
  <2>1. CASE backup[p] # None
    <3>1. pc'[p] \in {"rmBackup", "restore"} /\ UNCHANGED << at, manifest, todo >>
      BY <1>1, <2>1 DEF Promote, Goto, TypeOK
    <3>2. Src(p)' = Src(p) /\ Dir(p)' = Dir(p)
      BY <3>1 DEF Src, Dir
    <3>3. QED BY <1>1, <3>1, <3>2 DEF RunGood, Accepting, Staging, Recovering
  <2>2. CASE backup[p] = None
    BY <1>1, <2>2, LeaveGood, CatchGood DEF Promote, Staging
  <2>3. QED BY <2>1, <2>2
<1>3. \A d \in Directory :
        live'[d] = live[d] \/ (d = Dir(p) /\ live'[d] = staging[p])
  BY <1>1 DEF Promote, TypeOK
<1>4. QED BY <1>1, <1>2, <1>3 DEF SInv, DirectoryGood

LEMMA RestoreSInv ==
  ASSUME TInv, SInv, NEW p \in Proc, Restore(p) \/ RestoreFails(p)
  PROVE  RunGood(p)' /\ \A d \in Directory : DirectoryGood(d)'
<1>1. /\ RunGood(p) /\ TypeOK /\ pc[p] = "restore"
      /\ UNCHANGED << option >> /\ Catch(p) /\ backup'[p] = None
      /\ manifest[p] \in Manifest /\ Dir(p) \in Directory
      /\ Good(Dir(p), backup[p])
  BY ManifestFacts
     DEF SInv, TInv, TypeOK, Locals, Restore, RestoreFails, AbandonBackup,
         Recovering, Dir, RunGood
<1>2. RunGood(p)'
  BY <1>1, CatchGood DEF Recovering
<1>3. \A d \in Directory :
        /\ live'[d] = live[d] \/ (d = Dir(p) /\ live'[d] = backup[p])
        /\ orphan'[d] = orphan[d] \/
             (d = Dir(p) /\ orphan'[d] = orphan[d] \cup {backup[p]})
  BY <1>1 DEF Restore, RestoreFails, AbandonBackup, TypeOK
<1>4. QED BY <1>1, <1>2, <1>3 DEF SInv, DirectoryGood

LEMMA RmSInv ==
  ASSUME TInv, SInv, NEW p \in Proc, RmBackup(p) \/ RmStaging(p) \/ RmFails(p)
  PROVE  RunGood(p)' /\ UNCHANGED << live, orphan >>
<1>1. /\ RunGood(p) /\ TypeOK /\ pc[p] \in Recovering
      /\ UNCHANGED << option, live, orphan >> /\ backup'[p] = None
  BY DEF SInv, TInv, TypeOK, Locals, RmBackup, RmStaging, RmFails, Recovering
<1>2. QED BY <1>1, LeaveGood, CatchGood
          DEF RmBackup, RmStaging, RmFails, Recovering

LEMMA CallFailsSInv ==
  ASSUME TInv, SInv, NEW p \in Proc,
         FetchFails(p) \/ ReadFails(p) \/ WriteFails(p) \/ PromoteFails(p)
  PROVE  RunGood(p)' /\ UNCHANGED << live, orphan >>
<1>1. RunGood(p) /\ TypeOK /\ UNCHANGED << option, files >>
  BY DEF SInv, TInv, FetchFails, ReadFails, WriteFails, PromoteFails
<1>2. CASE PromoteFails(p)
  <2>1. /\ pc[p] = "promote" /\ pc'[p] = "restore"
        /\ UNCHANGED << at, manifest, backup >>
    BY <1>1, <1>2 DEF PromoteFails, Goto, TypeOK, files
  <2>2. Src(p)' = Src(p) /\ Dir(p)' = Dir(p)
    BY <2>1 DEF Src, Dir
  <2>3. QED BY <1>1, <2>1, <2>2 DEF RunGood, Accepting, Staging, Recovering, files
<1>3. CASE FetchFails(p) \/ ReadFails(p) \/ WriteFails(p)
  <2>1. backup[p] = None /\ pc[p] # "idle"
    BY <1>3 DEF FetchFails, ReadFails, WriteFails, TInv, Locals
  <2>2. Throw(p) \/ (Catch(p) /\ pc[p] \in Staging)
    BY <1>3 DEF FetchFails, ReadFails, WriteFails, Staging
  <2>3. QED BY <1>1, <2>1, <2>2, LeaveGood, CatchGood DEF files
<1>4. QED BY <1>2, <1>3

LEMMA CrashSInv ==
  ASSUME TInv, SInv, NEW p \in Proc, Crash(p)
  PROVE  RunGood(p)' /\ \A d \in Directory : DirectoryGood(d)'
<1>1. /\ RunGood(p) /\ TypeOK /\ pc[p] # "idle" /\ Throw(p)
      /\ UNCHANGED << option, live >> /\ backup'[p] = None
  BY DEF SInv, TInv, TypeOK, Crash, AbandonBackup
<1>2. RunGood(p)'
  BY <1>1, LeaveGood
<1>3. \A d \in Directory :
        orphan'[d] = orphan[d] \/
          (/\ d = Dir(p) /\ backup[p] # None
           /\ orphan'[d] = orphan[d] \cup {backup[p]})
  BY <1>1 DEF Crash, AbandonBackup, TypeOK
<1>4. \A d \in Directory : DirectoryGood(d)'
  BY <1>1, <1>3 DEF SInv, DirectoryGood, RunGood
<1>5. QED BY <1>2, <1>4

LEMMA NextSInv ==
  ASSUME TInv, SInv, [Next]_vars
  PROVE  SInv'
<1>1. /\ \A d \in Directory : DirectoryGood(d)
      /\ \A q \in Proc : RunGood(q)
      /\ TypeOK
  BY DEF SInv, TInv
<1>2. ASSUME NEW p \in Proc, Start(p) \/ RunStep(p) \/ Fault(p)
      PROVE  SInv'
  <2>1. RunGood(p)' /\ \A d \in Directory : DirectoryGood(d)'
    <3>1. CASE Start(p)
      BY <1>1, <3>1, EarlySInv, DirectoriesGood
    <3>2. CASE RunStep(p)
      BY <1>1, <3>2, EarlySInv, LstatSInv, DownloadArtifactSInv,
         WriteManifestSInv, MoveAsideSInv, PromoteSInv, RestoreSInv, RmSInv,
         DirectoriesGood DEF RunStep
    <3>3. CASE Fault(p)
      BY <1>1, <3>3, CallFailsSInv, RestoreSInv, RmSInv, CrashSInv,
         DirectoriesGood DEF Fault
    <3>4. QED BY <1>2, <3>1, <3>2, <3>3
  <2>2. \A q \in Proc \ {p} : RunGood(q)'
    BY <1>1, <1>2, OthersGood
  <2>3. QED BY <2>1, <2>2 DEF SInv
<1>3. CASE UNCHANGED << files, run >>
  <2>1. \A p \in Proc : Src(p)' = Src(p) /\ Dir(p)' = Dir(p)
    BY <1>3 DEF run, Src, Dir
  <2>2. QED BY <1>1, <1>3, <2>1
            DEF SInv, DirectoryGood, RunGood, files, run, FilesVerified, FilesComplete
<1>4. QED BY <1>2, <1>3 DEF Next, Republish, vars

\* For any number of runs, sources and releases, and whatever the publisher,
\* failures and crashes do: a release directory that was good before the first
\* run, or is created by a run, holds only files the configuration vouches for
\* (syncSource:143-215).
THEOREM LiveIsTrusted ==
  ASSUME InitiallyGood PROVE Spec => []LiveTrusted
<1>1. SInv => LiveTrusted
  BY DEF SInv, DirectoryGood, Good, LiveTrusted
<1>2. Init => TInv /\ SInv
  BY TInvInit, InitSInv
<1>3. TInv /\ SInv /\ [Next]_vars => (TInv /\ SInv)'
  BY NextTInv, NextSInv
<1>4. QED BY <1>1, <1>2, <1>3, PTL DEF Spec

\* And when runs download artifacts, it never lacks one its manifest lists
\* (downloadArtifacts:217-264, replaceReleaseDirectory:302-333).
THEOREM LiveIsComplete ==
  ASSUME InitiallyGood PROVE Spec => []LiveComplete
<1>1. SInv => LiveComplete
  BY DEF SInv, DirectoryGood, Good, LiveComplete
<1>2. Init => TInv /\ SInv
  BY TInvInit, InitSInv
<1>3. TInv /\ SInv /\ [Next]_vars => (TInv /\ SInv)'
  BY NextTInv, NextSInv
<1>4. QED BY <1>1, <1>2, <1>3, PTL DEF Spec

-----------------------------------------------------------------------------
(* No promoted release is lost.                                            *)

LEMMA CopiesMember ==
  ASSUME NEW d, NEW c
  PROVE  c \in Copies(d) <=> \/ c = live[d] /\ c # None
                            \/ c \in orphan[d]
                            \/ \E q \in Proc : /\ Swapping(q) /\ Dir(q) = d
                                               /\ c = backup[q]
BY DEF Copies

LEMMA CopiesMemberNext ==
  ASSUME NEW d, NEW c
  PROVE  c \in Copies(d)' <=> \/ c = live'[d] /\ c # None
                             \/ c \in orphan'[d]
                             \/ \E q \in Proc : /\ Swapping(q)' /\ Dir(q)' = d
                                                /\ c = backup'[q]
BY DEF Copies

\* What a step of p does to the copies of d, given that others are unaffected:
\* only p's own backup, the live directory and the orphans can change.
LEMMA CopiesFrame ==
  ASSUME TypeOK, NEW p \in Proc, Start(p) \/ RunStep(p) \/ Fault(p), NEW d, NEW c
  PROVE  /\ c \in Copies(d) <=>
              \/ c = live[d] /\ c # None
              \/ c \in orphan[d]
              \/ Swapping(p) /\ Dir(p) = d /\ c = backup[p]
              \/ \E q \in Proc \ {p} : Swapping(q) /\ Dir(q) = d /\ c = backup[q]
         /\ c \in Copies(d)' <=>
              \/ c = live'[d] /\ c # None
              \/ c \in orphan'[d]
              \/ Swapping(p)' /\ Dir(p)' = d /\ c = backup'[p]
              \/ \E q \in Proc \ {p} : Swapping(q) /\ Dir(q) = d /\ c = backup[q]
<1>1. \A q \in Proc \ {p} :
        Swapping(q)' = Swapping(q) /\ Dir(q)' = Dir(q) /\ backup'[q] = backup[q]
  BY OthersUnaffected DEF Swapping, Dir
<1>2. QED BY <1>1, CopiesMember, CopiesMemberNext

LEMMA SameCopies ==
  ASSUME NEW d, \A c : c \in Copies(d)' <=> c \in Copies(d)
  PROVE  Copies(d)' = Copies(d)
OBVIOUS

\* Every step but a successful promotion keeps the copies of every directory.
LEMMA CopiesChange ==
  ASSUME TInv, TInv', NEW p \in Proc, Start(p) \/ RunStep(p) \/ Fault(p),
         NEW d \in Directory
  PROVE  \/ Copies(d)' = Copies(d)
         \/ pc[p] = "promote" /\ d = Dir(p) /\ staging[p] \in Copies(d)'
<1>1. TypeOK /\ \A q \in Proc : backup[q] # None => manifest[q] \in Manifest
  BY DEF TInv, TypeOK, Locals, Staging, Recovering
<1>2. CASE /\ UNCHANGED << live, orphan >>
           /\ Swapping(p)' <=> Swapping(p)
           /\ Swapping(p) => UNCHANGED << backup, manifest >>
  <2>1. Swapping(p) => Dir(p)' = Dir(p) /\ backup'[p] = backup[p]
    BY <1>2 DEF Dir
  <2>2. \A c : c \in Copies(d)' <=> c \in Copies(d)
    BY <1>1, <1>2, <2>1, CopiesFrame
  <2>3. QED BY <2>2, SameCopies
<1>3. CASE MoveAside(p)
  <2>1. /\ ~ Swapping(p) /\ Dir(p)' = Dir(p)
        /\ Dir(p) \in Directory /\ orphan' = orphan
        /\ Swapping(p)' <=> live[Dir(p)] # None
        /\ backup'[p] = live[Dir(p)]
        /\ live'[Dir(p)] = None
        /\ d # Dir(p) => live'[d] = live[d]
    BY <1>1, <1>3, ManifestFacts
       DEF MoveAside, Goto, Swapping, Dir, TInv, TypeOK, Locals, Staging
  <2>2. \A c : c \in Copies(d)' <=> c \in Copies(d)
    BY <1>1, <1>3, <2>1, CopiesFrame
  <2>3. QED BY <2>2, SameCopies
<1>4. CASE Promote(p)
  <2>1. CASE live[Dir(p)] = None
    <3>1. /\ orphan' = orphan /\ ~ Swapping(p)'
          /\ staging[p] # None /\ Dir(p) \in Directory
          /\ live' = [live EXCEPT ![Dir(p)] = staging[p]]
      BY <1>4, <2>1, ManifestFacts
         DEF Promote, Return, Goto, Swapping, Dir, TInv, TypeOK, Locals, Staging
    <3>2. CASE d = Dir(p)
      <4>1. live'[d] = staging[p]
        BY <1>1, <3>1, <3>2 DEF TypeOK
      <4>2. staging[p] \in Copies(d)'
        BY <1>1, <3>1, <4>1, CopiesMemberNext
      <4>3. QED BY <1>4, <3>2, <4>2 DEF Promote
    <3>3. CASE d # Dir(p)
      <4>1. live'[d] = live[d]
        BY <1>1, <3>1, <3>3 DEF TypeOK
      <4>2. \A c : c \in Copies(d)' <=> c \in Copies(d)
        BY <1>1, <3>1, <3>3, <4>1, CopiesFrame
      <4>3. QED BY <4>2, SameCopies
    <3>4. QED BY <3>2, <3>3
  <2>2. CASE live[Dir(p)] # None
    <3>1. /\ UNCHANGED << live, orphan, backup, manifest >>
          /\ Swapping(p)' <=> Swapping(p)
      BY <1>4, <2>2 DEF Promote, Catch, Goto, Swapping, TInv, TypeOK
    <3>2. QED BY <1>2, <3>1
  <2>3. QED BY <2>1, <2>2
<1>5. CASE Restore(p) \/ RestoreFails(p)
  <2>1. /\ Swapping(p) /\ ~ Swapping(p)' /\ Dir(p) \in Directory
        /\ backup[p] # None
    BY <1>5, <1>1, ManifestFacts DEF Restore, RestoreFails, Catch, Goto, Swapping,
       AbandonBackup, TInv, TypeOK, Locals, Dir
  <2>2. CASE orphan' = [orphan EXCEPT ![Dir(p)] = @ \cup {backup[p]}] /\ live' = live
    <3>1. /\ live'[d] = live[d]
          /\ d = Dir(p) => orphan'[d] = orphan[d] \cup {backup[p]}
          /\ d # Dir(p) => orphan'[d] = orphan[d]
      BY <1>1, <2>1, <2>2 DEF TypeOK
    <3>2. \A c : c \in Copies(d)' <=> c \in Copies(d)
      BY <1>1, <2>1, <3>1, CopiesFrame
    <3>3. QED BY <3>2, SameCopies
  <2>3. CASE /\ live[Dir(p)] = None
             /\ live' = [live EXCEPT ![Dir(p)] = backup[p]] /\ orphan' = orphan
    <3>1. /\ d = Dir(p) => live[d] = None /\ live'[d] = backup[p]
          /\ d # Dir(p) => live'[d] = live[d]
          /\ orphan'[d] = orphan[d]
      BY <1>1, <2>1, <2>3 DEF TypeOK
    <3>2. \A c : c \in Copies(d)' <=> c \in Copies(d)
      BY <1>1, <2>1, <3>1, CopiesFrame
    <3>3. QED BY <3>2, SameCopies
  <2>4. QED BY <1>5, <2>2, <2>3 DEF Restore, RestoreFails, AbandonBackup
<1>6. CASE Crash(p)
  <2>1. ~ Swapping(p)' /\ live' = live
    BY <1>6 DEF Crash, Throw, Goto, Swapping, TInv, TypeOK
  <2>2. CASE Swapping(p)
    <3>1. orphan' = [orphan EXCEPT ![Dir(p)] = @ \cup {backup[p]}]
      BY <1>6, <2>2 DEF Crash, AbandonBackup, Swapping
    <3>2. Dir(p) \in Directory
      BY <1>1, <2>2, ManifestFacts DEF Swapping, Dir
    <3>3. /\ live'[d] = live[d]
          /\ d = Dir(p) => orphan'[d] = orphan[d] \cup {backup[p]}
          /\ d # Dir(p) => orphan'[d] = orphan[d]
      BY <1>1, <2>1, <3>1, <3>2 DEF TypeOK
    <3>4. \A c : c \in Copies(d)' <=> c \in Copies(d)
      BY <1>1, <2>1, <2>2, <3>3, CopiesFrame
    <3>5. QED BY <3>4, SameCopies
  <2>3. CASE ~ Swapping(p)
    <3>1. orphan' = orphan
      BY <1>6, <2>3 DEF Crash, Swapping
    <3>2. QED BY <1>2, <2>1, <2>3, <3>1
  <2>4. QED BY <2>2, <2>3
<1>7. CASE PromoteFails(p)
  <2>1. Swapping(p) /\ Swapping(p)' /\ UNCHANGED << live, orphan, backup, manifest >>
    BY <1>7 DEF PromoteFails, Goto, Swapping, files, TInv, TypeOK
  <2>2. QED BY <1>2, <2>1
<1>8. CASE \/ Start(p) \/ FetchRelease(p) \/ DownloadManifest(p)
           \/ ReadManifest(p) \/ ValidateArtifact(p) \/ Lstat(p)
           \/ DownloadArtifact(p) \/ WriteManifest(p)
           \/ RmBackup(p) \/ RmStaging(p) \/ RmFails(p)
           \/ FetchFails(p) \/ ReadFails(p) \/ WriteFails(p)
  <2>1. UNCHANGED << live, orphan >>
    BY <1>8 DEF Start, FetchRelease, DownloadManifest, ReadManifest,
       ValidateArtifact, Lstat, DownloadArtifact, WriteManifest, RmBackup,
       RmStaging, RmFails, FetchFails, ReadFails, WriteFails, files
  <2>2. ~ Swapping(p)
    BY <1>8 DEF Start, FetchRelease, DownloadManifest, ReadManifest,
       ValidateArtifact, Lstat, DownloadArtifact, WriteManifest, RmBackup,
       RmStaging, RmFails, FetchFails, ReadFails, WriteFails, Swapping
  <2>3. ~ Swapping(p)'
    <3>1. CASE backup'[p] = None
      BY <3>1 DEF Swapping
    <3>2. CASE backup'[p] # None
      <4>1. backup' = backup \/ backup'[p] = None
        BY <1>8 DEF Start, FetchRelease, DownloadManifest, ReadManifest,
           ValidateArtifact, Lstat, DownloadArtifact, WriteManifest, RmBackup,
           RmStaging, RmFails, FetchFails, ReadFails, WriteFails, files, TInv, TypeOK
      <4>2. pc[p] = "rmBackup"
        BY <2>2, <3>2, <4>1 DEF TInv, Locals, Swapping
      <4>3. RmBackup(p) \/ RmFails(p)
        BY <1>8, <4>2 DEF Start, FetchRelease, DownloadManifest, ReadManifest,
           ValidateArtifact, Lstat, DownloadArtifact, WriteManifest, RmStaging,
           FetchFails, ReadFails, WriteFails
      <4>4. QED BY <1>1, <3>2, <4>2, <4>3 DEF RmBackup, RmFails, TypeOK
    <3>3. QED BY <3>1, <3>2
  <2>4. QED BY <1>2, <2>1, <2>2, <2>3
<1>9. QED BY <1>3, <1>4, <1>5, <1>6, <1>7, <1>8 DEF RunStep, Fault

\* Steps of the publisher change no copy.
LEMMA RepublishCopies ==
  ASSUME UNCHANGED << files, run >>, NEW d
  PROVE  Copies(d)' = Copies(d)
<1>1. \A q \in Proc : Swapping(q)' = Swapping(q) /\ Dir(q)' = Dir(q)
  BY DEF files, run, Swapping, Dir
<1>2. \A c : c \in Copies(d)' <=> c \in Copies(d)
  BY <1>1, CopiesMember, CopiesMemberNext DEF files
<1>3. QED BY <1>2, SameCopies

\* What a step does to what is held for a directory: nothing, unless it is a
\* promotion there, after which something is held.
LEMMA HeldStep ==
  ASSUME TInv, TInv', [Next]_vars
  PROVE  \/ \A d \in Directory : Held(d)' = Held(d)
         \/ \E d \in Directory : /\ Held(d)' # {}
                                 /\ \A e \in Directory \ {d} : Held(e)' = Held(e)
<1>1. CASE UNCHANGED << files, run >>
  BY <1>1, RepublishCopies DEF Held
<1>2. ASSUME NEW p \in Proc, Start(p) \/ RunStep(p) \/ Fault(p)
      PROVE  \/ \A d \in Directory : Held(d)' = Held(d)
             \/ \E d \in Directory :
                   /\ Held(d)' # {}
                   /\ \A e \in Directory \ {d} : Held(e)' = Held(e)
  <2>1. CASE \A d \in Directory : Copies(d)' = Copies(d)
    BY <2>1 DEF Held
  <2>2. ASSUME NEW d \in Directory, Copies(d)' # Copies(d)
        PROVE  /\ Held(d)' # {}
               /\ \A e \in Directory \ {d} : Held(e)' = Held(e)
    <3>1. d = Dir(p) /\ staging[p] \in Copies(d)'
      BY <1>2, <2>2, CopiesChange
    <3>2. Held(d)' = { c.manifest : c \in Copies(d)' }
      BY DEF Held
    <3>3. Held(d)' # {}
      BY <3>1, <3>2
    <3>4. \A e \in Directory \ {d} : Copies(e)' = Copies(e)
      BY <1>2, <3>1, CopiesChange
    <3>5. \A e \in Directory \ {d} : Held(e)' = Held(e)
      BY <3>4 DEF Held
    <3>6. QED BY <3>3, <3>5
  <2>3. QED BY <2>1, <2>2
<1>3. QED BY <1>1, <1>2 DEF Next, Republish, vars

\* No interleaving of runs, no failed call and no crash ever takes the last
\* whole copy of a promoted release off the disk
\* (replaceReleaseDirectory:302-333).
THEOREM ReleasesKept == Spec => NoReleaseLost
<1>1. TInv /\ TInv' /\ [Next]_vars =>
        [\A d \in Directory : Held(d) # {} => Held(d)' # {}]_vars
  <2> SUFFICES ASSUME TInv, TInv', [Next]_vars,
                      NEW d \in Directory, Held(d) # {}
               PROVE  Held(d)' # {}
    OBVIOUS
  <2>1. QED BY HeldStep
<1>2. QED BY <1>1, SpecTInv, PTL DEF Spec, NoReleaseLost

-----------------------------------------------------------------------------
(* Pinned sources make the releases directory a write-once store.          *)

\* Every source names its manifest by SHA-256, and no two sources whose
\* manifests go to the same directory name different ones.
SourcesPinned ==
  /\ \A s \in Source : SourceConfig[s].pin \in Manifest
  /\ \A s, t \in Source :
       DirOf(SourceConfig[s].pin) = DirOf(SourceConfig[t].pin) =>
         SourceConfig[s].pin = SourceConfig[t].pin

\* Then the configuration allows a directory at most one manifest,
LEMMA OneAllowed ==
  ASSUME SourcesPinned, NEW d \in Directory,
         NEW m \in Allowed[d], NEW n \in Allowed[d]
  PROVE  m = n /\ m \in Manifest
<1>1. \A k \in Allowed[d] :
        /\ k \in Manifest /\ DirOf(k) = d
        /\ \E s \in Source : k = SourceConfig[s].pin
  BY ManifestFacts DEF Allowed, Eligible, PinMatches, SourcesPinned
<1>2. QED BY <1>1 DEF SourcesPinned

\* and every copy of a directory is one of that manifest.
LEMMA HeldAllowed ==
  ASSUME SInv, NEW d \in Directory
  PROVE  Held(d) \in SUBSET Allowed[d]
<1>1. \A c \in Copies(d) : Good(d, c)
  BY CopiesMember DEF SInv, DirectoryGood, RunGood, Swapping
<1>2. \A c : Good(d, c) => c.manifest \in Allowed[d]
  BY DEF Good, Trusted, Allowed
<1>3. QED BY <1>1, <1>2 DEF Held

\* With every source pinned, whatever the publisher, overlapping runs,
\* failures and crashes do: a release directory receives one manifest and keeps
\* it (validateExistingRelease:340-385, replaceReleaseDirectory:302-333).
THEOREM RefinesWriteOnceStore ==
  ASSUME InitiallyGood, SourcesPinned
  PROVE  Spec => ImplementsStore
<1> DEFINE held == [d \in Directory |-> Held(d)]
<1> DEFINE WithinAllowed == \A d \in Directory : Held(d) \in SUBSET Allowed[d]
<1>1. SInv => WithinAllowed
  BY HeldAllowed
<1>2. SInv' => WithinAllowed'
  BY <1>1, PTL
<1>3. Init /\ SInv => Store!Init
  <2> SUFFICES ASSUME SInv PROVE held \in [Directory -> {{}} \cup {{m} : m \in Manifest}]
    BY DEF Store!Init
  <2>1. ASSUME NEW d \in Directory
        PROVE  Held(d) \in {{}} \cup {{m} : m \in Manifest}
    <3>1. CASE Held(d) = {}
      BY <3>1
    <3>2. CASE Held(d) # {}
      <4>1. PICK m : m \in Held(d)
        BY <3>2
      <4>2. m \in Manifest /\ \A n \in Held(d) : n = m
        BY <4>1, HeldAllowed, OneAllowed
      <4>3. Held(d) = {m}
        BY <4>1, <4>2
      <4>4. QED BY <4>2, <4>3
    <3>3. QED BY <3>1, <3>2
  <2>2. QED BY <2>1
<1>4. TInv /\ TInv' /\ SInv /\ SInv' /\ [Next]_vars => [Store!Next]_held
  <2> SUFFICES ASSUME TInv, TInv', SInv, SInv', [Next]_vars
               PROVE  Store!Next \/ held' = held
    OBVIOUS
  <2>1. \A d \in Directory : Held(d) \in SUBSET Allowed[d]
    BY HeldAllowed
  <2>2. \A d \in Directory : Held(d)' \in SUBSET Allowed[d]
    BY <1>2
  <2>3. CASE \A d \in Directory : Held(d)' = Held(d)
    BY <2>3
  <2>4. ASSUME NEW d \in Directory, Held(d)' # {},
               \A e \in Directory \ {d} : Held(e)' = Held(e)
        PROVE  Store!Next \/ held' = held
    <3>1. PICK m : m \in Held(d)'
      BY <2>4
    <3>2. /\ m \in Manifest /\ m \in Allowed[d]
          /\ \A n \in Allowed[d] : n = m
      BY <2>2, <3>1, OneAllowed
    <3>3. Held(d)' = {m}
      BY <2>2, <3>1, <3>2
    <3>4. CASE Held(d) = {}
      <4>1. held' = [held EXCEPT ![d] = {m}]
        BY <2>4, <3>3
      <4>2. Store!Publish(d, m)
        BY <3>2, <3>4, <4>1 DEF Store!Publish
      <4>3. QED BY <3>2, <4>2 DEF Store!Next
    <3>5. CASE Held(d) # {}
      <4>1. Held(d) = {m}
        BY <2>1, <3>2, <3>5
      <4>2. held' = held
        BY <2>4, <3>3, <4>1
      <4>3. QED BY <4>2
    <3>6. QED BY <3>4, <3>5
  <2>5. QED BY <2>3, <2>4, HeldStep
<1>5. Init => TInv /\ SInv
  BY TInvInit, InitSInv
<1>6. TInv /\ SInv /\ [Next]_vars => (TInv /\ SInv)'
  BY NextTInv, NextSInv
<1>7. QED BY <1>3, <1>4, <1>5, <1>6, PTL DEF Spec, ImplementsStore, Store!Spec

-----------------------------------------------------------------------------
(* No process dies, any number of runs.                                    *)

LEMMA AliveIsNext == [AliveNext]_vars => [Next]_vars
BY DEF AliveNext, CalmNext, Next, Fault

LEMMA AliveTInv == AliveSpec => []TInv
<1>1. AliveSpec => Spec
  BY AliveIsNext, PTL DEF AliveSpec, Spec
<1>2. QED BY <1>1, SpecTInv, PTL

\* A directory that only orphans are left of is one a run will restore or
\* replace.
Covered(d) ==
  orphan[d] # {} /\ live[d] = None => \E p \in Proc : Swapping(p) /\ Dir(p) = d

LEMMA CoveredIsAvailable == (\A d \in Directory : Covered(d)) <=> QuietAvailable
<1>1. ASSUME NEW d \in Directory
      PROVE  Covered(d) <=> (Held(d) # {} /\ live[d] = None =>
                               \E p \in Proc : Swapping(p) /\ Dir(p) = d)
  BY DEF Covered, Held, Copies
<1>2. QED BY <1>1 DEF QuietAvailable

\* What a step of run p may do to a directory: leave an orphan only if the
\* directory is there, make it disappear only for its own swap, and end a swap
\* only when the directory is there.
SwapsCleanly(p) ==
  \A d \in Directory :
    /\ orphan'[d] = orphan[d] \/ live'[d] # None
    /\ live'[d] = None /\ live[d] # None => Swapping(p)' /\ Dir(p)' = d
    /\ Swapping(p) /\ Dir(p) = d /\ live'[d] = None => Swapping(p)' /\ Dir(p)' = d

LEMMA CleanSteps ==
  ASSUME TInv, NEW p \in Proc, Start(p) \/ RunStep(p) \/ FetchFails(p) \/ ReadFails(p)
           \/ WriteFails(p) \/ PromoteFails(p) \/ RmFails(p)
  PROVE  SwapsCleanly(p)
<1>1. TypeOK /\ Locals
  BY DEF TInv
<1>2. CASE Start(p) \/ FetchRelease(p) \/ DownloadManifest(p) \/ ReadManifest(p)
           \/ ValidateArtifact(p) \/ Lstat(p) \/ DownloadArtifact(p) \/ WriteManifest(p)
           \/ RmBackup(p) \/ RmStaging(p) \/ RmFails(p)
  <2>1. /\ UNCHANGED << live, orphan >>
        /\ pc[p] \notin {"promote", "restore"}
    BY <1>2 DEF Start, FetchRelease, DownloadManifest, ReadManifest, ValidateArtifact,
       Lstat, DownloadArtifact, WriteManifest, RmBackup, RmStaging, RmFails, files
  <2>2. QED BY <2>1 DEF SwapsCleanly, Swapping
<1>3. CASE FetchFails(p) \/ ReadFails(p) \/ WriteFails(p)
  <2>1. /\ UNCHANGED << live, orphan >>
        /\ ~ Swapping(p)
    BY <1>1, <1>3 DEF FetchFails, ReadFails, WriteFails, files, Swapping, Locals
  <2>2. QED BY <2>1 DEF SwapsCleanly
<1>4. CASE PromoteFails(p)
  <2>1. /\ UNCHANGED << live, orphan, backup, manifest >>
        /\ pc'[p] = "restore"
    BY <1>1, <1>4 DEF PromoteFails, Goto, files, TypeOK
  <2>2. QED BY <2>1 DEF SwapsCleanly, Swapping, Dir
<1>5. CASE MoveAside(p)
  <2>1. /\ orphan' = orphan /\ manifest' = manifest
        /\ pc[p] = "moveAside" /\ pc'[p] = "promote"
        /\ backup'[p] = live[Dir(p)]
        /\ \A d \in Directory : d # Dir(p) => live'[d] = live[d]
    BY <1>1, <1>5 DEF MoveAside, Goto, TypeOK
  <2>2. QED BY <2>1 DEF SwapsCleanly, Swapping, Dir
<1>6. CASE Promote(p)
  <2>1. /\ orphan' = orphan /\ backup' = backup
        /\ Dir(p) \in Directory /\ staging[p] # None
    BY <1>1, <1>6, ManifestFacts DEF Promote, TypeOK, Locals, Staging, Dir
  <2>2. CASE live[Dir(p)] = None
    <3>1. live' = [live EXCEPT ![Dir(p)] = staging[p]]
      BY <1>6, <2>2 DEF Promote
    <3>2. QED BY <1>1, <2>1, <2>2, <3>1 DEF SwapsCleanly, TypeOK
  <2>3. CASE live[Dir(p)] # None
    <3>1. live' = live
      BY <1>6, <2>3 DEF Promote
    <3>2. QED BY <2>1, <2>3, <3>1 DEF SwapsCleanly
  <2>4. QED BY <2>2, <2>3
<1>7. CASE Restore(p)
  <2>1. backup[p] # None /\ Dir(p) \in Directory
    BY <1>1, <1>7, ManifestFacts DEF Restore, TypeOK, Locals, Recovering, Dir
  <2>2. CASE live[Dir(p)] = None
    <3>1. live' = [live EXCEPT ![Dir(p)] = backup[p]] /\ orphan' = orphan
      BY <1>7, <2>2 DEF Restore
    <3>2. QED BY <1>1, <2>1, <2>2, <3>1 DEF SwapsCleanly, TypeOK
  <2>3. CASE live[Dir(p)] # None
    <3>1. /\ live' = live
          /\ \A d \in Directory : d # Dir(p) => orphan'[d] = orphan[d]
      BY <1>1, <1>7, <2>3 DEF Restore, AbandonBackup, TypeOK
    <3>2. QED BY <2>3, <3>1 DEF SwapsCleanly
  <2>4. QED BY <2>2, <2>3
<1>8. QED BY <1>2, <1>3, <1>4, <1>5, <1>6, <1>7 DEF RunStep

LEMMA AliveCovered ==
  ASSUME TInv, \A d \in Directory : Covered(d), [AliveNext]_vars
  PROVE  \A d \in Directory : Covered(d)'
<1>1. CASE UNCHANGED << files, run >>
  BY <1>1 DEF Covered, Swapping, Dir, files, run
<1>2. ASSUME NEW p \in Proc, Start(p) \/ RunStep(p) \/ FetchFails(p) \/ ReadFails(p)
               \/ WriteFails(p) \/ PromoteFails(p) \/ RmFails(p),
             NEW d \in Directory, orphan'[d] # {}, live'[d] = None
      PROVE  \E q \in Proc : Swapping(q)' /\ Dir(q)' = d
  <2>1. SwapsCleanly(p)
    BY <1>2, CleanSteps
  <2>2. orphan[d] # {}
    BY <1>2, <2>1 DEF SwapsCleanly
  <2>3. CASE live[d] # None
    BY <1>2, <2>1, <2>3 DEF SwapsCleanly
  <2>4. CASE live[d] = None
    <3>1. PICK q \in Proc : Swapping(q) /\ Dir(q) = d
      BY <2>2, <2>4 DEF Covered
    <3>2. CASE q = p
      BY <1>2, <2>1, <3>1, <3>2 DEF SwapsCleanly
    <3>3. CASE q # p
      <4>1. pc'[q] = pc[q] /\ backup'[q] = backup[q] /\ manifest'[q] = manifest[q]
        BY <1>2, <3>3, OthersUnaffected DEF TInv, Fault
      <4>2. QED BY <3>1, <4>1 DEF Swapping, Dir
    <3>4. QED BY <3>2, <3>3
  <2>5. QED BY <2>3, <2>4
<1>3. QED BY <1>1, <1>2 DEF AliveNext, CalmNext, Republish, vars, Covered

\* However many runs overlap, pinned or not, and whichever of their calls fail:
\* while no process dies and no restoring rename fails, a release that has been
\* there is missing only while a run is between its two renames
\* (replaceReleaseDirectory:302-333).
THEOREM ReleasesStayAvailable == AliveSpec => []QuietAvailable
<1>1. Init => \A d \in Directory : Covered(d)
  BY DEF Init, Covered
<1>2. TInv /\ (\A d \in Directory : Covered(d)) /\ [AliveNext]_vars
        => (\A d \in Directory : Covered(d))'
  BY AliveCovered
<1>3. QED BY <1>1, <1>2, AliveTInv, CoveredIsAvailable, PTL DEF AliveSpec

-----------------------------------------------------------------------------
(* One run at a time.                                                      *)

\* Runs of the command may follow each other, but no two overlap.
OneRun == \A p, q \in Proc : p = q

\* What the run that is under way knows of the directory it works on, and of
\* the one it stages: nobody else has changed them.  So it never has a backup.
OwnDirectories(p) ==
  /\ backup[p] = None
  /\ pc[p] \in Staging => live[Dir(p)] = None
  /\ pc[p] = "validateArtifacts" =>
       /\ live[Dir(p)] # None
       /\ live[Dir(p)].manifest = manifest[p]
       /\ \A a \in Listed(manifest[p]) \ todo[p] :
             live[Dir(p)].files[a] = Digest(manifest[p])[a]
  /\ pc[p] = "downloadArtifacts" /\ option[p] =>
       \A a \in Listed(manifest[p]) \ todo[p] :
          staging[p].files[a] = Digest(manifest[p])[a]
  /\ pc[p] \in {"writeManifest", "moveAside", "promote"} /\ option[p] =>
       FilesComplete(manifest[p], staging[p].files)
  /\ pc[p] \in {"moveAside", "promote"} => staging[p].manifest = manifest[p]

OwnInv == \A p \in Proc : OwnDirectories(p)

\* A run with no directory of its own has nothing to know.
LEMMA NothingOwned ==
  ASSUME NEW p \in Proc, backup'[p] = None,
         pc'[p] \in {"idle", "fetchRelease", "downloadManifest", "readManifest", "lstat",
                     "rmStaging"}
  PROVE  OwnDirectories(p)'
BY DEF OwnDirectories, Staging

\* Where Return, Throw and Catch lead, and what they report.
LEMMA Leaving ==
  ASSUME TypeOK, NEW p \in Proc, NEW outcome, Return(p, outcome) \/ Throw(p) \/ Catch(p)
  PROVE  pc'[p] \in {"idle", "fetchRelease", "rmStaging"}
BY DEF TypeOK, Return, Throw, Catch, Goto

LEMMA EarlyOwn ==
  ASSUME TInv, NEW p \in Proc, OwnDirectories(p),
         Start(p) \/ FetchRelease(p) \/ DownloadManifest(p) \/ ReadManifest(p)
  PROVE  OwnDirectories(p)' /\ live' = live
<1>1. TypeOK /\ backup'[p] = None /\ UNCHANGED << live, staging >>
  BY DEF TInv, OwnDirectories, Start, FetchRelease, DownloadManifest, ReadManifest, files
<1>2. CASE Start(p) \/ FetchRelease(p) \/ DownloadManifest(p)
  <2>1. pc'[p] \in {"idle", "fetchRelease", "downloadManifest", "readManifest", "lstat",
                    "rmStaging"}
    BY <1>1, <1>2, Leaving DEF Start, FetchRelease, DownloadManifest, Goto, TypeOK
  <2>2. QED BY <1>1, <2>1, NothingOwned
<1>3. CASE ReadManifest(p)
  <2>1. CASE Goto(p, "lstat") \/ Return(p, "skipped") \/ Throw(p)
    <3>1. pc'[p] \in {"idle", "fetchRelease", "downloadManifest", "readManifest", "lstat",
                      "rmStaging"}
      BY <1>1, <2>1, Leaving DEF Goto, TypeOK
    <3>2. QED BY <1>1, <3>1, NothingOwned
  <2>2. CASE ~ (Goto(p, "lstat") \/ Return(p, "skipped") \/ Throw(p))
    <3>1. /\ pc'[p] = "validateArtifacts" /\ manifest' = manifest
          /\ todo'[p] = Listed(manifest[p])
          /\ manifest[p] # None
      BY <1>1, <1>3, <2>2 DEF ReadManifest, Goto, TInv, TypeOK, Locals, Accepting
    <3>2. live[Dir(p)] # None /\ live[Dir(p)].manifest = manifest[p]
      BY <1>3, <2>2, <3>1 DEF ReadManifest
    <3>3. QED BY <1>1, <3>1, <3>2 DEF OwnDirectories, Staging, Dir
  <2>3. QED BY <2>1, <2>2
<1>4. QED BY <1>1, <1>2, <1>3

LEMMA ValidateArtifactOwn ==
  ASSUME TInv, NEW p \in Proc, OwnDirectories(p), ValidateArtifact(p)
  PROVE  OwnDirectories(p)' /\ live' = live
<1>1. TypeOK /\ backup'[p] = None /\ live' = live /\ pc[p] = "validateArtifacts"
  BY DEF TInv, OwnDirectories, ValidateArtifact, files
<1>2. CASE Return(p, "skipped") \/ Throw(p)
  <2>1. pc'[p] \in {"idle", "fetchRelease", "downloadManifest", "readManifest", "lstat",
                    "rmStaging"}
    BY <1>1, <1>2, Leaving
  <2>2. QED BY <1>1, <2>1, NothingOwned
<1>3. CASE ~ (Return(p, "skipped") \/ Throw(p))
  <2>1. PICK a \in todo[p] :
          /\ live[Dir(p)] # None => live[Dir(p)].files[a] = Digest(manifest[p])[a]
          /\ todo' = [todo EXCEPT ![p] = @ \ {a}]
          /\ UNCHANGED << pc, manifest >>
    BY <1>3 DEF ValidateArtifact
  <2>2. todo'[p] = todo[p] \ {a}
    BY <1>1, <2>1 DEF TypeOK
  <2>3. QED BY <1>1, <2>1, <2>2 DEF OwnDirectories, Staging, Dir
<1>4. QED BY <1>2, <1>3

LEMMA LstatOwn ==
  ASSUME TInv, NEW p \in Proc, OwnDirectories(p), Lstat(p)
  PROVE  OwnDirectories(p)' /\ live' = live
<1>1. TypeOK /\ backup'[p] = None /\ live' = live
  BY DEF TInv, OwnDirectories, Lstat
<1>2. CASE live[Dir(p)] = None
  <2>1. /\ pc'[p] = "downloadArtifacts" /\ manifest' = manifest /\ option' = option
        /\ option[p] => todo'[p] = Listed(manifest[p])
    BY <1>1, <1>2 DEF Lstat, Goto, TypeOK
  <2>2. QED BY <1>1, <1>2, <2>1 DEF OwnDirectories, Staging, Dir
<1>3. CASE live[Dir(p)] # None
  <2>1. pc'[p] \in {"idle", "fetchRelease", "downloadManifest", "readManifest", "lstat",
                    "rmStaging"}
    BY <1>1, <1>3, Leaving DEF Lstat
  <2>2. QED BY <1>1, <2>1, NothingOwned
<1>4. QED BY <1>1, <1>2, <1>3

LEMMA DownloadArtifactOwn ==
  ASSUME TInv, NEW p \in Proc, OwnDirectories(p), DownloadArtifact(p)
  PROVE  OwnDirectories(p)' /\ live' = live
<1>1. /\ TypeOK /\ backup'[p] = None /\ live' = live /\ option' = option
      /\ pc[p] = "downloadArtifacts" /\ live[Dir(p)] = None
      /\ staging[p] \in Content
  BY DEF TInv, TypeOK, Locals, OwnDirectories, DownloadArtifact, Staging
<1>2. CASE todo[p] = {} /\ Goto(p, "writeManifest") /\ UNCHANGED << staging, manifest >>
  <2>1. pc'[p] = "writeManifest"
    BY <1>1, <1>2 DEF Goto, TypeOK
  <2>2. option[p] => FilesComplete(manifest[p], staging[p].files)
    BY <1>1, <1>2 DEF OwnDirectories, FilesComplete
  <2>3. QED BY <1>1, <1>2, <2>1, <2>2 DEF OwnDirectories, Staging, Dir, FilesComplete
<1>3. CASE Catch(p)
  BY <1>1, <1>3, Leaving, NothingOwned
<1>4. ASSUME NEW a \in todo[p], NEW downloaded,
             downloaded = Digest(manifest[p])[a],
             staging' = [staging EXCEPT ![p].files[a] = downloaded],
             todo' = [todo EXCEPT ![p] = @ \ {a}],
             UNCHANGED << pc, manifest >>
      PROVE  OwnDirectories(p)'
  <2>1. /\ staging'[p].files = [staging[p].files EXCEPT ![a] = downloaded]
        /\ todo'[p] = todo[p] \ {a}
    BY <1>1, <1>4 DEF TypeOK, Content
  <2>2. \A b \in Artifact : staging'[p].files[b] =
                              IF b = a THEN downloaded ELSE staging[p].files[b]
    BY <1>1, <2>1 DEF Content
  <2>3. Listed(manifest[p]) \in SUBSET Artifact
    BY DEF Listed
  <2>4. option[p] => \A b \in Listed(manifest[p]) \ todo'[p] :
                        staging'[p].files[b] = Digest(manifest[p])[b]
    BY <1>1, <1>4, <2>1, <2>2, <2>3 DEF OwnDirectories
  <2>5. QED BY <1>1, <1>4, <2>4 DEF OwnDirectories, Staging, Dir
<1>5. QED BY <1>1, <1>2, <1>3, <1>4 DEF DownloadArtifact, ArtifactAccepted

LEMMA WriteManifestOwn ==
  ASSUME TInv, NEW p \in Proc, OwnDirectories(p), WriteManifest(p)
  PROVE  OwnDirectories(p)' /\ live' = live
<1>1. /\ TypeOK /\ backup'[p] = None /\ UNCHANGED << live, option, manifest >>
      /\ pc[p] = "writeManifest" /\ pc'[p] = "moveAside" /\ live[Dir(p)] = None
      /\ staging[p] \in Content
  BY DEF TInv, TypeOK, Locals, OwnDirectories, WriteManifest, Staging, Goto
<1>2. staging'[p].files = staging[p].files /\ staging'[p].manifest = manifest[p]
  BY <1>1 DEF WriteManifest, TypeOK, Content
<1>3. QED BY <1>1, <1>2 DEF OwnDirectories, Staging, Dir, FilesComplete

LEMMA MoveAsideOwn ==
  ASSUME TInv, NEW p \in Proc, OwnDirectories(p), MoveAside(p)
  PROVE  OwnDirectories(p)' /\ live' = live
<1>1. /\ TypeOK /\ UNCHANGED << staging, option, manifest >>
      /\ pc[p] = "moveAside" /\ pc'[p] = "promote" /\ live[Dir(p)] = None
      /\ Dir(p) \in Directory
      /\ live' = [live EXCEPT ![Dir(p)] = None] /\ backup'[p] = None
  BY ManifestFacts
     DEF TInv, TypeOK, Locals, OwnDirectories, MoveAside, Staging, Goto, Dir
<1>2. live' = live
  BY <1>1 DEF TypeOK
<1>3. QED BY <1>1, <1>2 DEF OwnDirectories, Staging, Dir, FilesComplete

\* The promotion of the only run finds no directory in its place.
LEMMA PromoteOwn ==
  ASSUME TInv, NEW p \in Proc, OwnDirectories(p), Promote(p)
  PROVE  /\ OwnDirectories(p)' /\ Return(p, "synced")
         /\ live[Dir(p)] = None /\ Dir(p) \in Directory
         /\ live' = [live EXCEPT ![Dir(p)] = staging[p]]
<1>1. /\ TypeOK /\ backup[p] = None /\ backup' = backup
      /\ pc[p] = "promote" /\ live[Dir(p)] = None
      /\ Dir(p) \in Directory
  BY ManifestFacts DEF TInv, TypeOK, Locals, OwnDirectories, Promote, Staging, Dir
<1>2. Return(p, "synced") /\ live' = [live EXCEPT ![Dir(p)] = staging[p]]
  BY <1>1 DEF Promote
<1>3. pc'[p] \in {"idle", "fetchRelease"}
  BY <1>1, <1>2 DEF Return, Goto, TypeOK
<1>4. QED BY <1>1, <1>2, <1>3, NothingOwned

LEMMA EndOwn ==
  ASSUME TInv, NEW p \in Proc, OwnDirectories(p),
         Restore(p) \/ RmBackup(p) \/ RmStaging(p) \/ Fault(p)
  PROVE  OwnDirectories(p)' /\ live' = live /\ (Throw(p) \/ Catch(p))
<1>1. TypeOK /\ backup[p] = None /\ pc[p] \notin {"restore", "rmBackup"}
  BY DEF TInv, Locals, OwnDirectories
<1>2. /\ Throw(p) \/ Catch(p)
      /\ live' = live /\ backup'[p] = None
  BY <1>1 DEF Restore, RmBackup, RmStaging, Fault, FetchFails, ReadFails, WriteFails,
     PromoteFails, RestoreFails, RmFails, Crash, AbandonBackup, TypeOK, files
<1>3. QED BY <1>1, <1>2, Leaving, NothingOwned

\* What a step of the only run does to release directories: it adds one at most.
LEMMA StepOwn ==
  ASSUME OneRun, TInv, OwnInv, [Next]_vars
  PROVE  OwnInv' /\ \A d \in Directory : live[d] # None => live'[d] = live[d]
<1>1. CASE UNCHANGED << files, run >>
  <2>1. \A p \in Proc : Dir(p)' = Dir(p)
    BY <1>1 DEF run, Dir
  <2>2. QED BY <1>1, <2>1 DEF OwnInv, OwnDirectories, files, run, FilesComplete
<1>2. ASSUME NEW p \in Proc, Start(p) \/ RunStep(p) \/ Fault(p)
      PROVE  /\ OwnDirectories(p)'
             /\ \A d \in Directory : live[d] # None => live'[d] = live[d]
  <2>1. OwnDirectories(p) /\ TypeOK
    BY DEF OwnInv, TInv
  <2>2. CASE Promote(p)
    BY <2>1, <2>2, PromoteOwn DEF TypeOK
  <2>3. CASE ~ Promote(p)
    <3>1. OwnDirectories(p)' /\ live' = live
      BY <1>2, <2>1, <2>3, EarlyOwn, ValidateArtifactOwn, LstatOwn, DownloadArtifactOwn,
         WriteManifestOwn, MoveAsideOwn, EndOwn DEF RunStep
    <3>2. QED BY <3>1
  <2>4. QED BY <2>2, <2>3
<1>3. ASSUME NEW p \in Proc, OwnDirectories(p)'
      PROVE  OwnInv'
  BY <1>3 DEF OneRun, OwnInv
<1>4. QED BY <1>1, <1>2, <1>3 DEF Next, Republish, vars

LEMMA OwnInvInit == Init => OwnInv
BY DEF Init, OwnInv, OwnDirectories, Staging

LEMMA SpecOwnInv == ASSUME OneRun PROVE Spec => []OwnInv
<1>1. TInv /\ OwnInv /\ [Next]_vars => OwnInv'
  BY StepOwn
<1>2. QED BY <1>1, OwnInvInit, SpecTInv, PTL DEF Spec

\* While no two runs overlap, whatever state the directory was in and whatever
\* fails: no run renames, replaces or removes a release directory
\* (validateExistingRelease:340-385, replaceReleaseDirectory:302-333).
THEOREM LiveDirectoriesStay ==
  ASSUME OneRun PROVE Spec => LiveDirectoryUntouched
<1>1. TInv /\ OwnInv /\ [Next]_vars =>
        [\A d \in Directory : live[d] # None => live'[d] = live[d]]_vars
  BY StepOwn
<1>2. QED BY <1>1, SpecTInv, SpecOwnInv, PTL DEF Spec, LiveDirectoryUntouched

\* A run reports success of its current source only by returning.
LEMMA ReportsByReturn ==
  ASSUME TypeOK, NEW p \in Proc, Start(p) \/ RunStep(p) \/ Fault(p),
         NEW q \in Proc, NEW i \in SourceIndex,
         result[q][i] = "pending", result'[q][i] \in {"synced", "skipped"}
  PROVE  q = p /\ (Return(p, "synced") \/ Return(p, "skipped"))
<1>1. /\ ~ Throw(p) /\ result' # result
      /\ ~ Start(p)
  <2>1. ASSUME Throw(p) PROVE FALSE
    BY <2>1 DEF Throw, TypeOK
  <2>2. ASSUME Start(p) PROVE FALSE
    BY <2>2 DEF Start, TypeOK
  <2>3. QED BY <2>1, <2>2
<1>2. Return(p, "synced") \/ Return(p, "skipped")
  BY <1>1 DEF RunStep, Fault, FetchRelease, DownloadManifest, ReadManifest, ValidateArtifact,
     Lstat, DownloadArtifact, WriteManifest, MoveAside, Promote, Restore, RmBackup, RmStaging,
     FetchFails, ReadFails, WriteFails, PromoteFails, RestoreFails, RmFails, Crash, Catch
<1>3. QED BY <1>2 DEF Return, TypeOK

LEMMA ReportsTruly ==
  ASSUME OneRun, TInv, OwnInv, [Next]_vars, NEW p \in Proc, NEW i \in SourceIndex,
         result[p][i] = "pending", result'[p][i] \in {"synced", "skipped"}
  PROVE  InPlace(live'[Dir(p)], manifest[p], option[p])
<1>1. result'[p][i] # result[p][i]
  OBVIOUS
<1>2. PICK q \in Proc : Start(q) \/ RunStep(q) \/ Fault(q)
  BY <1>1 DEF Next, Republish, vars, run
<1>3. q = p
  BY DEF OneRun
<1>4. Return(p, "synced") \/ Return(p, "skipped")
  BY <1>2, <1>3, ReportsByReturn DEF TInv
<1>5. TypeOK /\ OwnDirectories(p)
  BY DEF TInv, OwnInv
<1>6. ~ Throw(p) /\ ~ Catch(p) /\ ~ Start(p)
  BY <1>1, <1>4, <1>5 DEF TypeOK, Return, Throw, Catch, Start, Goto
<1>7. ReadManifest(p) \/ ValidateArtifact(p) \/ Promote(p)
  <2>1. ~ Fault(p) /\ ~ Restore(p) /\ ~ RmBackup(p) /\ ~ RmStaging(p)
    BY <1>5, <1>6, EndOwn
  <2>2. QED BY <1>1, <1>2, <1>3, <1>6, <2>1
            DEF RunStep, FetchRelease, DownloadManifest, Lstat, DownloadArtifact,
                WriteManifest, MoveAside
<1>8. CASE ReadManifest(p)
  <2>1. /\ live[Dir(p)] # None /\ live[Dir(p)].manifest = manifest[p]
        /\ ~ option[p] /\ live' = live
    BY <1>1, <1>5, <1>6, <1>8 DEF ReadManifest, files, TInv, TypeOK, Locals, Accepting
  <2>2. QED BY <2>1 DEF InPlace
<1>9. CASE ValidateArtifact(p)
  <2>1. todo[p] = {} /\ live' = live /\ pc[p] = "validateArtifacts"
    BY <1>1, <1>6, <1>9 DEF ValidateArtifact, files
  <2>2. QED BY <1>5, <2>1 DEF OwnDirectories, InPlace, Complete
<1>10. CASE Promote(p)
  <2>1. /\ live'[Dir(p)] = staging[p] /\ staging[p] # None
        /\ staging[p].manifest = manifest[p]
        /\ option[p] => FilesComplete(manifest[p], staging[p].files)
    BY <1>5, <1>10, PromoteOwn
       DEF Promote, TInv, TypeOK, Locals, Staging, OwnDirectories
  <2>2. QED BY <2>1 DEF InPlace, Complete, FilesComplete
<1>11. QED BY <1>7, <1>8, <1>9, <1>10

\* While no two runs overlap, what a run reports as synced or skipped is in
\* place at that moment, whole if it downloads artifacts, even if the directory
\* was damaged before (syncSource:143-215, validateExistingRelease:340-404).
THEOREM ReportsAreTrue ==
  ASSUME OneRun PROVE Spec => SuccessIsInPlace
<1>1. TInv /\ OwnInv /\ [Next]_vars =>
        [\A p \in Proc, i \in SourceIndex :
           /\ result[p][i] = "pending"
           /\ result'[p][i] \in {"synced", "skipped"}
           => InPlace(live'[Dir(p)], manifest[p], option[p])]_vars
  BY ReportsTruly
<1>2. QED BY <1>1, SpecTInv, SpecOwnInv, PTL DEF Spec, SuccessIsInPlace

=============================================================================
