---------------------------- MODULE ReleaseSync ----------------------------
(***************************************************************************)
(* GitHubReleaseSyncService: runs of the sync command (src/cli/            *)
(* sync-dataset-releases.ts), each a process, that download releases into  *)
(* staging directories and promote them into one shared releases           *)
(* directory.  Nothing locks that directory: every await of the service is *)
(* a point where another run, a crash or a failed call can intervene, so   *)
(* every awaited call that reads or writes shared state is an action.      *)
(*                                                                         *)
(* A manifest stands for the bytes of a release-manifest.json, and thereby *)
(* for their SHA-256; a member of Bytes for the contents of an artifact.   *)
(***************************************************************************)
EXTENDS Naturals, Sequences

CONSTANTS
  Proc,             \* runs of the sync command that may overlap
  Source,           \* configured release sources, owner/repository@tag
  SourceList,       \* the order syncSources takes them in
  SourceConfig,     \* what the configuration says of each source
  Manifest,         \* contents a release-manifest.json can have
  ManifestData,     \* what each of them says
  Artifact,         \* paths of JSON artifacts
  Asset,            \* names of release assets
  AssetOf,          \* the basename of an artifact's path
  Bytes,            \* contents an artifact can have
  SizeOf,           \* their sizes
  Directory,        \* release directories
  Remote,           \* states the publisher can leave a GitHub release in
  InitialContents,  \* what a release directory may hold before the first run
  DownloadOptions,  \* values of downloadArtifacts that runs are started with
  None              \* an absent file, directory or optional field

\* A directory as the service sees it.
Content == [manifest : Manifest \cup {None},
            files    : [Artifact -> Bytes \cup {None}]]

EmptyDirectory == [manifest |-> None, files |-> [a \in Artifact |-> None]]

SourceIndex == 1 .. Len(SourceList)

ASSUME ConfigAssumption ==
  /\ SourceList \in Seq(Source)
  /\ SourceList # << >>
  /\ DownloadOptions \in SUBSET BOOLEAN
  /\ AssetOf \in [Artifact -> Asset]

ASSUME DataAssumption ==
  /\ \A m \in Manifest :
       /\ ManifestData[m].directory \in Directory
       /\ ManifestData[m].digest \in [Artifact -> Bytes \cup {None}]
  /\ \A r \in Remote :
       /\ r.manifest \in Manifest \cup {None}
       /\ r.asset \in [Asset -> Bytes \cup {None}]
  /\ InitialContents \in [Directory -> SUBSET (Content \cup {None})]
  /\ None \notin Manifest \cup Bytes \cup Content \cup Remote

VARIABLES
  remote,    \* the GitHub release behind each source
  live,      \* the release directories, None where there is none
  staging,   \* each run's .<version>.sync-<uuid> directory
  backup,    \* each run's .<version>.backup-<uuid> directory
  orphan,    \* whole backups no run owns any more, by release directory
  debris,    \* release directories with other dot directories left behind
  pc,        \* the awaited call each run is about to make
  option,    \* its downloadArtifacts option
  at,        \* the index of the source it works on
  result,    \* what this run made of each source
  seen,      \* the GitHub release as fetchRelease read it
  manifest,  \* the manifest it downloaded and accepted
  todo       \* the artifacts a loop still has to visit

files == << live, staging, backup, orphan, debris >>
run == << pc, option, at, result, seen, manifest, todo >>
vars == << remote, files, run >>

Steps == { "idle", "fetchRelease", "downloadManifest", "readManifest",
           "validateArtifacts", "lstat", "downloadArtifacts", "writeManifest",
           "moveAside", "promote", "restore", "rmBackup", "rmStaging" }

Results == { "pending", "synced", "skipped", "failed" }

TypeOK ==
  /\ remote \in [Source -> Remote]
  /\ live \in [Directory -> Content \cup {None}]
  /\ staging \in [Proc -> Content \cup {None}]
  /\ backup \in [Proc -> Content \cup {None}]
  /\ orphan \in [Directory -> SUBSET Content]
  /\ debris \in SUBSET Directory
  /\ pc \in [Proc -> Steps]
  /\ option \in [Proc -> BOOLEAN]
  /\ at \in [Proc -> SourceIndex]
  /\ result \in [Proc -> [SourceIndex -> Results]]
  /\ seen \in [Proc -> Remote \cup {None}]
  /\ manifest \in [Proc -> Manifest \cup {None}]
  /\ todo \in [Proc -> SUBSET Artifact]

-----------------------------------------------------------------------------
(* The checks of the service.                                              *)

Src(p) == SourceList[at[p]]
DirOf(m) == ManifestData[m].directory
Digest(m) == ManifestData[m].digest
Dir(p) == DirOf(manifest[p])

\* The JSON artifacts a manifest lists.
Listed(m) == { a \in Artifact : Digest(m)[a] # None }

\* Mutation: the pin is not checked.
PinIgnored(s, m) == TRUE

\* manifestSha256, checked when the source has one.
PinMatches(s, m) == SourceConfig[s].pin \in {None, m}

\* assertReadiness.
ReadinessMet(s, m) ==
  LET required == SourceConfig[s].requiredReadiness
      declared == ManifestData[m].readiness
  IN  required # None =>
        /\ declared # None
        /\ required.minimumLevel # None =>
             declared.level >= required.minimumLevel
        /\ required.publicApi # None =>
             declared.publicApi = required.publicApi

\* The half of assertReleaseIdentity that is about the GitHub release.
ReleasePublished(s, release) ==
  /\ release.tag = SourceConfig[s].tag
  /\ ~ release.draft
  /\ ~ release.prerelease

\* The half that is about the manifest.
ManifestIdentified(s, m) ==
  /\ ManifestData[m].repository = SourceConfig[s].repository
  /\ ManifestData[m].version = SourceConfig[s].tag
  /\ ManifestData[m].status = "released"

\* Everything a source's configuration demands of a manifest.
Eligible(s, m) ==
  /\ PinMatches(s, m)
  /\ ManifestData[m].parses
  /\ ManifestIdentified(s, m)
  /\ ReadinessMet(s, m)

\* m is None when the asset has gone since the release was read.
Accepted(s, release, m) ==
  m \in Manifest /\ Eligible(s, m) /\ ReleasePublished(s, release)

\* Mutation: the checksum of the downloaded artifact is not checked.
OnlySizeAccepted(m, a, listedAsset, downloaded) ==
  /\ listedAsset # None
  /\ SizeOf[listedAsset] = SizeOf[Digest(m)[a]]
  /\ downloaded # None

\* What downloadArtifacts demands of an artifact: the size the release lists,
\* and the bytes the download then returns.
ArtifactAccepted(m, a, listedAsset, downloaded) ==
  /\ listedAsset # None
  /\ SizeOf[listedAsset] = SizeOf[Digest(m)[a]]
  /\ downloaded = Digest(m)[a]

-----------------------------------------------------------------------------
Init ==
  /\ remote \in [Source -> Remote]
  /\ live \in { c \in [Directory -> UNION { InitialContents[d] : d \in Directory }] :
                  \A d \in Directory : c[d] \in InitialContents[d] }
  /\ staging = [p \in Proc |-> None]
  /\ backup = [p \in Proc |-> None]
  /\ orphan = [d \in Directory |-> {}]
  /\ debris = {}
  /\ pc = [p \in Proc |-> "idle"]
  /\ option = [p \in Proc |-> FALSE]
  /\ at = [p \in Proc |-> 1]
  /\ result = [p \in Proc |-> [i \in SourceIndex |-> "pending"]]
  /\ seen = [p \in Proc |-> None]
  /\ manifest = [p \in Proc |-> None]
  /\ todo = [p \in Proc |-> {}]

Goto(p, step) == pc' = [pc EXCEPT ![p] = step]

\* The locals of syncSource go out of scope.
Forget(p) ==
  /\ seen' = [seen EXCEPT ![p] = None]
  /\ manifest' = [manifest EXCEPT ![p] = None]
  /\ todo' = [todo EXCEPT ![p] = {}]

\* Mutation: one source too many.
ReturnPastEnd(p, outcome) ==
  /\ result' = [result EXCEPT ![p][at[p]] = outcome]
  /\ IF at[p] <= Len(SourceList)
       THEN at' = [at EXCEPT ![p] = @ + 1] /\ Goto(p, "fetchRelease")
       ELSE UNCHANGED at /\ Goto(p, "idle")
  /\ Forget(p)

\* syncSource returns: syncSources goes on to the next source, if any.
Return(p, outcome) ==
  /\ result' = [result EXCEPT ![p][at[p]] = outcome]
  /\ IF at[p] < Len(SourceList)
       THEN at' = [at EXCEPT ![p] = @ + 1] /\ Goto(p, "fetchRelease")
       ELSE UNCHANGED at /\ Goto(p, "idle")
  /\ Forget(p)

\* syncSource throws: nothing in syncSources catches it, the run ends.
Throw(p) ==
  /\ result' = [result EXCEPT ![p][at[p]] = "failed"]
  /\ Goto(p, "idle")
  /\ Forget(p)
  /\ UNCHANGED at

\* An error inside the try of syncSource leads to its catch.
Catch(p) ==
  /\ Goto(p, "rmStaging")
  /\ UNCHANGED << at, result, seen, manifest, todo >>

-----------------------------------------------------------------------------
(* One run of the sync command.                                            *)

Start(p) ==
  /\ pc[p] = "idle"
  /\ Goto(p, "fetchRelease")
  /\ \E o \in DownloadOptions : option' = [option EXCEPT ![p] = o]
  /\ at' = [at EXCEPT ![p] = 1]
  /\ result' = [result EXCEPT ![p] = [i \in SourceIndex |-> "pending"]]
  /\ UNCHANGED << remote, files, seen, manifest, todo >>

\* fetchRelease, and getRequiredAsset for the manifest.
FetchRelease(p) ==
  /\ pc[p] = "fetchRelease"
  /\ \/ /\ remote[Src(p)].manifest # None
        /\ seen' = [seen EXCEPT ![p] = remote[Src(p)]]
        /\ Goto(p, "downloadManifest")
        /\ UNCHANGED << at, result, manifest, todo >>
     \/ /\ remote[Src(p)].manifest = None
        /\ Throw(p)
  /\ UNCHANGED << remote, option, files >>

\* downloadAsset of the manifest, and every check on what it returns.
DownloadManifest(p) ==
  /\ pc[p] = "downloadManifest"
  /\ LET m == remote[Src(p)].manifest
     IN  \/ /\ Accepted(Src(p), seen[p], m)
            /\ manifest' = [manifest EXCEPT ![p] = m]
            /\ Goto(p, "readManifest")
            /\ UNCHANGED << at, result, seen, todo >>
         \/ /\ ~ Accepted(Src(p), seen[p], m)
            /\ Throw(p)
  /\ UNCHANGED << remote, option, files >>

\* validateExistingRelease: readFile of the manifest in the live directory.
ReadManifest(p) ==
  /\ pc[p] = "readManifest"
  /\ LET existing == IF live[Dir(p)] = None THEN None ELSE live[Dir(p)].manifest
     IN  \/ /\ existing = None
            /\ Goto(p, "lstat")
            /\ UNCHANGED << at, result, seen, manifest, todo >>
         \/ /\ existing = manifest[p]
            /\ option[p]
            /\ Goto(p, "validateArtifacts")
            /\ todo' = [todo EXCEPT ![p] = Listed(manifest[p])]
            /\ UNCHANGED << at, result, seen, manifest >>
         \/ /\ existing = manifest[p]
            /\ ~ option[p]
            /\ Return(p, "skipped")
         \/ /\ existing \notin {None, manifest[p]}
            /\ Throw(p)
  /\ UNCHANGED << remote, option, files >>

\* Mutation: an existing artifact only has to exist.
ValidatePresence(p) ==
  /\ pc[p] = "validateArtifacts"
  /\ \/ /\ todo[p] = {}
        /\ Return(p, "skipped")
     \/ \E a \in todo[p] :
          /\ live[Dir(p)] # None
          /\ live[Dir(p)].files[a] # None
          /\ todo' = [todo EXCEPT ![p] = @ \ {a}]
          /\ UNCHANGED << pc, at, result, seen, manifest >>
  /\ UNCHANGED << remote, option, files >>

\* validateExistingArtifacts: readFile of one artifact, or the loop is over.
ValidateArtifact(p) ==
  /\ pc[p] = "validateArtifacts"
  /\ \/ /\ todo[p] = {}
        /\ Return(p, "skipped")
     \/ \E a \in todo[p] :
          LET found == IF live[Dir(p)] = None THEN None ELSE live[Dir(p)].files[a]
          IN  \/ /\ found = Digest(manifest[p])[a]
                 /\ todo' = [todo EXCEPT ![p] = @ \ {a}]
                 /\ UNCHANGED << pc, at, result, seen, manifest >>
              \/ /\ found # Digest(manifest[p])[a]
                 /\ Throw(p)
  /\ UNCHANGED << remote, option, files >>

\* Mutation: a directory without a manifest counts as absent.
LstatSkipped(p) ==
  /\ pc[p] = "lstat"
  /\ staging' = [staging EXCEPT ![p] = EmptyDirectory]
  /\ Goto(p, "downloadArtifacts")
  /\ todo' = [todo EXCEPT ![p] = Listed(manifest[p])]
  /\ UNCHANGED << remote, option, live, backup, orphan, debris,
                  at, result, seen, manifest >>

\* Mutation: the release directory itself is created before the downloads.
LstatCreating(p) ==
  /\ pc[p] = "lstat"
  /\ live[Dir(p)] = None
  /\ live' = [live EXCEPT ![Dir(p)] = EmptyDirectory]
  /\ staging' = [staging EXCEPT ![p] = EmptyDirectory]
  /\ Goto(p, "downloadArtifacts")
  /\ todo' = [todo EXCEPT ![p] = Listed(manifest[p])]
  /\ UNCHANGED << remote, option, backup, orphan, debris,
                  at, result, seen, manifest >>

\* validateExistingRelease: lstat tells an absent directory, which is staged
\* for, from one without a manifest, which is left for the operator.
Lstat(p) ==
  /\ pc[p] = "lstat"
  /\ \/ /\ live[Dir(p)] = None
        /\ staging' = [staging EXCEPT ![p] = EmptyDirectory]
        /\ Goto(p, "downloadArtifacts")
        /\ todo' = [todo EXCEPT ![p] = IF option[p]
                                         THEN Listed(manifest[p]) ELSE {}]
        /\ UNCHANGED << at, result, seen, manifest >>
     \/ /\ live[Dir(p)] # None
        /\ Throw(p)
        /\ UNCHANGED staging
  /\ UNCHANGED << remote, option, live, backup, orphan, debris >>

\* Mutation: an artifact that fails a check is left out.
DownloadTolerant(p) ==
  /\ pc[p] = "downloadArtifacts"
  /\ \/ /\ todo[p] = {}
        /\ Goto(p, "writeManifest")
        /\ UNCHANGED << staging, todo >>
     \/ \E a \in todo[p] :
          LET downloaded == remote[Src(p)].asset[AssetOf[a]]
          IN  /\ staging' =
                   IF ArtifactAccepted(manifest[p], a,
                        seen[p].asset[AssetOf[a]], downloaded)
                     THEN [staging EXCEPT ![p].files[a] = downloaded]
                     ELSE staging
              /\ todo' = [todo EXCEPT ![p] = @ \ {a}]
              /\ UNCHANGED pc
  /\ UNCHANGED << remote, option, live, backup, orphan, debris,
                  at, result, seen, manifest >>

\* downloadArtifacts: one artifact, or the loop is over.
DownloadArtifact(p) ==
  /\ pc[p] = "downloadArtifacts"
  /\ \/ /\ todo[p] = {}
        /\ Goto(p, "writeManifest")
        /\ UNCHANGED << staging, at, result, seen, manifest, todo >>
     \/ \E a \in todo[p] :
          LET downloaded == remote[Src(p)].asset[AssetOf[a]]
              accepted == ArtifactAccepted(manifest[p], a,
                            seen[p].asset[AssetOf[a]], downloaded)
          IN  \/ /\ accepted
                 /\ staging' = [staging EXCEPT ![p].files[a] = downloaded]
                 /\ todo' = [todo EXCEPT ![p] = @ \ {a}]
                 /\ UNCHANGED << pc, at, result, seen, manifest >>
              \/ /\ ~ accepted
                 /\ Catch(p)
                 /\ UNCHANGED staging
  /\ UNCHANGED << remote, option, live, backup, orphan, debris >>

\* The manifest is the last file written to the staging directory.
WriteManifest(p) ==
  /\ pc[p] = "writeManifest"
  /\ staging' = [staging EXCEPT ![p].manifest = manifest[p]]
  /\ Goto(p, "moveAside")
  /\ UNCHANGED << remote, option, live, backup, orphan, debris,
                  at, result, seen, manifest, todo >>

\* Mutation: the live directory is deleted to make room.
RemoveLive(p) ==
  /\ pc[p] = "moveAside"
  /\ live' = [live EXCEPT ![Dir(p)] = None]
  /\ Goto(p, "promote")
  /\ UNCHANGED << remote, option, staging, backup, orphan, debris,
                  at, result, seen, manifest, todo >>

\* replaceReleaseDirectory: rename(releaseDirectory, backupDirectory).
\* ENOENT is the normal case; hasBackup is backup[p] # None.
MoveAside(p) ==
  /\ pc[p] = "moveAside"
  /\ backup' = [backup EXCEPT ![p] = live[Dir(p)]]
  /\ live' = [live EXCEPT ![Dir(p)] = None]
  /\ Goto(p, "promote")
  /\ UNCHANGED << remote, option, staging, orphan, debris,
                  at, result, seen, manifest, todo >>

\* rename(stagingDirectory, releaseDirectory), which fails with ENOTEMPTY
\* when another run has promoted in the meantime.
Promote(p) ==
  /\ pc[p] = "promote"
  /\ \/ /\ live[Dir(p)] = None
        /\ live' = [live EXCEPT ![Dir(p)] = staging[p]]
        /\ staging' = [staging EXCEPT ![p] = None]
        /\ IF backup[p] # None
             THEN Goto(p, "rmBackup") /\ UNCHANGED << at, result, seen, manifest, todo >>
             ELSE Return(p, "synced")
     \/ /\ live[Dir(p)] # None
        /\ IF backup[p] # None
             THEN Goto(p, "restore") /\ UNCHANGED << at, result, seen, manifest, todo >>
             ELSE Catch(p)
        /\ UNCHANGED << live, staging >>
  /\ UNCHANGED << remote, option, backup, orphan, debris >>

\* The backup directory stays behind: no later run looks for it.
AbandonBackup(p) ==
  /\ orphan' = [orphan EXCEPT ![Dir(p)] = @ \cup {backup[p]}]
  /\ backup' = [backup EXCEPT ![p] = None]

\* Mutation: a failed promotion does not restore the old directory.
RestoreOmitted(p) ==
  /\ pc[p] = "restore"
  /\ AbandonBackup(p)
  /\ Catch(p)
  /\ UNCHANGED << remote, option, live, staging, debris >>

\* rename(backupDirectory, releaseDirectory) after a failed promotion.  The
\* error is rethrown in either case.
Restore(p) ==
  /\ pc[p] = "restore"
  /\ \/ /\ live[Dir(p)] = None
        /\ live' = [live EXCEPT ![Dir(p)] = backup[p]]
        /\ backup' = [backup EXCEPT ![p] = None]
        /\ UNCHANGED orphan
     \/ /\ live[Dir(p)] # None
        /\ AbandonBackup(p)
        /\ UNCHANGED live
  /\ Catch(p)
  /\ UNCHANGED << remote, option, staging, debris >>

\* rm(backupDirectory) after the promotion.
RmBackup(p) ==
  /\ pc[p] = "rmBackup"
  /\ backup' = [backup EXCEPT ![p] = None]
  /\ Return(p, "synced")
  /\ UNCHANGED << remote, option, live, staging, orphan, debris >>

\* The catch of syncSource: rm(stagingDirectory), which force makes a no-op
\* when it is gone, and the error is rethrown.
RmStaging(p) ==
  /\ pc[p] = "rmStaging"
  /\ staging' = [staging EXCEPT ![p] = None]
  /\ Throw(p)
  /\ UNCHANGED << remote, option, live, backup, orphan, debris >>

RunStep(p) ==
  \/ FetchRelease(p) \/ DownloadManifest(p)
  \/ ReadManifest(p) \/ ValidateArtifact(p) \/ Lstat(p)
  \/ DownloadArtifact(p) \/ WriteManifest(p)
  \/ MoveAside(p) \/ Promote(p) \/ Restore(p) \/ RmBackup(p) \/ RmStaging(p)

-----------------------------------------------------------------------------
(* What can go wrong.                                                      *)

\* A fetch that fetchWithRetry gives up on, or a reply that does not parse.
FetchFails(p) ==
  /\ \/ pc[p] \in {"fetchRelease", "downloadManifest"} /\ Throw(p)
     \/ pc[p] = "downloadArtifacts" /\ todo[p] # {} /\ Catch(p)
  /\ UNCHANGED << remote, option, files >>

\* A file system call before the try of syncSource, or in its try, fails.
ReadFails(p) ==
  /\ pc[p] \in {"readManifest", "validateArtifacts", "lstat"}
  /\ Throw(p)
  /\ UNCHANGED << remote, option, files >>

WriteFails(p) ==
  /\ \/ pc[p] \in {"writeManifest", "moveAside"}
     \/ pc[p] = "downloadArtifacts" /\ todo[p] # {}
     \/ pc[p] = "promote" /\ backup[p] = None
  /\ Catch(p)
  /\ UNCHANGED << remote, option, files >>

PromoteFails(p) ==
  /\ pc[p] = "promote"
  /\ backup[p] # None
  /\ Goto(p, "restore")
  /\ UNCHANGED << remote, option, files, at, result, seen, manifest, todo >>

RestoreFails(p) ==
  /\ pc[p] = "restore"
  /\ AbandonBackup(p)
  /\ Catch(p)
  /\ UNCHANGED << remote, option, live, staging, debris >>

\* A recursive rm fails, perhaps after deleting some of the directory.
RmFails(p) ==
  /\ \/ /\ pc[p] = "rmBackup"
        /\ debris' = debris \cup {Dir(p)}
        /\ backup' = [backup EXCEPT ![p] = None]
        /\ Catch(p)
        /\ UNCHANGED staging
     \/ /\ pc[p] = "rmStaging"
        /\ staging[p] # None
        /\ debris' = debris \cup {Dir(p)}
        /\ staging' = [staging EXCEPT ![p] = None]
        /\ Throw(p)
        /\ UNCHANGED backup
  /\ UNCHANGED << remote, option, live, orphan >>

\* The process dies: its dot directories stay, its locals are lost.
Crash(p) ==
  /\ pc[p] # "idle"
  /\ IF pc[p] \in {"promote", "restore"} /\ backup[p] # None
       THEN AbandonBackup(p)
       ELSE /\ backup' = [backup EXCEPT ![p] = None]
            /\ UNCHANGED orphan
  /\ staging' = [staging EXCEPT ![p] = None]
  /\ debris' = IF staging[p] # None \/ pc[p] = "rmBackup"
                 THEN debris \cup {Dir(p)} ELSE debris
  /\ Throw(p)
  /\ UNCHANGED << remote, option, live >>

Fault(p) ==
  \/ FetchFails(p) \/ ReadFails(p) \/ WriteFails(p)
  \/ PromoteFails(p) \/ RestoreFails(p) \/ RmFails(p) \/ Crash(p)

\* The publisher edits the GitHub release: tags are mutable, and assets are
\* replaced one at a time.
Republish(s) ==
  /\ \E r \in Remote : remote' = [remote EXCEPT ![s] = r]
  /\ UNCHANGED << files, run >>

-----------------------------------------------------------------------------
Next ==
  \/ \E p \in Proc : Start(p) \/ RunStep(p) \/ Fault(p)
  \/ \E s \in Source : Republish(s)

Spec == Init /\ [][Next]_vars

\* The event loop runs every continuation, and every awaited call settles:
\* fetches have a timeout, their retries a bound.
FairSpec == Spec /\ \A p \in Proc : WF_vars(RunStep(p))

-----------------------------------------------------------------------------
(* Correctness.                                                            *)

\* A directory whose every file the configuration vouches for: its manifest
\* is one some source demands, and its artifacts are those that one declares.
Trusted(d, c) ==
  /\ c.manifest \in Manifest
  /\ DirOf(c.manifest) = d
  /\ \E s \in Source : Eligible(s, c.manifest)
  /\ \A a \in Artifact : c.files[a] \in {None, Digest(c.manifest)[a]}

Complete(c) ==
  \A a \in Listed(c.manifest) : c.files[a] = Digest(c.manifest)[a]

\* Nothing unverified is ever visible under a release directory's name,
\* whatever the publisher does to the release while a run downloads it,
\* however runs overlap and wherever they fail (syncSource:143-215).
LiveTrusted ==
  \A d \in Directory : live[d] # None => Trusted(d, live[d])

\* When every run downloads artifacts, no reader of the releases directory
\* ever finds a release with some of its JSON artifacts missing: "written only
\* after all selected artifacts verify" (docs/dataset-loading.md:161-162).
LiveComplete ==
  (DownloadOptions = {TRUE}) =>
     \A d \in Directory : live[d] # None => Complete(live[d])

\* The runs that hold the only copy of a release between the two renames of
\* replaceReleaseDirectory.
Swapping(p) == pc[p] \in {"promote", "restore"} /\ backup[p] # None

\* The whole copies the file system holds of a release directory: live, moved
\* aside by a run that may still restore it, or left by one that died; and the
\* manifests in them.
Copies(d) ==
  ({ live[d] } \ {None}) \cup orphan[d] \cup
  { backup[p] : p \in { q \in Proc : Swapping(q) /\ Dir(q) = d } }

Held(d) == { c.manifest : c \in Copies(d) }

\* Once promoted, a release is never lost: at every instant a whole copy of
\* it, or of what took its place, is on disk.
NoReleaseLost == [][\A d \in Directory : Held(d) # {} => Held(d)' # {}]_vars

\* "An already-synced tag is immutable" (docs/release-manifest.md:238): the
\* manifest held for a directory never changes again, not even by way of the
\* gap in which it has none.
TagImmutable == [][\A d \in Directory : Held(d) # {} => Held(d)' = Held(d)]_vars

\* "A repeated sync with the same manifest verifies the existing JSON
\* artifacts in place and does not rename or replace the live release
\* directory" (docs/release-manifest.md:238-240).
LiveDirectoryUntouched ==
  [][\A d \in Directory : live[d] # None => live'[d] = live[d]]_vars

\* What the command reports as synced or skipped is in place when it says so:
\* the manifest it accepted and, if it downloads artifacts, all of them.
InPlace(c, m, withArtifacts) ==
  /\ c # None
  /\ c.manifest = m
  /\ withArtifacts => Complete(c)

SuccessIsInPlace ==
  [][\A p \in Proc, i \in SourceIndex :
       /\ result[p][i] = "pending"
       /\ result'[p][i] \in {"synced", "skipped"}
       => InPlace(live'[Dir(p)], manifest[p], option[p])]_vars

\* The releases directory implements a store in which a directory is written
\* once, with a manifest allowed there, and keeps it: the copy in a run's
\* backup counts, so a swap is not a change.
Allowed ==
  [d \in Directory |->
     { m \in Manifest : DirOf(m) = d /\ \E s \in Source : Eligible(s, m) }]

Store == INSTANCE WriteOnceStore
           WITH store <- [d \in Directory |-> Held(d)]

ImplementsStore == Store!Spec

-----------------------------------------------------------------------------
(* Behaviours with fewer failures.                                         *)

CalmNext == \E p \in Proc : Start(p) \/ RunStep(p)

\* Calls fail, but no process dies and no restoring rename fails.
AliveNext ==
  \/ CalmNext
  \/ \E s \in Source : Republish(s)
  \/ \E p \in Proc : \/ FetchFails(p) \/ ReadFails(p) \/ WriteFails(p)
                     \/ PromoteFails(p) \/ RmFails(p)

AliveSpec == Init /\ [][AliveNext]_vars

CalmSpec == Init /\ [][CalmNext]_vars /\ \A p \in Proc : WF_vars(RunStep(p))

\* A release is missing only while a run is between its two renames: a failed
\* promotion puts the old directory back, and overlapping runs leave a backup
\* behind only because another copy took its place
\* (replaceReleaseDirectory:320-328).
QuietAvailable ==
  \A d \in Directory :
     Held(d) # {} /\ live[d] = None =>
        \E p \in Proc : Swapping(p) /\ Dir(p) = d

\* The publisher has left the release of every source as its pin demands.
RemoteGood ==
  \A s \in Source :
     LET r == remote[s]
     IN  /\ r.manifest # None
         /\ Accepted(s, r, r.manifest)
         /\ \A a \in Listed(r.manifest) :
              r.asset[AssetOf[a]] = Digest(r.manifest)[a]

\* Every source's release is in place.
AllInPlace ==
  \A s \in Source :
     \E m \in Manifest : /\ Eligible(s, m)
                         /\ live[DirOf(m)] # None
                         /\ live[DirOf(m)].manifest = m

\* No release directory is damaged: what is there is whole and allowed there.
Undamaged ==
  \A d \in Directory :
     live[d] # None => /\ live[d].manifest \in Allowed[d]
                       /\ Complete(live[d])

\* No tag has been moved away from the release that is in place.  (A live
\* directory without a manifest would be debris, not an older release.)
NotMoved ==
  \A s \in Source :
     LET m == remote[s].manifest
     IN  m # None /\ live[DirOf(m)] # None
           => live[DirOf(m)].manifest \in {None, m}

\* Whatever earlier runs left behind when they failed or crashed, if failures
\* stop, the publisher leaves the releases in order and the command is run
\* again and again, artifacts included, then it puts every release in place:
\* no debris of an interrupted run makes a later one fail for ever.  Only a
\* directory that was damaged before the first run, or whose tag has moved
\* since, is refused every time.
Recovers ==
  (/\ Undamaged
   /\ [](\A p \in Proc : pc[p] # "idle" => option[p])
   /\ <>[][CalmNext]_vars
   /\ <>[](RemoteGood /\ NotMoved)
   /\ \A p \in Proc : []<>(pc[p] # "idle"))
  => <>[]AllInPlace

=============================================================================
