--------------------------- MODULE MCReleaseSync ---------------------------
(***************************************************************************)
(* Small instances of ReleaseSync for TLC.  Two sources, v1 and v2 of one  *)
(* repository.  The publisher has cut the releases m1 and m2 and has later *)
(* replaced the tag v1 by m1b; mx is a manifest that fails the identity    *)
(* checks.  m1 lists two artifacts, m1b changes the second of them, m2     *)
(* lists the second only.                                                  *)
(***************************************************************************)
EXTENDS ReleaseSync

CONSTANTS
  s1, s2, m1, m1b, m2, mx, a1, a2, b1, b2, b2b, d1, d2,
  Pinned,      \* the sources that carry a manifestSha256
  RemoteNames, \* which of the remote states below can occur
  Damaged      \* whether the live directories may be damaged initially

Requirement == [minimumLevel |-> 3, publicApi |-> "approved"]

MCSourceConfig ==
  [s \in Source |->
     IF s = s1
       THEN [repository |-> "r", tag |-> "v1", requiredReadiness |-> None,
             pin |-> IF s1 \in Pinned THEN m1 ELSE None]
       ELSE [repository |-> "r", tag |-> "v2", requiredReadiness |-> Requirement,
             pin |-> IF s2 \in Pinned THEN m2 ELSE None]]

Data(dir, version, status, level, x, y) ==
  [parses |-> TRUE, directory |-> dir, repository |-> "r", version |-> version,
   status |-> status,
   readiness |-> IF level = None THEN None
                 ELSE [level |-> level, publicApi |-> "approved"],
   digest |-> [a \in Artifact |-> IF a = a1 THEN x ELSE y]]

MCManifestData ==
  [m \in Manifest |->
     CASE m = m1  -> Data(d1, "v1", "released", None, b1, b2)
       [] m = m1b -> Data(d1, "v1", "released", None, b1, b2b)
       [] m = m2  -> Data(d2, "v2", "released", 3, None, b2)
       [] m = mx  -> Data(d2, "v2", "candidate", 4, None, b2)]

MCAssetOf == [a \in Artifact |-> a]

MCSizeOf == [b \in Bytes |-> IF b = b2b THEN 2 ELSE 1]

GitHubRelease(tag, m, x, y) ==
  [tag |-> tag, draft |-> FALSE, prerelease |-> FALSE, manifest |-> m,
   asset |-> [a \in Asset |-> IF a = a1 THEN x ELSE y]]

\* What can be behind a tag: a release as it was cut, the replaced tag, the
\* states in which only one of its assets has been replaced or uploaded, and
\* what the checks must refuse.
RemoteState ==
  [ good1     |-> GitHubRelease("v1", m1, b1, b2),
    replaced1 |-> GitHubRelease("v1", m1b, b1, b2b),
    torn1     |-> GitHubRelease("v1", m1, b1, b2b),
    bare1     |-> GitHubRelease("v1", None, b1, b2),
    partial1  |-> GitHubRelease("v1", m1, b1, None),
    draft1    |-> [GitHubRelease("v1", m1, b1, b2) EXCEPT !.draft = TRUE],
    good2     |-> GitHubRelease("v2", m2, None, b2),
    torn2     |-> GitHubRelease("v2", m2, None, b1),
    low2      |-> GitHubRelease("v2", mx, None, b2) ]

MCRemote == { RemoteState[n] : n \in RemoteNames }

Whole(m) == [manifest |-> m, files |-> ManifestData[m].digest]

MCInitialContents ==
  [d \in Directory |->
     IF Damaged /\ d = d1
       THEN { None, Whole(m1),
              [Whole(m1) EXCEPT !.manifest = None],
              [Whole(m1) EXCEPT !.files[a2] = None],
              [Whole(m1) EXCEPT !.files[a2] = b1] }
       ELSE { None } ]

OneThenTwo == << s1, s2 >>

OnlyOne == << s1 >>

=============================================================================
