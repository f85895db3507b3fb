--------------------------- MODULE WriteOnceStore ---------------------------
(***************************************************************************)
(* What docs/release-manifest.md promises of the releases directory: a     *)
(* release directory receives at most one manifest, one the configuration  *)
(* allows there, and neither loses nor exchanges it.  ReleaseSync is shown *)
(* to implement this specification.                                        *)
(***************************************************************************)
CONSTANTS
  Directory,   \* release directories, <releasesDirectory>/<slug>/<version>
  Manifest,    \* contents of release-manifest.json
  Allowed      \* [Directory -> SUBSET Manifest]: what may be published where

VARIABLE store \* [Directory -> SUBSET Manifest]: the manifests held for each

-----------------------------------------------------------------------------

Init == store \in [Directory -> {{}} \cup {{m} : m \in Manifest}]

Publish(d, m) ==
  /\ store[d] = {}
  /\ m \in Allowed[d]
  /\ store' = [store EXCEPT ![d] = {m}]

Next == \E d \in Directory, m \in Manifest : Publish(d, m)

Spec == Init /\ [][Next]_store

=============================================================================
