-------------------------- MODULE MCReleaseServing --------------------------
(***************************************************************************)
(* Small instances of ReleaseServing for TLC, over the manifests and       *)
(* releases of MCReleaseSync: v1 and v2 of one dataset.                    *)
(***************************************************************************)
EXTENDS ReleaseServing, MCReleaseSync, TLC

CONSTANTS
  x1, x2, x3, \* API processes
  Lockless,   \* processes without a lock
  Full,       \* processes whose lock names every source
  Pins,       \* the sources in the lock of the others
  Strict,     \* processes whose schemas reject b2
  Present     \* the manifests whose releases are in place initially

MCLock ==
  [a \in Api |-> CASE a \in Lockless -> {}
                   [] a \in Full -> Source
                   [] OTHER -> Pins]

MCAccepts == [a \in Api |-> IF a \in Strict THEN Bytes \ {b2} ELSE Bytes]

MCApiOf == [c \in Call |-> IF c = "second" THEN x2 ELSE x1]

MCDatasetOf == [m \in Manifest |-> "r"]

MCRankOf == [m \in Manifest |-> IF ManifestData[m].version = "v1" THEN 1 ELSE 2]

MCTimeOf == [m \in Manifest |-> IF m = m1b THEN 2 ELSE 1]

MCSlugOf == [d \in Directory |-> "r"]

\* Whether v1 and v2 are there already when the first run starts.
MCPresent ==
  [d \in Directory |->
     {None} \cup { Whole(m) : m \in { n \in Present : ManifestData[n].directory = d } }]

\* Processes do not meet but in the cache, which only x1 uses here.
OneProcess == \A a, b \in Api : boot[a] # "down" /\ boot[b] # "down" => a = b

\* Runs of the sync command are interchangeable.
Runs == Permutations(Proc)

=============================================================================
