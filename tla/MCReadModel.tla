---------------------------- MODULE MCReadModel ----------------------------
(***************************************************************************)
(* Small instances of ReadModel for TLC.  Two releases of geography, r1    *)
(* with one build or with two, r2 with one; a list and a detail endpoint,  *)
(* over the first and the last of two tables.                              *)
(***************************************************************************)
EXTENDS ReadModel

CONSTANTS
  i1, i2, p1, p2, r1, r2, b1, b1x, b2, list, detail,
  NoPin,      \* the requests of processes without a geography release
  OfSecond    \* the requests of processes pinned to r2

MCReleaseOf == [b \in Build |-> IF b = b2 THEN r2 ELSE r1]

MCStampOf == [b \in Build |-> IF b = b1x THEN 2 ELSE 1]

MCTables == << "governorates", "localities" >>

MCTableOf == [q \in Query |-> IF q = list THEN 1 ELSE 2]

MCLocal ==
  [p \in Request |->
     IF p \in NoPin THEN None ELSE IF p \in OfSecond THEN b2 ELSE b1]

\* One Redis.
MCStoreOf == [x \in Request \cup Importer |-> "redis"]

=============================================================================
