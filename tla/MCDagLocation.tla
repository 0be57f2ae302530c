--------------------------- MODULE MCDagLocation ---------------------------
(* Three versions of a point: enough for a first resolved one, a different first
   valid one and a latecomer.                                                  *)
EXTENDS DagLocation, TLC

VersionSymmetry == Permutations(Versions)
=============================================================================
