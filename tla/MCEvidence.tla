----------------------------- MODULE MCEvidence -----------------------------
(* The author and the others: the author may be faulty or not.                 *)
EXTENDS Evidence, TLC

PeerSymmetry == Permutations(Peers \ {Author}) \cup Permutations(Versions)
=============================================================================
