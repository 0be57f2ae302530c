---------------------------- MODULE MCRoundTask ----------------------------
(* A node and two peers: F = 1, both have to sign, and one of them may be  *)
(* lost and come back.                                                     *)
EXTENDS RoundTask
CONSTANTS me, p1, p2

Validators == {me, p1, p2}
OneFlaky == {p1}
=============================================================================
