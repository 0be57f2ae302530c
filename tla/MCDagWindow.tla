---------------------------- MODULE MCDagWindow ----------------------------
(* Bounds for TLC: rounds up to MaxRound.                                      *)
EXTENDS DagWindow
=============================================================================
