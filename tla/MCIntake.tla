------------------------------ MODULE MCIntake ------------------------------
(* Two peers make a reliable minority (F = 1) two rounds ahead, so that the  *)
(* engine may jump over a point below; a point above may come before them.   *)
(* The author of the first one, which is ill-formed, goes on asking for it.  *)
EXTENDS Intake

CONSTANTS a, b, h1, h2

Below == [author |-> b, round |-> 4]
Broadcasts == {Below, [author |-> a, round |-> 5], [author |-> b, round |-> 5],
               [author |-> b, round |-> 6]}
OnlyBelow == {Below}
TwoHandlers == {h1, h2}
=============================================================================
