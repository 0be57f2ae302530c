------------------------------ MODULE MCSession ------------------------------
(* Nodes a and b with weights 3 and 2 and a faulty validator e with weight 2.  Node a
   gets both candidates: with b it has the weight for x, with e for y.          *)
EXTENDS Session, FiniteSetsExt

CONSTANTS a, b, e, x, y

WeightOf == [n \in {a, b, e} |-> IF n = a THEN 3 ELSE 2]

MCWeight == [S \in SUBSET {a, b, e} |-> MapThenSumSet(LAMBDA n : WeightOf[n], S)]

MCProposals == [n \in {a, b} |-> IF n = a THEN {x, y} ELSE {x}]

MCFaultySigs == [n \in {a, b} |-> IF n = a THEN {<<y, 0>>} ELSE {}]

MCStart == <<1, 2>>
=============================================================================
