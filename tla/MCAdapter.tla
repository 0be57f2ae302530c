----------------------------- MODULE MCAdapter -----------------------------
(* One chain of anchors with two messages: b in several anchors, the other one in two
   encodings (a1, a2), and bytes that are no message.                           *)
EXTENDS Adapter

CONSTANTS a1, a2, b, junk, A, B

MCDecode == [x \in {a1, a2, b, junk} |-> IF x = b THEN B ELSE IF x = junk THEN NoMessage ELSE A]

\* b is repeated at once, and again after Dedup rounds.
MCPayloads ==
  {[k \in Anchors |-> CASE k = 3 -> {b} [] k = 4 -> {b, a1} [] k = 5 -> {a2, junk}
                        [] k = 6 -> {b} [] OTHER -> {}]}

\* What follows a repetition is not explored.
Explored == seen \cap {"repeated", "overtaken"} = {}
=============================================================================
