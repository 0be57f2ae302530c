----------------------------- MODULE MCDownload -----------------------------
(* The author and another peer follow the protocol, the third one does not.  Of the
   tasks around, one is for an older round and one for a newer round.           *)
EXTENDS Downloads, TLC

CONSTANTS a, b, c, me, older, newer

Rounds == (older :> 1) @@ (me :> 2) @@ (newer :> 3)
=============================================================================
