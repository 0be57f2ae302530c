------------------------------- MODULE MCCert -------------------------------
(* Cells of three points in consecutive rounds: z @ r+2 includes y @ r+1 and
   witnesses x @ r, and y includes x.  The deliveries of z and of y are proven,
   so that traversals started at z and at y meet at y and at x, and x is reached
   both as an include and as a witness.                                       *)
EXTENDS Cert, TLC

CONSTANTS x, y, z

MCIncludes == (x :> {}) @@ (y :> {x}) @@ (z :> {y})
MCWitness  == (x :> {}) @@ (y :> {}) @@ (z :> {x})
MCRoots    == {y, z}
=============================================================================
