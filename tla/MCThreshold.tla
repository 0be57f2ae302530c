----------------------------- MODULE MCThreshold -----------------------------
(* Four validators, F = 1: three points reach the threshold *)
EXTENDS Threshold, TLC

CONSTANTS v1, v2, v3, v4

MCAuthors == {v1, v2, v3, v4}
=============================================================================
