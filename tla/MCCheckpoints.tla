--------------------------- MODULE MCCheckpoints ---------------------------
(* Small instances of Checkpoints for TLC.                                 *)
EXTENDS Checkpoints, TLC
CONSTANTS w1, w2, c1, c2, q1, v0, v1
============================================================================
