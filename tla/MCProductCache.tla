--------------------------- MODULE MCProductCache ---------------------------
(* Three requests, two of them with the lock where there is one, and two   *)
(* writers.                                                                *)
EXTENDS ProductCache, TLC

CONSTANTS r1, r2, r3, w1, w2
============================================================================
