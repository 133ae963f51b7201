----------------------------- MODULE MCPromise ------------------------------
(* Two threads deliver, two deref.                                         *)
EXTENDS Promise

CONSTANTS w1, w2, r1, r2, a, b
=============================================================================
