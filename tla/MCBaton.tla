------------------------------ MODULE MCBaton ------------------------------
(* Model-checking instances of Baton.                                      *)
EXTENDS Baton, TLC

CONSTANTS w1, w2, w3

Symmetry == Permutations(Workers)
=============================================================================
