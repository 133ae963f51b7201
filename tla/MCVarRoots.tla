----------------------------- MODULE MCVarRoots ------------------------------
(* Small instances of VarRoots for TLC.                                    *)
EXTENDS VarRoots, TLC

CONSTANTS t1, t2, a, b

Both == {<<a, b>>}
Symmetry == Permutations(Threads)
=============================================================================
