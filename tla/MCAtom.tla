------------------------------- MODULE MCAtom -------------------------------
(* Two threads on an atom with the values 0, 1 and 2, of which the         *)
(* validator rejects 2.                                                    *)
EXTENDS Atom

CONSTANTS t1, t2, k1

\* Rejected at 1; reset! and compare-and-set! bring 0 back.
Grow == [v \in 0..2 |-> IF v < 2 THEN v + 1 ELSE 2]
MCFns == {Grow}
=============================================================================
