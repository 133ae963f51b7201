--------------------------- MODULE MCCombinators ---------------------------
(* Model-checking instance of Combinators: of the three values of an input *)
(* one is true, one false and one makes a function throw.                  *)
EXTENDS Combinators

MCBound  == [o \in Ops |-> IF o \in {"merge", "mult", "pub"} THEN 2 ELSE 3]
MCTruthy == Values \ {<<1, 2>>}
MCFails  == {<<1, 3>>, <<2, 2>>}
MCTopic  == [v \in Values |-> IF v[2] = 2 THEN 2 ELSE 1]
=============================================================================
