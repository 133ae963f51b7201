------------------------------ MODULE MCScope -------------------------------
(* A small instance of Scope for TLC: a root, a child and a grandchild.    *)
EXTENDS Scope

CONSTANTS root, outer, inner, t1, b1, b2

MCParent == [s \in Scopes \ {Root} |-> IF s = inner THEN outer ELSE Root]
MCUp == [s \in Scopes |-> CASE s = Root -> {Root}
                             [] s = inner -> {inner, outer, Root}
                             [] OTHER -> {s, Root}]
=============================================================================
