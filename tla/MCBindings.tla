----------------------------- MODULE MCBindings ------------------------------
(* A small instance of Bindings for TLC: two threads that share the root    *)
(* context bind and set two vars; one of them spawns a future, which makes  *)
(* a bound function and calls it.                                           *)
EXTENDS Bindings, TLC

CONSTANTS r1, r2, k1, k2, va, vb

FormsOf == r1 :> {<<va>>} @@ r2 :> {<<va, va>>, <<vb>>} @@ k1 :> {<<va, va, vb>>} @@ k2 :> {}
SnapshotsTaken == {<<r1, "spawn", k1>>, <<k1, "bound", None>>, <<k1, "call", k2>>}
Budget == r1 :> 2 @@ r2 :> 1 @@ k1 :> 1 @@ k2 :> 0
=============================================================================
