------------------------------ MODULE DynScope -------------------------------
(***************************************************************************)
(* What a child execution context promises: a stack of values for every    *)
(* var, its own, which starts as a copy of its spawner's and which nobody  *)
(* else reads or changes.  A spawner in the root context conveys what it   *)
(* saw of the shared bindings.                                             *)
(***************************************************************************)
EXTENDS Integers, Sequences

CONSTANTS Contexts, Vars, Values, None

VARIABLES
    scope,       \* context -> var -> its values, or None
    creator,     \* context -> the context or thread that created it
    captured     \* the bindings a bound-fn closed over, or None

Scopes == [Vars -> Seq(Values)]

Init ==
    /\ scope = [c \in Contexts |-> None]
    /\ creator = [c \in Contexts |-> None]
    /\ captured = None

\* What happens to c happens to no other context.
Only(c) ==
    /\ scope'[c] # scope[c]
    /\ \A d \in Contexts \ {c} : scope'[d] = scope[d] /\ creator'[d] = creator[d]
    /\ UNCHANGED captured

Bind(c, v) ==
    \E x \in Values : scope'[c] = [scope[c] EXCEPT ![v] = Append(@, x)]

Unbind(c, v) ==
    /\ scope[c][v] # <<>>
    /\ scope'[c] = [scope[c] EXCEPT ![v] = SubSeq(@, 1, Len(@) - 1)]

Assign(c, v) ==
    /\ scope[c][v] # <<>>
    /\ \E x \in Values : scope'[c] = [scope[c] EXCEPT ![v][Len(scope[c][v])] = x]

\* A context is created by another one, or by a spawner in the root context;
\* calling a bound-fn lays the captured bindings over it.
Over(m) == [v \in Vars |-> m[v] \o captured[v]]

Fork(b, c) ==
    /\ creator'[c] = b /\ scope[b] # None
    /\ \/ scope'[c] = scope[b]
       \/ captured # None /\ scope'[c] = Over(scope[b])

FromRoot(c) == creator'[c] \notin Contexts /\ scope'[c] \in Scopes

Evolve(c) ==
    /\ Only(c)
    /\ \/ /\ scope[c] # None /\ creator'[c] = creator[c]
          /\ \E v \in Vars : Bind(c, v) \/ Unbind(c, v) \/ Assign(c, v)
       \/ /\ scope[c] = None
          /\ FromRoot(c) \/ \E b \in Contexts : Fork(b, c)

\* bound-fn* closes over what its caller sees.
Capture ==
    /\ captured' # captured
    /\ captured' \in Scopes \union {None}
    /\ UNCHANGED <<scope, creator>>

Next == (\E c \in Contexts : Evolve(c)) \/ Capture

Spec == Init /\ [][Next]_<<scope, creator, captured>>
=============================================================================
