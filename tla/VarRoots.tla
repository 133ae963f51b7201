------------------------------ MODULE VarRoots -------------------------------
(***************************************************************************)
(* The roots of guarded vars (pkg/vm/var.go): set!, def and the reapplied  *)
(* primitives (SetRoot), alter-var-root, with-redefs (pkg/rt/core/core.lg) *)
(* and the deviation counter by which lowered code decides whether a baked *)
(* direct call to a native primitive may be taken.                         *)
(*                                                                         *)
(* The root pointer, the flag and the counter are three atomics: storing a *)
(* root, swapping the flag and adding to the counter are separate steps.   *)
(* Programs store constants: what alter-var-root's function makes of the   *)
(* old root is not told apart.  Dynamic bindings matter here as what       *)
(* var-get reads; Bindings models them.                                    *)
(***************************************************************************)
EXTENDS Integers, Sequences, FiniteSets

CONSTANTS
    Threads,
    Vars,          \* guarded vars
    Redefs,        \* the vectors of vars the with-redefs forms name
    Watchable,     \* the vars a watch may be added to
    Bindable,      \* the vars a `binding` form may bind
    MaxDepth,      \* bound: nested with-redefs and binding forms
    MaxOps         \* bound: operations a thread starts

ASSUME VarRootsConstants ==
    /\ IsFiniteSet(Vars) /\ IsFiniteSet(Threads)
    /\ Redefs \subseteq Seq(Vars) \ {<<>>}
    /\ \A vs \in Redefs : \A i, j \in 1..Len(vs) : vs[i] = vs[j] => i = j
    /\ Watchable \subseteq Vars /\ Bindable \subseteq Vars
    /\ MaxDepth \in Nat /\ MaxOps \in Nat

\* The adapter GuardRoot recorded, and what a form of a thread puts in place.
Canon == <<>>
Values == {Canon} \union (Threads \X (0..MaxDepth))

VARIABLES
    root,         \* var -> Var.root
    flag,         \* var -> Var.guardDeviated
    deviations,   \* guardedRootDeviations
    chain,        \* var -> Var.rootBind, innermost last
    watched,      \* the vars with a watch
    pc,           \* thread -> where it is
    kind,         \* thread -> the operation the roots are stored for
    todo,         \* thread -> the stores still to make, <<var, value>>
    ops,          \* thread -> the operations it started
    frames,       \* thread -> its open with-redefs and binding forms
    base,         \* history: var -> the root set outside any with-redefs
    contended,    \* history: vars two threads worked on at a time
    dirty         \* history: vars captured while bound, or left by an error

varVars  == <<root, flag, deviations, watched>>
history  == <<base, contended, dirty>>
vars == <<varVars, chain, pc, kind, todo, ops, frames, history>>

PCs   == {"run", "capture", "store", "swap", "add", "notify"}
Kinds == {"none", "set", "alter", "enter", "leave"}
Frames == [form : {"redefs"}, vs : Redefs, vals : Seq(Values)]
            \union [form : {"binding"}, vs : {<<v>> : v \in Vars}, vals : {<<>>}]

Elems(s) == {s[i] : i \in 1..Len(s)}
Top(t) == frames[t][Len(frames[t])]
Outer(t) == SubSeq(frames[t], 1, Len(frames[t]) - 1)

\* The vars inside a with-redefs of t, those t stores to, and both.
Redefined(t) ==
    {v \in Vars : \E i \in 1..Len(frames[t]) :
                     frames[t][i].form = "redefs" /\ v \in Elems(frames[t][i].vs)}
Pending(t) == {todo[t][i][1] : i \in 1..Len(todo[t])}
Holds(t) == Redefined(t) \union Pending(t)
Contends(t, vs) == Elems(vs) \intersect UNION {Holds(u) : u \in Threads \ {t}}

Init ==
    /\ root = [v \in Vars |-> Canon]
    /\ flag = [v \in Vars |-> FALSE]
    /\ deviations = 0
    /\ chain = [v \in Vars |-> <<>>]
    /\ watched = {}
    /\ pc = [t \in Threads |-> "run"]
    /\ kind = [t \in Threads |-> "none"]
    /\ todo = [t \in Threads |-> <<>>]
    /\ ops = [t \in Threads |-> 0]
    /\ frames = [t \in Threads |-> <<>>]
    /\ base = [v \in Vars |-> Canon]
    /\ contended = {}
    /\ dirty = {}

-----------------------------------------------------------------------------
\* Var.Deref, which var-get calls: the head of the root binding chain or the root.
Deref(v) == IF chain[v] # <<>> THEN chain[v][Len(chain[v])] ELSE root[v]

\* GuardedRootsIntact, behind NativePrimsIntact.
GuardedRootsIntact == deviations = 0

MutNoCanonReset(t) ==
    LET v == Head(todo[t])[1]
        deviates == Head(todo[t])[2] # Canon
    IN  /\ pc[t] = "swap"
        /\ flag' = [flag EXCEPT ![v] = @ \/ deviates]
        /\ pc' = [pc EXCEPT ![t] = IF deviates /\ ~flag[v] THEN "add" ELSE "notify"]
        /\ UNCHANGED <<root, deviations, watched, chain, kind, todo, ops, frames, history>>

\* The stores an operation makes, one after the other (SetRoot, AlterRootArgs).
Begin(t, k, pairs) ==
    /\ pc' = [pc EXCEPT ![t] = "store"]
    /\ kind' = [kind EXCEPT ![t] = k]
    /\ todo' = [todo EXCEPT ![t] = pairs]

\* An operation of t starts: the bound on them.
Starts(t) ==
    /\ pc[t] = "run"
    /\ ops[t] < MaxOps
    /\ ops' = [ops EXCEPT ![t] = @ + 1]

SetOrAlter(t, v) ==
    /\ Starts(t)
    /\ \E k \in {"set", "alter"}, x \in {Canon, <<t, Len(frames[t])>>} :
            Begin(t, k, <<<<v, x>>>>)
    /\ contended' = contended \union Contends(t, <<v>>)
    /\ UNCHANGED <<varVars, chain, frames, base, dirty>>

Store(t) ==
    LET v == Head(todo[t])[1]
        x == Head(todo[t])[2]
    IN  /\ pc[t] = "store"
        /\ root' = [root EXCEPT ![v] = x]
        /\ base' = IF kind[t] \in {"set", "alter"} /\ v \notin Redefined(t)
                   THEN [base EXCEPT ![v] = x] ELSE base
        /\ pc' = [pc EXCEPT ![t] = "swap"]
        /\ UNCHANGED <<flag, deviations, watched, chain, kind, todo, ops, frames,
                       contended, dirty>>

\* updateGuard: Swap of the flag, and Add to the counter if the swap changed it.
SwapFlag(t) ==
    LET v == Head(todo[t])[1]
        deviates == Head(todo[t])[2] # Canon
    IN  /\ pc[t] = "swap"
        /\ flag' = [flag EXCEPT ![v] = deviates]
        /\ pc' = [pc EXCEPT ![t] = IF flag[v] # deviates THEN "add" ELSE "notify"]
        /\ UNCHANGED <<root, deviations, watched, chain, kind, todo, ops, frames, history>>

AddDeviation(t) ==
    /\ pc[t] = "add"
    /\ deviations' = deviations + IF Head(todo[t])[2] # Canon THEN 1 ELSE -1
    /\ pc' = [pc EXCEPT ![t] = "notify"]
    /\ UNCHANGED <<root, flag, watched, chain, kind, todo, ops, frames, history>>

\* The store is complete and its watch, if any, has returned: the next one.
Stored(t) ==
    /\ pc[t] = "notify"
    /\ todo' = [todo EXCEPT ![t] = Tail(@)]
    /\ pc' = [pc EXCEPT ![t] = IF Len(todo[t]) > 1 THEN "store" ELSE "run"]
    /\ frames' = IF Len(todo[t]) = 1 /\ kind[t] = "leave"
                 THEN [frames EXCEPT ![t] = Outer(t)] ELSE frames
    /\ kind' = [kind EXCEPT ![t] = IF Len(todo[t]) > 1 THEN @ ELSE "none"]
    /\ UNCHANGED <<varVars, chain, ops, history>>

\* notifyWatches returns an error: alter-var-root throws, and a with-redefs ends.
WatchThrows(t) ==
    /\ pc[t] = "notify"
    /\ kind[t] # "set" /\ Head(todo[t])[1] \in watched
    /\ todo' = [todo EXCEPT ![t] = <<>>]
    /\ pc' = [pc EXCEPT ![t] = "run"]
    /\ IF kind[t] = "alter"
       THEN UNCHANGED <<frames, dirty>>
       ELSE /\ frames' = [frames EXCEPT ![t] = Outer(t)]
            /\ dirty' = dirty \union Elems(Top(t).vs)
    /\ kind' = [kind EXCEPT ![t] = "none"]
    /\ UNCHANGED <<varVars, chain, ops, base, contended>>

-----------------------------------------------------------------------------
\* with-redefs-fn: (mapv var-get vars), then the stores of the temporary roots.
WithRedefs(t, vs) ==
    /\ Starts(t)
    /\ Len(frames[t]) < MaxDepth
    /\ frames' = [frames EXCEPT ![t] = Append(@, [form |-> "redefs", vs |-> vs, vals |-> <<>>])]
    /\ pc' = [pc EXCEPT ![t] = "capture"]
    /\ contended' = contended \union Contends(t, vs)
    /\ UNCHANGED <<varVars, chain, kind, todo, base, dirty>>

MutLazyCapture(t) ==
    LET f == Top(t)
    IN  /\ pc[t] = "capture"
        /\ Begin(t, "enter", [i \in 1..Len(f.vs) |-> <<f.vs[i], <<t, Len(frames[t])>>>>])
        /\ frames' = [frames EXCEPT ![t][Len(frames[t])].vals =
                         [i \in 1..Len(f.vs) |-> <<t, Len(frames[t])>>]]
        /\ UNCHANGED <<varVars, chain, ops, history>>

Capture(t) ==
    LET f == Top(t)
        v == f.vs[Len(f.vals) + 1]
    IN  /\ pc[t] = "capture"
        /\ frames' = [frames EXCEPT ![t][Len(frames[t])].vals = Append(@, Deref(v))]
        /\ dirty' = IF chain[v] # <<>> THEN dirty \union {v} ELSE dirty
        /\ IF Len(f.vals) + 1 < Len(f.vs)
           THEN UNCHANGED <<pc, kind, todo>>
           ELSE Begin(t, "enter", [i \in 1..Len(f.vs) |-> <<f.vs[i], <<t, Len(frames[t])>>>>])
        /\ UNCHANGED <<varVars, chain, ops, base, contended>>

\* The body returns or throws: the finally stores what was captured.
Restore(t) ==
    LET f == Top(t)
    IN  /\ pc[t] = "run"
        /\ frames[t] # <<>> /\ f.form = "redefs"
        /\ Begin(t, "leave", [i \in 1..Len(f.vs) |-> <<f.vs[i], f.vals[i]>>])
        /\ UNCHANGED <<varVars, chain, ops, frames, history>>

\* (binding [v x] ...) in the root context.
PushBinding(t, v) ==
    /\ Starts(t)
    /\ Len(frames[t]) < MaxDepth
    /\ frames' = [frames EXCEPT ![t] = Append(@, [form |-> "binding", vs |-> <<v>>, vals |-> <<>>])]
    /\ chain' = [chain EXCEPT ![v] = Append(@, <<t, Len(frames[t]) + 1>>)]
    /\ UNCHANGED <<varVars, pc, kind, todo, history>>

PopBinding(t) ==
    LET v == Top(t).vs[1]
    IN  /\ pc[t] = "run"
        /\ frames[t] # <<>> /\ Top(t).form = "binding"
        /\ frames' = [frames EXCEPT ![t] = Outer(t)]
        /\ chain' = [chain EXCEPT ![v] = SubSeq(@, 1, Len(@) - 1)]
        /\ UNCHANGED <<varVars, pc, kind, todo, ops, history>>

AddWatch(v) ==
    /\ watched' = watched \union {v}
    /\ UNCHANGED <<root, flag, deviations, chain, pc, kind, todo, ops, frames, history>>

RemoveWatch(v) ==
    /\ watched' = watched \ {v}
    /\ UNCHANGED <<root, flag, deviations, chain, pc, kind, todo, ops, frames, history>>

-----------------------------------------------------------------------------
Next ==
    \/ \E t \in Threads :
        \/ \E v \in Vars : SetOrAlter(t, v)
        \/ Store(t)
        \/ SwapFlag(t)
        \/ AddDeviation(t)
        \/ Stored(t)
        \/ WatchThrows(t)
        \/ \E vs \in Redefs : WithRedefs(t, vs)
        \/ Capture(t)
        \/ Restore(t)
        \/ \E v \in Bindable : PushBinding(t, v)
        \/ PopBinding(t)
    \/ \E v \in Watchable : AddWatch(v) \/ RemoveWatch(v)

Spec == Init /\ [][Next]_vars

-----------------------------------------------------------------------------
(* Every variable has its type.                                            *)
TypeOK ==
    /\ root \in [Vars -> Values] /\ base \in [Vars -> Values]
    /\ flag \in [Vars -> BOOLEAN]
    /\ deviations \in Int
    /\ chain \in [Vars -> Seq(Values)]
    /\ watched \subseteq Vars /\ contended \subseteq Vars /\ dirty \subseteq Vars
    /\ pc \in [Threads -> PCs] /\ kind \in [Threads -> Kinds]
    /\ ops \in [Threads -> 0..MaxOps]
    /\ todo \in [Threads -> Seq(Vars \X Values)]
    /\ frames \in [Threads -> Seq(Frames)]

Settled(v) == \A t \in Threads : v \notin Pending(t)

(* The counter never drifts: with no updateGuard under way it is the       *)
(* number of vars whose flag is set, however the stores, swaps and         *)
(* additions of several threads interleaved (var.go:150).                  *)
CounterTracksFlags ==
    (\A t \in Threads : pc[t] # "add")
        => deviations = Cardinality({v \in Vars : flag[v]})

(* Lowered code sees an override: as long as no two threads worked on one  *)
(* var at a time, a var whose root is not canonical and is not being       *)
(* stored keeps the counter off zero, whatever is done to the other vars,  *)
(* and with no store under way at all the direct calls are taken exactly   *)
(* when every root is canonical (var.go:16).                               *)
OverrideObserved ==
    contended = {} =>
        /\ \A v \in Vars : Settled(v) /\ root[v] # Canon => ~GuardedRootsIntact
        /\ (\A v \in Vars : Settled(v)) =>
                (GuardedRootsIntact <=> \A v \in Vars : root[v] = Canon)

(* The guard of lowered calls tracks the roots: the counter counts the     *)
(* flags and the flags tell the overridden roots.                          *)
GuardTracksRoots == CounterTracksFlags /\ OverrideObserved

(* with-redefs puts the roots back: once no thread works on a var, its     *)
(* root is the one last set outside every with-redefs, through nested      *)
(* forms, bodies that throw and definitions made inside them - unless two  *)
(* threads worked on it, it was captured while bound, or a watch threw.    *)
RedefsRestore ==
    \A v \in Vars \ (contended \union dirty) :
        (\A t \in Threads : v \notin Holds(t)) => root[v] = base[v]

-----------------------------------------------------------------------------
(* The inductive strengthening used by VarRootsProofs.                     *)

\* The local state of a thread: a store under way belongs to an operation,
\* and every open with-redefs but the one being entered has captured all.
LocalOK(t) ==
    /\ pc[t] \in {"store", "swap", "add", "notify"} => todo[t] # <<>> /\ kind[t] # "none"
    /\ pc[t] \in {"run", "capture"} => todo[t] = <<>> /\ kind[t] = "none"
    /\ pc[t] = "capture" => /\ frames[t] # <<>> /\ Top(t).form = "redefs"
                            /\ Len(Top(t).vals) < Len(Top(t).vs)
    /\ kind[t] \in {"enter", "leave"} => frames[t] # <<>> /\ Top(t).form = "redefs"
    /\ Len(frames[t]) <= MaxDepth
    /\ \A i \in 1..Len(frames[t]) :
          frames[t][i].form = "redefs" /\ (pc[t] # "capture" \/ i < Len(frames[t]))
              => Len(frames[t][i].vals) = Len(frames[t][i].vs)

LocalInv == \A t \in Threads : LocalOK(t)

\* What the counter is while updateGuards are under way.
Flagged == {v \in Vars : flag[v]}
Adding == {t \in Threads : pc[t] = "add" /\ Head(todo[t])[2] # Canon}
Subtracting == {t \in Threads : pc[t] = "add" /\ Head(todo[t])[2] = Canon}

CounterInv ==
    deviations = Cardinality(Flagged) - Cardinality(Adding) + Cardinality(Subtracting)

\* Two threads work on one var only if it is contended, a thread stores to
\* each var once, and the flag of an uncontended var belongs to its root
\* except between a store and its swap.
ApartInv ==
    /\ \A t, u \in Threads : t # u => Holds(t) \intersect Holds(u) \subseteq contended
    /\ \A t \in Threads : \A i, j \in 1..Len(todo[t]) :
          todo[t][i][1] = todo[t][j][1] => i = j

FlagInv ==
    contended = {} =>
        /\ \A t \in Threads : pc[t] \in {"swap", "add"} =>
              root[Head(todo[t])[1]] = Head(todo[t])[2]
        /\ \A v \in Vars :
              (\A t \in Threads : pc[t] = "swap" => Head(todo[t])[1] # v)
                  => (flag[v] <=> root[v] # Canon)

\* A with-redefs stores to the vars it names, and puts back what it captured.
StoresOfForm(t) ==
    kind[t] \in {"enter", "leave"} =>
        \A j \in 1..Len(todo[t]) : \E k \in 1..Len(Top(t).vs) :
            /\ todo[t][j][1] = Top(t).vs[k]
            /\ kind[t] = "leave" => todo[t][j][2] = Top(t).vals[k]

StoresInv == \A t \in Threads : StoresOfForm(t)

\* The outermost with-redefs of t that names v is form i.
Names(t, i, v) == frames[t][i].form = "redefs" /\ v \in Elems(frames[t][i].vs)
Outermost(t, i, v) == Names(t, i, v) /\ \A j \in 1..i - 1 : ~Names(t, j, v)

\* The form t is leaving has put v back.
PutBack(t, v) ==
    kind[t] = "leave" /\ (v \in Pending(t) => Head(todo[t])[1] = v /\ pc[t] # "store")

\* The outermost with-redefs of a var keeps its base: what it captured is the
\* base, the root still is until it captures it, and is again once the form
\* has put it back.  What the forms inside it capture does not matter.
KeepsBase(t, i, v) ==
    /\ \A k \in 1..Len(frames[t][i].vs) : frames[t][i].vs[k] = v =>
          /\ k <= Len(frames[t][i].vals) => frames[t][i].vals[k] = base[v]
          /\ k > Len(frames[t][i].vals) => root[v] = base[v]
    /\ i = Len(frames[t]) /\ PutBack(t, v) => root[v] = base[v]

BaseOK(v) ==
    /\ (\A t \in Threads : v \notin Redefined(t)) => root[v] = base[v]
    /\ \A t \in Threads : \A i \in 1..Len(frames[t]) :
          Outermost(t, i, v) => KeepsBase(t, i, v)

BaseInv == \A v \in Vars \ (contended \union dirty) : BaseOK(v)

RestoreInv == StoresInv /\ BaseInv
=============================================================================
