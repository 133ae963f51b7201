------------------------------ MODULE Bindings -------------------------------
(***************************************************************************)
(* Dynamic bindings: the root context's per-var chains and their registry  *)
(* (pkg/vm/root_bindings.go), the binding stack of a child context         *)
(* (pkg/vm/binding_stack.go), ExecContext (pkg/vm/exec_context.go), and    *)
(* the forms that use them: binding, set!, with-out-str, future*, go* and  *)
(* bound-fn* (pkg/rt), and the *out* of an nREPL eval (pkg/nrepl).         *)
(*                                                                         *)
(* Roots are the threads of control that run in RootExecContext: the main  *)
(* program and every nREPL connection.  Kids run in a child context of     *)
(* their own.  A push or a pop of a chain holds the var's mutex and is one *)
(* step; the registry is changed in a later one.  A snapshot of the root   *)
(* copies the registry, then reads the chains one by one.                  *)
(***************************************************************************)
EXTENDS Integers, Sequences, FiniteSets

CONSTANTS
    Roots,         \* threads in the root context
    Kids,          \* futures, go blocks and calls of bound functions
    Vars,
    Forms,         \* thread -> the vectors of vars its binding forms name
    MaxOps,        \* bound: thread -> its forms and assignments
    Snapshots,     \* bound: the snapshots taken, <<thread, what, kid>>
    MaxDepth,      \* bound: nested binding forms of a thread
    None

Procs == Roots \union Kids
Values == UNION {{<<p, n>> : n \in 1..MaxOps[p]} : p \in Procs}     \* p's n-th value

ASSUME BindingsConstants ==
    /\ IsFiniteSet(Roots) /\ IsFiniteSet(Kids) /\ IsFiniteSet(Vars)
    /\ Roots \intersect Kids = {} /\ None \notin Procs \union Vars
    /\ None \notin [Vars -> Seq(Values)]
    /\ Snapshots \subseteq Procs \X {"spawn", "call", "bound"} \X (Kids \union {None})
    /\ Forms \in [Procs -> SUBSET (Seq(Vars) \ {<<>>})]
    /\ MaxOps \in [Procs -> Nat] /\ MaxDepth \in Nat

VARIABLES
    chain,        \* var -> Var.rootBind, innermost last
    registry,     \* rootRegistry
    stack,        \* kid -> the frames of its bindingStack, innermost last
    captured,     \* what the wrapped function of bound-fn* closed over
    pc,           \* thread -> where it is
    cur,          \* thread -> the var of the push or pop under way
    frames,       \* thread -> its binding forms: vars, and <<var, value>> pushed
    ops,          \* thread -> forms and assignments it has started
    snap,         \* thread -> the snapshot under way: its purpose, the vars
                  \*   left to read and the values read
    parent,       \* kid -> the thread whose context it was made from
    overlapped,   \* history: vars two roots bound or set at a time
    leaked        \* history: vars a form pushed and will not pop

ctxVars == <<chain, registry, stack>>
history == <<overlapped, leaked>>
vars == <<ctxVars, captured, pc, cur, frames, ops, snap, parent, history>>

PCs == {"none", "run", "push", "pop", "add", "remove", "snap", "wait", "done"}
Purposes == [what : {"spawn", "call"}, kid : Kids] \union [what : {"bound"}, kid : {None}]
Empty == [v \in Vars |-> <<>>]
NoSnap == [for |-> [what |-> "none", kid |-> None], left |-> {}, got |-> Empty]

Init ==
    /\ chain = Empty
    /\ registry = {}
    /\ stack = [k \in Kids |-> <<>>]
    /\ captured = None
    /\ pc = [p \in Procs |-> IF p \in Roots THEN "run" ELSE "none"]
    /\ cur = [p \in Procs |-> None]
    /\ frames = [p \in Procs |-> <<>>]
    /\ ops = [p \in Procs |-> 0]
    /\ snap = [p \in Procs |-> NoSnap]
    /\ parent = [k \in Kids |-> None]
    /\ overlapped = {} /\ leaked = {}

-----------------------------------------------------------------------------
Elems(s) == {s[i] : i \in 1..Len(s)}
Last(s) == s[Len(s)]
Front(s) == SubSeq(s, 1, Len(s) - 1)
PushedVars(p) == UNION {{b[1] : b \in Elems(f.pushed)} : f \in Elems(frames[p])}
Uses(p) == PushedVars(p) \union ({cur[p]} \ {None})

\* bindingStack.current: the topmost frame of v, 0 if there is none.
At(s, v) == {i \in 1..Len(s) : s[i][1] = v}
TopOf(s, v) ==
    IF At(s, v) = {} THEN 0 ELSE CHOOSE i \in At(s, v) : \A j \in At(s, v) : j <= i

\* removeTopBinding, replaceTopBinding.
MutRemoveHead(s, v) == Front(s)

RemoveTop(s, v) ==
    LET i == TopOf(s, v)
    IN  IF i = 0 THEN s ELSE SubSeq(s, 1, i - 1) \o SubSeq(s, i + 1, Len(s))

ReplaceTop(s, v, x) == [s EXCEPT ![TopOf(s, v)] = <<v, x>>]

\* bindingStack.snapshot: each var's values, innermost last.
Nth(T, n) == CHOOSE i \in T : Cardinality({j \in T : j <= i}) = n
ByVar(s) ==
    [v \in Vars |->
        LET at == At(s, v)
        IN  [n \in 1..Cardinality(at) |-> s[Nth(at, n)][2]]]

\* installSnapshot: the frames of one var after those of another, in the
\* order in which the map yields the vars.
FramesOf(m, v) == [i \in 1..Len(m[v]) |-> <<v, m[v][i]>>]
Slots(m) == UNION {{v} \X (1..Len(m[v])) : v \in Vars}
Orders(m) ==
    LET bound == {v \in Vars : m[v] # <<>>}
    IN  {o \in [bound -> 1..Cardinality(bound)] :
            \A v, w \in bound : o[v] = o[w] => v = w}
Upto(m, o, a) ==
    {b \in Slots(m) : o[b[1]] < o[a[1]] \/ (b[1] = a[1] /\ b[2] <= a[2])}
Joined(m, o) ==
    [n \in 1..Cardinality(Slots(m)) |->
        LET a == CHOOSE a \in Slots(m) : Cardinality(Upto(m, o, a)) = n
        IN  FramesOf(m, a[1])[a[2]]]
Chains(m) == {Joined(m, o) : o \in Orders(m)}

\* ExecContext.hasBinding.
HasBinding(p, v) ==
    IF p \in Roots THEN chain[v] # <<>> ELSE TopOf(stack[p], v) # 0

\* ExecContext.deref, for a bound var.
deref(p, v) ==
    IF p \in Roots THEN Last(chain[v]) ELSE stack[p][TopOf(stack[p], v)][2]

Starts(p) ==
    /\ pc[p] = "run" /\ ops[p] < MaxOps[p]
    /\ ops' = [ops EXCEPT ![p] = @ + 1]

-----------------------------------------------------------------------------
(* binding: the pushes, each after its initialiser, the body, and the pops *)
(* in a finally.  with-out-str and an nREPL eval are a form of one var.    *)

Enter(p, vs) ==
    /\ Starts(p)
    /\ Len(frames[p]) < MaxDepth
    /\ frames' = [frames EXCEPT ![p] = Append(@, [vs |-> vs, pushed |-> <<>>])]
    /\ pc' = [pc EXCEPT ![p] = "push"]
    /\ UNCHANGED <<ctxVars, captured, cur, snap, parent, history>>

\* Where a thread is once a push, or a pop, is complete.
AfterPush(f) == IF Len(f.pushed) < Len(f.vs) THEN "push" ELSE "run"
AfterPop(f) == IF f.pushed # <<>> THEN "pop" ELSE "run"

Shares(p, v) == IF \E q \in Roots \ {p} : v \in Uses(q) THEN {v} ELSE {}

\* rootPush up to the unlock of the var, or bindingStack.push.
Push(p) ==
    LET d == Len(frames[p])
        f == frames[p][d]
        v == f.vs[Len(f.pushed) + 1]
        x == <<p, ops[p]>>
        g == [f EXCEPT !.pushed = Append(@, <<v, x>>)]
    IN  /\ pc[p] = "push"
        /\ frames' = [frames EXCEPT ![p][d] = g]
        /\ IF p \in Roots
           THEN /\ chain' = [chain EXCEPT ![v] = Append(@, x)]
                /\ overlapped' = overlapped \union Shares(p, v)
                /\ IF chain[v] = <<>>
                   THEN cur' = [cur EXCEPT ![p] = v] /\ pc' = [pc EXCEPT ![p] = "add"]
                   ELSE UNCHANGED cur /\ pc' = [pc EXCEPT ![p] = AfterPush(g)]
                /\ UNCHANGED stack
           ELSE /\ stack' = [stack EXCEPT ![p] = Append(@, <<v, x>>)]
                /\ pc' = [pc EXCEPT ![p] = AfterPush(g)]
                /\ UNCHANGED <<chain, cur, overlapped>>
        /\ UNCHANGED <<registry, captured, ops, snap, parent, leaked>>

RegistryAdd(p) ==
    /\ pc[p] = "add"
    /\ registry' = registry \union {cur[p]}
    /\ pc' = [pc EXCEPT ![p] = AfterPush(Last(frames[p]))]
    /\ cur' = [cur EXCEPT ![p] = None]
    /\ UNCHANGED <<chain, stack, captured, frames, ops, snap, parent, history>>

\* An initialiser throws before the try is entered: what the form has pushed
\* stays pushed.
InitThrows(p) ==
    /\ pc[p] = "push"
    /\ frames' = [frames EXCEPT ![p] = Front(@)]
    /\ pc' = [pc EXCEPT ![p] = "run"]
    /\ leaked' = leaked \union {b[1] : b \in Elems(Last(frames[p]).pushed)}
    /\ UNCHANGED <<ctxVars, captured, cur, ops, snap, parent, overlapped>>

\* The body returns or throws.
Leave(p) ==
    /\ pc[p] = "run" /\ frames[p] # <<>>
    /\ pc' = [pc EXCEPT ![p] = "pop"]
    /\ UNCHANGED <<ctxVars, captured, cur, frames, ops, snap, parent, history>>

\* The finally pops the vars in the order of the form, each var's top binding.
MutPopsFirstVar(p) ==
    LET v == Last(frames[p]).pushed[1][1]
    IN  /\ pc[p] = "pop"
        /\ frames' = [frames EXCEPT ![p] = Front(@)]
        /\ IF p \in Roots
           THEN /\ chain' = [chain EXCEPT ![v] = Front(@)]
                /\ IF Len(chain[v]) = 1
                   THEN cur' = [cur EXCEPT ![p] = v] /\ pc' = [pc EXCEPT ![p] = "remove"]
                   ELSE UNCHANGED cur /\ pc' = [pc EXCEPT ![p] = "run"]
                /\ UNCHANGED stack
           ELSE /\ stack' = [stack EXCEPT ![p] = RemoveTop(@, v)]
                /\ pc' = [pc EXCEPT ![p] = "run"]
                /\ UNCHANGED <<chain, cur>>
        /\ UNCHANGED <<registry, captured, ops, snap, parent, history>>

Pop(p) ==
    LET d == Len(frames[p])
        f == frames[p][d]
        v == f.pushed[1][1]
        g == [f EXCEPT !.pushed = Tail(@)]
    IN  /\ pc[p] = "pop"
        /\ frames' = [frames EXCEPT ![p] = IF g.pushed = <<>> THEN Front(@)
                                           ELSE [@ EXCEPT ![d] = g]]
        /\ IF p \in Roots
           THEN /\ chain' = [chain EXCEPT ![v] = IF @ = <<>> THEN @ ELSE Front(@)]
                /\ IF Len(chain[v]) = 1
                   THEN cur' = [cur EXCEPT ![p] = v] /\ pc' = [pc EXCEPT ![p] = "remove"]
                   ELSE UNCHANGED cur /\ pc' = [pc EXCEPT ![p] = AfterPop(g)]
                /\ UNCHANGED stack
           ELSE /\ stack' = [stack EXCEPT ![p] = RemoveTop(@, v)]
                /\ pc' = [pc EXCEPT ![p] = AfterPop(g)]
                /\ UNCHANGED <<chain, cur>>
        /\ UNCHANGED <<registry, captured, ops, snap, parent, history>>

\* The innermost form still has bindings to pop.
Popping(p) ==
    /\ frames[p] # <<>>
    /\ Len(Last(frames[p]).pushed) < Len(Last(frames[p]).vs)

RegistryRemove(p) ==
    /\ pc[p] = "remove"
    /\ registry' = registry \ {cur[p]}
    /\ cur' = [cur EXCEPT ![p] = None]
    /\ pc' = [pc EXCEPT ![p] = IF Popping(p) THEN "pop" ELSE "run"]
    /\ UNCHANGED <<chain, stack, captured, frames, ops, snap, parent, history>>

\* (set! v x) of a bound var: rootSetCurrent or bindingStack.setCurrent.
SetCurrent(p, v) ==
    LET x == <<p, ops[p] + 1>>
        d == Len(frames[p])
        at(f) == {i \in 1..Len(f.pushed) : f.pushed[i][1] = v}
        mine == {i \in 1..d : at(frames[p][i]) # {}}
    IN  /\ Starts(p)
        /\ HasBinding(p, v)
        /\ IF p \in Roots
           THEN chain' = [chain EXCEPT ![v][Len(chain[v])] = x] /\ UNCHANGED stack
           ELSE stack' = [stack EXCEPT ![p] = ReplaceTop(@, v, x)] /\ UNCHANGED chain
        /\ frames' = IF mine = {} THEN frames
                     ELSE LET i == CHOOSE i \in mine : \A j \in mine : j <= i
                              n == CHOOSE n \in at(frames[p][i]) :
                                      \A m \in at(frames[p][i]) : m <= n
                          IN  [frames EXCEPT ![p][i].pushed[n] = <<v, x>>]
        /\ overlapped' = IF p \in Roots THEN overlapped \union Shares(p, v) ELSE overlapped
        /\ UNCHANGED <<registry, captured, pc, cur, snap, parent, leaked>>

-----------------------------------------------------------------------------
(* Snapshots.  ExecContext.Child and BindingSnapshot read the bindings of  *)
(* the context they are called on; what is made of them is decided first:  *)
(* a child context for a future or a call of the bound function (the kid), *)
(* or the bindings a new bound function closes over.                       *)

BeginSnapshot(p, for) ==
    /\ pc[p] = "run" /\ <<p, for.what, for.kid>> \in Snapshots
    /\ for.what = "bound" =>                            \* bound: one bound-fn
          captured = None /\ \A q \in Procs : snap[q].for.what # "bound"
    /\ for.what = "call" => captured # None
    /\ for.kid # None => /\ pc[for.kid] = "none"
                         /\ \A q \in Procs : snap[q].for.kid # for.kid
    /\ pc' = [pc EXCEPT ![p] = "snap"]
    /\ snap' = [snap EXCEPT ![p] =
          IF p \in Roots THEN [for |-> for, left |-> registry, got |-> Empty]
          ELSE [for |-> for, left |-> {}, got |-> ByVar(stack[p])]]
    /\ UNCHANGED <<ctxVars, captured, cur, frames, ops, parent, history>>

MutNotReversed(p, v) ==
    /\ pc[p] = "snap" /\ v \in snap[p].left
    /\ snap' = [snap EXCEPT ![p].left = @ \ {v},
                   ![p].got[v] = [i \in 1..Len(chain[v]) |-> chain[v][Len(chain[v]) + 1 - i]]]
    /\ UNCHANGED <<ctxVars, captured, pc, cur, frames, ops, parent, history>>

\* rootSnapshot loads the chain of the next registered var.
ReadChain(p, v) ==
    /\ pc[p] = "snap" /\ v \in snap[p].left
    /\ snap' = [snap EXCEPT ![p].left = @ \ {v}, ![p].got[v] = chain[v]]
    /\ UNCHANGED <<ctxVars, captured, pc, cur, frames, ops, parent, history>>

MutCapturedAlone(p) ==
    LET for == snap[p].for
    IN  /\ pc[p] = "snap" /\ snap[p].left = {} /\ for.kid # None
        /\ \E s \in Chains(IF for.what = "call" THEN captured ELSE snap[p].got) :
                stack' = [stack EXCEPT ![for.kid] = s]
        /\ parent' = [parent EXCEPT ![for.kid] = p]
        /\ pc' = [pc EXCEPT ![p] = IF for.what = "call" THEN "wait" ELSE "run",
                            ![for.kid] = "run"]
        /\ snap' = [snap EXCEPT ![p] = NoSnap]
        /\ UNCHANGED <<chain, registry, captured, cur, frames, ops, history>>

\* The snapshot is installed in a fresh context; a bound function then pushes
\* what it captured over it, and its caller waits for the call to return.
Install(p) ==
    LET for == snap[p].for
        got == snap[p].got
    IN  /\ pc[p] = "snap" /\ snap[p].left = {} /\ for.kid # None
        /\ \E s \in Chains(got) :
             \E t \in IF for.what = "call" THEN Chains(captured) ELSE {<<>>} :
                stack' = [stack EXCEPT ![for.kid] = s \o t]
        /\ parent' = [parent EXCEPT ![for.kid] = p]
        /\ pc' = [pc EXCEPT ![p] = IF for.what = "call" THEN "wait" ELSE "run",
                            ![for.kid] = "run"]
        /\ snap' = [snap EXCEPT ![p] = NoSnap]
        /\ UNCHANGED <<chain, registry, captured, cur, frames, ops, history>>

\* bound-fn*: with nothing bound, the function itself is returned.
CaptureBound(p) ==
    /\ pc[p] = "snap" /\ snap[p].left = {} /\ snap[p].for.what = "bound"
    /\ captured' = IF snap[p].got = Empty THEN None ELSE snap[p].got
    /\ pc' = [pc EXCEPT ![p] = "run"]
    /\ snap' = [snap EXCEPT ![p] = NoSnap]
    /\ UNCHANGED <<ctxVars, cur, frames, ops, parent, history>>

\* The body of a kid returns, and with it a call of the bound function.
Return(k) ==
    /\ pc[k] = "run" /\ frames[k] = <<>>
    /\ pc' = [q \in Procs |->
                IF q = k THEN "done"
                ELSE IF q = parent[k] /\ pc[q] = "wait" THEN "run" ELSE pc[q]]
    /\ UNCHANGED <<ctxVars, captured, cur, frames, ops, snap, parent, history>>

-----------------------------------------------------------------------------
Step(p) ==
    \/ \E vs \in Forms[p] : Enter(p, vs)
    \/ Push(p) \/ RegistryAdd(p) \/ InitThrows(p)
    \/ Leave(p) \/ Pop(p) \/ RegistryRemove(p)
    \/ \E v \in Vars : SetCurrent(p, v)
    \/ \E for \in Purposes : BeginSnapshot(p, for)
    \/ \E v \in Vars : ReadChain(p, v)
    \/ Install(p) \/ CaptureBound(p)

Next == (\E p \in Procs : Step(p)) \/ (\E k \in Kids : Return(k))

Spec == Init /\ [][Next]_vars

-----------------------------------------------------------------------------
(* Every variable has its type.                                            *)
TypeOK ==
    /\ chain \in [Vars -> Seq(Values)]
    /\ registry \subseteq Vars /\ overlapped \subseteq Vars /\ leaked \subseteq Vars
    /\ stack \in [Kids -> Seq(Vars \X Values)]
    /\ captured \in [Vars -> Seq(Values)] \union {None}
    /\ pc \in [Procs -> PCs]
    /\ cur \in [Procs -> Vars \union {None}]
    /\ frames \in [Procs -> Seq([vs : Seq(Vars), pushed : Seq(Vars \X Values)])]
    /\ ops \in [Procs -> Nat] /\ \A p \in Procs : ops[p] <= MaxOps[p]
    /\ snap \in [Procs -> [for : Purposes \union {NoSnap.for}, left : SUBSET Vars,
                           got : [Vars -> Seq(Values)]]]
    /\ parent \in [Kids -> Procs \union {None}]

(* rootRegistry never names a dead var: a var without a live root binding  *)
(* is registered only until the pop that removed the last one reaches the  *)
(* registry; and if no two threads bound a var at a time, a live one is    *)
(* missing only until its first push does (root_bindings.go:20).           *)
RegistryHonest ==
    \A v \in Vars :
        /\ v \in registry /\ chain[v] = <<>>
            => \E p \in Roots : pc[p] = "remove" /\ cur[p] = v
        /\ v \notin registry /\ chain[v] # <<>> /\ v \notin overlapped
            => \E p \in Roots : pc[p] = "add" /\ cur[p] = v

(* Bindings unwind: when no root thread has a form open and no initialiser *)
(* threw, no root binding is left and none is registered, although threads *)
(* that overlap pop each other's frames (server.go:247).                   *)
RootUnwinds ==
    (\A p \in Roots : pc[p] = "run" /\ frames[p] = <<>>)
        => \A v \in Vars \ leaked : chain[v] = <<>> /\ v \notin registry

(* The registry tells the live root bindings, and none is left behind.     *)
RootBindingsHonest == RegistryHonest /\ RootUnwinds

(* A thread sees its own innermost binding of a var: always in a context   *)
(* of its own, and in the root context if no other thread bound the var at *)
(* the same time - the output of an nREPL eval that overlaps no other is   *)
(* its own.  A form may name a var twice; while it is left its bindings of *)
(* that var go, the last one first.                                        *)
OwnBinding(p, v) ==
    LET mine == {i \in 1..Len(frames[p]) : At(frames[p][i].pushed, v) # {}}
        i == CHOOSE i \in mine : \A j \in mine : j <= i
        bs == frames[p][i].pushed
    IN  bs[TopOf(bs, v)][2]

Leaving(p) == pc[p] = "pop" \/ (pc[p] = "remove" /\ Popping(p))
NamedOnce(f, v) ==
    \A i, j \in 1..Len(f.vs) : f.vs[i] = v /\ f.vs[j] = v => i = j

OwnBindingVisible ==
    \A p \in Procs : \A v \in PushedVars(p) \ leaked :
        (p \in Roots => v \notin overlapped)
        /\ (Leaving(p) => NamedOnce(Last(frames[p]), v))
            => HasBinding(p, v) /\ deref(p, v) = OwnBinding(p, v)

(* A future, go block or bound call starts with its spawner's bindings:    *)
(* whatever the spawner has bound itself is bound to the same value in the *)
(* new context, unless the bound function captured the var or another      *)
(* thread of the root context bound it too (lang.go:3704).                 *)
BindingsConveyed ==
    [][\A k \in Kids : pc[k] = "none" /\ pc'[k] = "run" =>
          LET p == parent'[k]
          IN  \A v \in PushedVars(p) \ leaked :
                (p \in Roots => v \notin overlapped)
                /\ ~(snap[p].for.what = "call" /\ captured[v] # <<>>)
                => /\ TopOf(stack'[k], v) # 0
                   /\ stack'[k][TopOf(stack'[k], v)][2] = OwnBinding(p, v)]_vars

\* A context exists from its installation on.
scope == [k \in Kids |-> IF pc[k] = "none" THEN None ELSE ByVar(stack[k])]

DS == INSTANCE DynScope WITH Contexts <- Kids, creator <- parent

(* Child contexts are isolated: each behaves as stacks of its own that     *)
(* start as a copy of the spawner's (DynScope), over one chain of frames   *)
(* for all vars (exec_context.go:18).                                      *)
Isolated == DS!Spec
-----------------------------------------------------------------------------
(* The inductive strengthening of RootBindingsHonest.                      *)

\* What the steps that matter to the root context need of the types.
RootTypes ==
    /\ chain \in [Vars -> Seq(Values)]
    /\ registry \subseteq Vars /\ overlapped \subseteq Vars
    /\ pc \in [Procs -> PCs] /\ \A k \in Kids : pc[k] \notin {"add", "remove"}
    /\ cur \in [Procs -> Vars \union {None}]
    /\ frames \in [Procs -> Seq([vs : Seq(Vars), pushed : Seq(Vars \X Values)])]
    /\ ops \in [Procs -> Nat] /\ \A p \in Procs : ops[p] <= MaxOps[p]
    /\ DOMAIN snap = Procs
    /\ \A p \in Procs : /\ DOMAIN snap[p] = {"for", "left", "got"}
                         /\ snap[p].for.kid \in Kids \union {None}

\* A kid that a snapshot is taken for has not begun, and there is no second one.
SnapInv ==
    \A p, q \in Procs :
        LET k == snap[p].for.kid
        IN  k # None => pc[k] = "none" /\ (snap[q].for.kid = k => q = p)

\* A form that is being left has popped so many of its vars, from the front.
Gone(p, i) ==
    IF i = Len(frames[p]) /\ pc[p] \in {"pop", "remove"}
    THEN Len(frames[p][i].vs) - Len(frames[p][i].pushed) ELSE 0

\* The positions in form i of p of the vars that are pushed.
Live(p, i) == (Gone(p, i) + 1) .. (Gone(p, i) + Len(frames[p][i].pushed))

\* Only the innermost form of a thread may be half pushed or half popped, and
\* how far it is agrees with where the thread is.
FormInv(p) ==
    LET d == Len(frames[p])
        f == frames[p][d]
    IN  /\ \A i \in 1..d :
              LET g == frames[p][i]
              IN  /\ Len(g.pushed) <= Len(g.vs) /\ g.vs # <<>>
                  /\ \A j \in 1..Len(g.pushed) : g.pushed[j][1] = g.vs[Gone(p, i) + j]
                  /\ i < d => Len(g.pushed) = Len(g.vs)
        /\ d > 0 => ops[p] > 0
        /\ pc[p] \notin {"push", "add", "pop", "remove"} /\ d > 0
              => Len(f.pushed) = Len(f.vs)
        /\ pc[p] = "push" => d > 0 /\ Len(f.pushed) < Len(f.vs)
        /\ pc[p] = "pop" => d > 0 /\ f.pushed # <<>>
        /\ pc[p] = "add" =>
              d > 0 /\ f.pushed # <<>> /\ cur[p] = f.pushed[Len(f.pushed)][1]
        /\ pc[p] = "remove" => (d > 0 => f.pushed # <<>>) /\ cur[p] # None

\* The live root bindings of v: thread, form and place in the form.
Open(p, v) ==
    UNION {{i} \X {j \in Live(p, i) : frames[p][i].vs[j] = v} : i \in DOMAIN frames[p]}
Held(v) == UNION {{p} \X Open(p, v) : p \in Roots}

\* The chain of a var is as long as the forms say; initialisers that threw
\* may have left it longer.
ChainInv ==
    \A v \in Vars :
        /\ IsFiniteSet(Held(v)) /\ Cardinality(Held(v)) <= Len(chain[v])
        /\ v \notin leaked => Cardinality(Held(v)) = Len(chain[v])

\* A var that was bound again before it was deregistered is an overlapped one.
RemoveInv ==
    \A p \in Roots : pc[p] = "remove" /\ chain[cur[p]] # <<>> => cur[p] \in overlapped

RootInv ==
    /\ RootTypes /\ SnapInv /\ (\A p \in Procs : FormInv(p))
    /\ ChainInv /\ RemoveInv /\ RegistryHonest
-----------------------------------------------------------------------------
(* The inductive strengthening of the other properties.                    *)

\* What a thread sees of every var, innermost last.
Seen(p) == IF p \in Roots THEN chain ELSE ByVar(stack[p])

\* The live bindings of v that p made after the one at t, and its value.
Above(p, v, t) == {u \in Open(p, v) : u[1] > t[1] \/ (u[1] = t[1] /\ u[2] > t[2])}
ValueAt(p, t) == frames[p][t[1]].pushed[t[2] - Gone(p, t[1])][2]
Counts(p, v, t) ==
    t[1] = Len(frames[p]) /\ Leaving(p) => NamedOnce(Last(frames[p]), v)

\* What p pushed is as far from the top as p pushed others after it.
OwnInv ==
    \A p \in Procs : \A v \in Vars \ leaked :
        (p \in Roots => v \notin overlapped) =>
            \A t \in Open(p, v) : Counts(p, v, t) =>
                LET n == Cardinality(Above(p, v, t))
                    l == Len(Seen(p)[v])
                IN  n < l /\ Seen(p)[v][l - n] = ValueAt(p, t)

\* Two root threads that use a var overlap.
ApartInv ==
    \A p, q \in Roots : p # q => Uses(p) \intersect Uses(q) \subseteq overlapped

\* What a snapshot under way has read, or will, is what its thread sees.
GotInv ==
    \A p \in Procs : pc[p] = "snap" =>
        /\ p \in Kids => snap[p].left = {} /\ snap[p].got = ByVar(stack[p])
        /\ p \in Roots =>
              \A v \in PushedVars(p) \ (leaked \union overlapped) :
                  v \in snap[p].left \/ snap[p].got[v] = chain[v]

\* There is one bound function, and it is called once it exists.
BoundInv ==
    \A p \in Procs :
        /\ snap[p].for.what = "bound" =>
              captured = None /\ \A q \in Procs : snap[q].for.what = "bound" => q = p
        /\ snap[p].for.what = "call" => captured # None

\* A kid that has not begun has no form.
FreshInv == \A p \in Procs : pc[p] = "none" => frames[p] = <<>>

BindInv == RootInv /\ TypeOK /\ OwnInv /\ ApartInv /\ GotInv /\ BoundInv /\ FreshInv
=============================================================================
