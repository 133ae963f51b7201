-------------------------------- MODULE Scope --------------------------------
(***************************************************************************)
(* The goroutine supervision tree: pkg/vm/scope.go, with the spawn and     *)
(* with-scope entry points that use it (go*, scope-open, scope-close!,     *)
(* .interrupt in pkg/rt, OpenChildEC in pkg/vm/exec_context.go).           *)
(*                                                                         *)
(* Threads: Lisp threads that open, close, interrupt and drain scopes, and *)
(* the go-blocks they and other go-blocks spawn.  A scope's state is an    *)
(* atomic pointer and its wait-group an atomic counter, so every load,     *)
(* swap, cancel, Add and Wait is a step of its own.                        *)
(***************************************************************************)
EXTENDS Integers, FiniteSets

CONSTANTS
    Scopes, Root,    \* the scopes a run may create, and Goroutines
    Parent,          \* shape of the tree: the parent of each other scope
    Up,              \* each scope with all its ancestors
    Threads,         \* Lisp threads of control
    Blocks,          \* go-blocks
    Drainable,       \* the scopes Drain is called on
    MaxGen,          \* bound: CancelAll calls per scope
    Timeouts,        \* whether a bounded Await may time out
    None

ASSUME ScopeConstants ==
    /\ Root \in Scopes
    /\ Parent \in [Scopes \ {Root} -> Scopes]
    /\ Up \in [Scopes -> SUBSET Scopes]
    /\ Up[Root] = {Root}
    /\ \A s \in Scopes \ {Root} : Up[s] = {s} \union Up[Parent[s]]
    /\ \A s \in Scopes \ {Root} : s \notin Up[Parent[s]]
    /\ \A s \in Scopes : IsFiniteSet(Up[s])     \* any nesting, but finite
    /\ Drainable \subseteq Scopes
    /\ MaxGen \in Nat
    /\ Timeouts \in BOOLEAN
    /\ Threads \intersect Blocks = {}
    /\ None \notin Scopes \union Threads \union Blocks

Ctx == Scopes \X (0..MaxGen)     \* a scope's context, by generation

VARIABLES
    created,     \* scopes that exist
    gen,         \* scope -> generation of its state pointer
    line,        \* scope -> generation -> contexts that one is derived from
    cancelled,   \* contexts whose cancel function has run
    children,    \* scope -> Scope.children
    bpc,         \* block -> where its goroutine is
    bscope,      \* block -> the scope it was spawned into
    bctx,        \* block -> generation of the ctx its goroutine received
    bop,         \* block -> generation its channel operation selects on
    starter,     \* block -> the thread or block inside Scope.Go for it
    tpc,         \* thread -> where it is
    ecScope,     \* thread -> ec.scope
    op,          \* thread -> the operation it is in
    target,      \* thread -> the scope of that operation
    loaded,      \* thread -> the generation the operation loaded
    pending,     \* thread -> scopes awaitTree has still to visit
    visiting,    \* thread -> the scope whose wg.Wait has returned
    asked        \* history: scopes some Cancel or CancelAll was called on

treeVars   == <<created, gen, line, cancelled, children>>
blockVars  == <<bpc, bscope, bctx, bop, starter>>
threadVars == <<tpc, ecScope, op, target, loaded, pending, visiting>>
vars == <<treeVars, blockVars, threadVars, asked>>

BlockPcs  == {"none", "add", "run", "spawning", "park", "send", "exit"}
ThreadPcs == {"run", "spawning", "register", "cancel", "swap", "cancelOld",
              "wait", "awaited", "stuck"}

\* context.Context.Done: a context ends with any context it is derived from.
Done(s, n) == line[s][n] \intersect cancelled # {}

\* Between wg.Add and wg.Done.
Running(b) == bpc[b] \in {"run", "spawning", "park", "send"}

Init ==
    /\ created = {Root}
    /\ gen = [s \in Scopes |-> 0]
    /\ line = [s \in Scopes |-> [n \in 0..MaxGen |->
                  IF s = Root /\ n = 0 THEN {<<Root, 0>>} ELSE {}]]
    /\ cancelled = {}
    /\ children = [s \in Scopes |-> {}]
    /\ bpc = [b \in Blocks |-> "none"]
    /\ bscope = [b \in Blocks |-> Root]
    /\ bctx = [b \in Blocks |-> 0]
    /\ bop = [b \in Blocks |-> 0]
    /\ starter = [b \in Blocks |-> None]
    /\ tpc = [t \in Threads |-> "run"]
    /\ ecScope = [t \in Threads |-> Root]
    /\ op = [t \in Threads |-> "none"]
    /\ target = [t \in Threads |-> Root]
    /\ loaded = [t \in Threads |-> 0]
    /\ pending = [t \in Threads |-> {}]
    /\ visiting = [t \in Threads |-> None]
    /\ asked = {}

-----------------------------------------------------------------------------
(* Scope.Go: the context is loaded before the goroutine is counted.  A     *)
(* go-block or a future goes to the spawner's own scope; a core.async      *)
(* combinator or the timeout daemon to the root (vm.Goroutines.Go).        *)

GoLoad(b, s, who) ==
    /\ bpc[b] = "none"
    /\ bpc' = [bpc EXCEPT ![b] = "add"]
    /\ bscope' = [bscope EXCEPT ![b] = s]
    /\ bctx' = [bctx EXCEPT ![b] = gen[s]]
    /\ starter' = [starter EXCEPT ![b] = who]
    /\ UNCHANGED <<treeVars, bop>>

ThreadGo(t, b) ==
    /\ tpc[t] = "run"
    /\ \E s \in {ecScope[t], Root} : GoLoad(b, s, t)
    /\ tpc' = [tpc EXCEPT ![t] = "spawning"]
    /\ UNCHANGED <<ecScope, op, target, loaded, pending, visiting, asked>>

ThreadGoAdd(t, b) ==
    /\ tpc[t] = "spawning" /\ bpc[b] = "add" /\ starter[b] = t
    /\ bpc' = [bpc EXCEPT ![b] = "run"]
    /\ starter' = [starter EXCEPT ![b] = None]
    /\ tpc' = [tpc EXCEPT ![t] = "run"]
    /\ UNCHANGED <<treeVars, bscope, bctx, bop, ecScope, op, target, loaded,
                   pending, visiting, asked>>

\* A block that spawns stays counted while it does.
BlockGo(p, b) ==
    /\ bpc[p] = "run" /\ bpc[b] = "none"
    /\ \E s \in {bscope[p], Root} :
          /\ bscope' = [bscope EXCEPT ![b] = s]
          /\ bctx' = [bctx EXCEPT ![b] = gen[s]]
    /\ bpc' = [bpc EXCEPT ![p] = "spawning", ![b] = "add"]
    /\ starter' = [starter EXCEPT ![b] = p]
    /\ UNCHANGED <<treeVars, bop, threadVars, asked>>

BlockGoAdd(p, b) ==
    /\ bpc[p] = "spawning" /\ bpc[b] = "add" /\ starter[b] = p
    /\ bpc' = [bpc EXCEPT ![p] = "run", ![b] = "run"]
    /\ starter' = [starter EXCEPT ![b] = None]
    /\ UNCHANGED <<treeVars, bscope, bctx, bop, threadVars, asked>>

(* The body of a go-block.  A channel operation selects on the context its *)
(* scope has when the operation starts: ec.Context() loads the state       *)
(* pointer anew, it is not the ctx the goroutine was given.                *)
Park(b) ==
    /\ bpc[b] = "run"
    /\ bpc' = [bpc EXCEPT ![b] = "park"]
    /\ bop' = [bop EXCEPT ![b] = gen[bscope[b]]]
    /\ UNCHANGED <<treeVars, bscope, bctx, starter, threadVars, asked>>

\* The other side of the channel shows up.
Unpark(b) ==
    /\ bpc[b] = "park"
    /\ bpc' = [bpc EXCEPT ![b] = "run"]
    /\ UNCHANGED <<treeVars, bscope, bctx, bop, starter, threadVars, asked>>

\* The body ends with a value, an error or the Cancelled condition; each
\* leads to the send of the result, which selects on the goroutine's own ctx.
EndBody(b) ==
    /\ bpc' = [bpc EXCEPT ![b] = "send"]
    /\ UNCHANGED <<treeVars, bscope, bctx, bop, starter, threadVars, asked>>

Finish(b) == bpc[b] = "run" /\ EndBody(b)

OpCancelled(b) == bpc[b] = "park" /\ Done(bscope[b], bop[b]) /\ EndBody(b)

Taken(b) ==
    /\ bpc[b] = "send"
    /\ bpc' = [bpc EXCEPT ![b] = "exit"]
    /\ UNCHANGED <<treeVars, bscope, bctx, bop, starter, threadVars, asked>>

\* Mutant: the result is sent in a select on the context of the root.
MutRootSelect(b) == Done(Root, 0) /\ Taken(b)

SendCancelled(b) == Done(bscope[b], bctx[b]) /\ Taken(b)

-----------------------------------------------------------------------------
(* with-scope: OpenChildEC, and scope-close! -> CloseScoped.               *)

MutFromBackground(s, n, base) == {<<s, n>>}

\* context.WithCancel(parent): base is the line of the parent context.
WithCancel(s, n, base) == {<<s, n>>} \union base

\* Child() loads the parent's context and derives the new one from it ...

Open(t, s) ==
    /\ tpc[t] = "run" /\ s \notin created /\ s # Root
    /\ Parent[s] = ecScope[t]
    /\ created' = created \union {s}
    /\ line' = [line EXCEPT ![s][0] =
                   WithCancel(s, 0, line[Parent[s]][gen[Parent[s]]])]
    /\ target' = [target EXCEPT ![t] = s]
    /\ tpc' = [tpc EXCEPT ![t] = "register"]
    /\ UNCHANGED <<gen, cancelled, children, blockVars, ecScope, op, loaded,
                   pending, visiting, asked>>

\* ... then adds it to the children and installs it on the ec.
OpenRegister(t) ==
    /\ tpc[t] = "register"
    /\ children' = [children EXCEPT ![ecScope[t]] = @ \union {target[t]}]
    /\ ecScope' = [ecScope EXCEPT ![t] = target[t]]
    /\ tpc' = [tpc EXCEPT ![t] = "run"]
    /\ UNCHANGED <<created, gen, line, cancelled, blockVars, op, target,
                   loaded, pending, visiting, asked>>

\* Scope.Cancel loads the state, then cancels what it loaded.  It is called
\* by CloseScoped, on a scope this thread has open (the innermost one when
\* with-scope is used), and by Thread.interrupt; never on the root.
CancelLoad(t, s, o) ==
    /\ tpc[t] = "run" /\ s # Root
    /\ \/ o = "close" /\ s \in Up[ecScope[t]]
       \/ o = "interrupt" /\ s = ecScope[t]
    /\ op' = [op EXCEPT ![t] = o]
    /\ target' = [target EXCEPT ![t] = s]
    /\ loaded' = [loaded EXCEPT ![t] = gen[s]]
    /\ asked' = asked \union {s}
    /\ tpc' = [tpc EXCEPT ![t] = "cancel"]
    /\ UNCHANGED <<treeVars, blockVars, ecScope, pending, visiting>>

\* Await(s) starts awaitTree at s.
StartAwait(t) ==
    /\ tpc' = [tpc EXCEPT ![t] = "wait"]
    /\ pending' = [pending EXCEPT ![t] = {target[t]}]

Loaded(t) == <<target[t], loaded[t]>>

Cancel(t) ==
    /\ tpc[t] = "cancel"
    /\ cancelled' = cancelled \union {Loaded(t)}
    /\ IF op[t] = "interrupt"
       THEN /\ tpc' = [tpc EXCEPT ![t] = "run"]
            /\ UNCHANGED pending
       ELSE StartAwait(t)
    /\ UNCHANGED <<created, gen, line, children, blockVars, ecScope, op,
                   target, loaded, visiting, asked>>

\* Drain: CancelAll loads the parent's context, swaps in a context derived
\* from it, cancels the displaced one; then Await.
CancelAllLoad(t, s) ==
    /\ tpc[t] = "run" /\ s \in created \intersect Drainable
    /\ gen[s] < MaxGen                                         \* bound
    /\ op' = [op EXCEPT ![t] = "drain"]
    /\ target' = [target EXCEPT ![t] = s]
    /\ loaded' = [loaded EXCEPT ![t] = IF s = Root THEN 0 ELSE gen[Parent[s]]]
    /\ asked' = asked \union {s}
    /\ tpc' = [tpc EXCEPT ![t] = "swap"]
    /\ UNCHANGED <<treeVars, blockVars, ecScope, pending, visiting>>

FreshGen(s) == gen[s] + 1

CancelAllSwap(t) ==
    LET s == target[t]
        n == FreshGen(s)
    IN  /\ tpc[t] = "swap"
        /\ gen[s] < MaxGen                                      \* bound
        /\ gen' = [gen EXCEPT ![s] = n]
        /\ line' = [line EXCEPT ![s][n] =
              WithCancel(s, n,
                  IF s = Root THEN {} ELSE line[Parent[s]][loaded[t]])]
        /\ loaded' = [loaded EXCEPT ![t] = gen[s]]
        /\ tpc' = [tpc EXCEPT ![t] = "cancelOld"]
        /\ UNCHANGED <<created, cancelled, children, blockVars, ecScope, op,
                       target, pending, visiting, asked>>

CancelAllCancel(t) ==
    /\ tpc[t] = "cancelOld"
    /\ cancelled' = cancelled \union {<<target[t], loaded[t]>>}
    /\ StartAwait(t)
    /\ UNCHANGED <<created, gen, line, children, blockVars, ecScope, op,
                   target, loaded, visiting, asked>>

-----------------------------------------------------------------------------
(* Await and awaitTree.  The order of siblings is Go's map order.          *)

Wait(t, s) ==
    /\ tpc[t] = "wait" /\ visiting[t] = None /\ s \in pending[t]
    /\ \A b \in Blocks : bscope[b] = s => ~Running(b)
    /\ visiting' = [visiting EXCEPT ![t] = s]
    /\ pending' = [pending EXCEPT ![t] = @ \ {s}]
    /\ UNCHANGED <<treeVars, blockVars, tpc, ecScope, op, target, loaded,
                   asked>>

MutIgnoresChildren(t) ==
    /\ tpc[t] = "wait" /\ visiting[t] # None
    /\ visiting' = [visiting EXCEPT ![t] = None]
    /\ UNCHANGED <<treeVars, blockVars, tpc, ecScope, op, target, loaded,
                   pending, asked>>

\* The children are read, under the mutex, after wg.Wait has returned.
Descend(t) ==
    /\ tpc[t] = "wait" /\ visiting[t] # None
    /\ pending' = [pending EXCEPT ![t] = @ \union children[visiting[t]]]
    /\ visiting' = [visiting EXCEPT ![t] = None]
    /\ UNCHANGED <<treeVars, blockVars, tpc, ecScope, op, target, loaded,
                   asked>>

AwaitTrue(t) ==
    /\ tpc[t] = "wait" /\ visiting[t] = None /\ pending[t] = {}
    /\ tpc' = [tpc EXCEPT ![t] = "awaited"]
    /\ UNCHANGED <<treeVars, blockVars, ecScope, op, target, loaded, pending,
                   visiting, asked>>

\* Await returns false; the goroutine that runs awaitTree is abandoned.
AwaitTimeout(t) ==
    /\ Timeouts /\ tpc[t] = "wait"
    /\ tpc' = [tpc EXCEPT ![t] = "stuck"]
    /\ pending' = [pending EXCEPT ![t] = {}]
    /\ visiting' = [visiting EXCEPT ![t] = None]
    /\ UNCHANGED <<treeVars, blockVars, ecScope, op, target, loaded, asked>>

\* After a drained or a timed-out Await: CloseScoped restores ec.scope and
\* unparents the child, Drain just returns.
Return(t) ==
    /\ tpc[t] \in {"awaited", "stuck"}
    /\ IF op[t] = "close"
       THEN /\ ecScope' = [ecScope EXCEPT ![t] = Parent[target[t]]]
            /\ children' = [children EXCEPT ![Parent[target[t]]] =
                               @ \ {target[t]}]
       ELSE UNCHANGED <<ecScope, children>>
    /\ op' = [op EXCEPT ![t] = "none"]
    /\ tpc' = [tpc EXCEPT ![t] = "run"]
    /\ UNCHANGED <<created, gen, line, cancelled, blockVars, target, loaded,
                   pending, visiting, asked>>

-----------------------------------------------------------------------------
\* The steps of an operation under way; only wg.Wait and a timeout can block.
Proceed(t) ==
    \/ OpenRegister(t) \/ Cancel(t) \/ CancelAllSwap(t) \/ CancelAllCancel(t)
    \/ \E s \in Scopes : Wait(t, s)
    \/ Descend(t) \/ AwaitTrue(t) \/ Return(t)
    \/ \E b \in Blocks : ThreadGoAdd(t, b)

Thread(t) ==
    \/ \E b \in Blocks : ThreadGo(t, b)
    \/ \E s \in Scopes : Open(t, s) \/ CancelAllLoad(t, s)
                       \/ \E o \in {"close", "interrupt"} : CancelLoad(t, s, o)
    \/ AwaitTimeout(t)
    \/ Proceed(t)

Block(b) ==
    \/ \E k \in Blocks : BlockGo(b, k) \/ BlockGoAdd(b, k)
    \/ Park(b) \/ Unpark(b) \/ Finish(b) \/ OpCancelled(b)
    \/ Taken(b) \/ SendCancelled(b)

Next ==
    \/ \E t \in Threads : Thread(t)
    \/ \E b \in Blocks : Block(b)

Spec == Init /\ [][Next]_vars

(* An operation under way goes on; a block that can run reaches its next   *)
(* channel operation or its end; a select whose context stays done takes   *)
(* that case in the end, even when the channel is ready each time (Go      *)
(* chooses among ready cases at random).  Nobody is obliged to serve a     *)
(* parked block or to take a result.                                       *)
Fairness ==
    /\ \A t \in Threads : WF_vars(Proceed(t))
    /\ \A b \in Blocks :
          /\ WF_vars(\E k \in Blocks : BlockGoAdd(b, k))
          /\ WF_vars(Park(b) \/ Finish(b))
          /\ SF_vars(OpCancelled(b))
          /\ WF_vars(SendCancelled(b))

FairSpec == Spec /\ Fairness

-----------------------------------------------------------------------------
(* Properties.                                                             *)

TypeOK ==
    /\ created \subseteq Scopes
    /\ gen \in [Scopes -> 0..MaxGen]
    /\ line \in [Scopes -> [0..MaxGen -> SUBSET Ctx]]
    /\ cancelled \subseteq Ctx
    /\ children \in [Scopes -> SUBSET Scopes]
    /\ bpc \in [Blocks -> BlockPcs]
    /\ bscope \in [Blocks -> Scopes]
    /\ bctx \in [Blocks -> 0..MaxGen]
    /\ bop \in [Blocks -> 0..MaxGen]
    /\ starter \in [Blocks -> Threads \union Blocks \union {None}]
    /\ tpc \in [Threads -> ThreadPcs]
    /\ ecScope \in [Threads -> Scopes]
    /\ op \in [Threads -> {"none", "close", "interrupt", "drain"}]
    /\ target \in [Threads -> Scopes]
    /\ loaded \in [Threads -> 0..MaxGen]
    /\ pending \in [Threads -> SUBSET Scopes]
    /\ visiting \in [Threads -> Scopes \union {None}]
    /\ asked \subseteq Scopes

(* "Sibling scopes are unaffected" (scope.go:28): the context of a go-block *)
(* ends only after a cancel was asked for on the block's own scope or on   *)
(* one of its ancestors, whatever is opened, drained or cancelled          *)
(* elsewhere.                                                              *)
SiblingsUnaffected ==
    \A b \in Blocks :
        Done(bscope[b], bctx[b]) \/ Done(bscope[b], bop[b])
            => Up[bscope[b]] \intersect asked # {}

(* "Cancelling a scope cancels its whole subtree" (scope.go:26), races     *)
(* included: the current context of every scope is derived, at each        *)
(* ancestor, from that ancestor's current generation - so a Cancel of the  *)
(* ancestor ends it - or from a displaced one that is cancelled or that a  *)
(* CancelAll in flight is about to cancel.                                 *)
CancelReachesSubtree ==
    \A s \in created : \A a \in Up[s] : \E k \in 0..MaxGen :
        /\ <<a, k>> \in line[s][gen[s]]
        /\ \/ k = gen[a]
           \/ <<a, k>> \in cancelled
           \/ \E t \in Threads : /\ tpc[t] = "cancelOld"
                                /\ target[t] = a /\ loaded[t] = k

(* A cancel ends the subtree it was asked for and nothing else.            *)
CancelIsExact == SiblingsUnaffected /\ CancelReachesSubtree

(* What with-scope is for ("both goroutines are cancelled and drained      *)
(* before this form returns", docs/guide/structured-concurrency.md:50):    *)
(* when CloseScoped's Await of a child scope returns true, no goroutine of *)
(* the scope or its subtree is running or about to start - although Go     *)
(* counts a goroutine only after loading its context, and goroutines spawn *)
(* goroutines while awaitTree walks the tree.  Scopes unparented after a   *)
(* timed-out close are not in the subtree any more: their stragglers are   *)
(* the ones the warning counts.                                            *)
Alive(b) == bpc[b] = "add" \/ Running(b)

InSubtree(s, a) ==
    a \in Up[s] /\ \A x \in Up[s] \ Up[a] : x \in children[Parent[x]]

ClosedScopeIsQuiet ==
    \A t \in Threads : tpc[t] = "awaited" /\ op[t] = "close" =>
        \A b \in Blocks : InSubtree(bscope[b], target[t]) => ~Alive(b)

(* Closing a scope ends ("a goroutine that only parks on a channel ...     *)
(* needs nothing - it unparks on its own", structured-concurrency.md:126): *)
(* with cooperative blocks CloseScoped returns without needing its timeout *)
(* even when blocks spawn more blocks after the cancel.                    *)
CloseTerminates ==
    \A t \in Threads : op[t] = "close" ~> tpc[t] = "run"

-----------------------------------------------------------------------------
(* The inductive strengthening used by ScopeProofs.                        *)

\* A context is derived from one context of each ancestor, and from no other.
TreeInv ==
    /\ Root \in created
    /\ \A s \in Scopes \ created : gen[s] = 0
    /\ \A s \in created :
          /\ Up[s] \subseteq created
          /\ \A n \in 0..gen[s] :
                /\ line[s][n] \subseteq Up[s] \X (0..MaxGen)
                /\ \A a \in Up[s] : \E k \in 0..gen[a] : <<a, k>> \in line[s][n]

\* A displaced context is cancelled or about to be.
DisplacedInv ==
    \A a \in Scopes, k \in 0..MaxGen : k < gen[a] =>
        \/ <<a, k>> \in cancelled
        \/ \E t \in Threads : /\ tpc[t] = "cancelOld"
                             /\ target[t] = a /\ loaded[t] = k

AskedInv == \A a \in Scopes, k \in 0..MaxGen : <<a, k>> \in cancelled => a \in asked

\* What a thread works on exists.
ThreadInv ==
    \A t \in Threads :
        /\ ecScope[t] \in created
        /\ tpc[t] = "register" => target[t] \in created
        /\ tpc[t] \in {"cancel", "swap", "cancelOld"} =>
              target[t] \in created \intersect asked
        /\ tpc[t] = "swap" /\ target[t] # Root =>
              loaded[t] <= gen[Parent[target[t]]]
        /\ tpc[t] \in {"run", "spawning", "register"} =>
              op[t] \in {"none", "interrupt"}
        /\ op[t] = "close" => target[t] \in created \ {Root}

\* A block's contexts are contexts its scope has had.
BlockInv ==
    \A b \in Blocks :
        /\ bscope[b] \in created
        /\ bctx[b] <= gen[bscope[b]]
        /\ bop[b] <= gen[bscope[b]]
        /\ bpc[b] = "none" => bop[b] = 0

IInv == TypeOK /\ TreeInv /\ DisplacedInv /\ AskedInv /\ ThreadInv /\ BlockInv

\* Only a child is registered with a scope.
ChildInv ==
    \A s \in Scopes : \A c \in children[s] : c # Root /\ Parent[c] = s

\* A thread has a branch of the tree to itself, down to the scope it has open
\* or is opening; it closes a scope of that branch.
BranchInv ==
    \A t \in Threads :
        /\ op[t] = "close" => target[t] \in Up[ecScope[t]]
        /\ tpc[t] = "register" => /\ target[t] # Root
                                 /\ Parent[target[t]] = ecScope[t]
        /\ \A u \in Threads \ {t} :
              /\ Up[ecScope[t]] \intersect Up[ecScope[u]] = {Root}
              /\ tpc[t] = "register" => target[t] \notin Up[ecScope[u]]
              /\ tpc[t] = "register" /\ tpc[u] = "register" =>
                    target[t] # target[u]

\* A block that is not yet counted has a starter of its own, which is inside
\* Go for its own scope or for the root.
StarterInv ==
    \A b \in Blocks : bpc[b] = "add" =>
        /\ \/ /\ starter[b] \in Threads
              /\ tpc[starter[b]] = "spawning"
              /\ bscope[b] \in {ecScope[starter[b]], Root}
           \/ /\ starter[b] \in Blocks
              /\ bpc[starter[b]] = "spawning"
              /\ bscope[b] \in {bscope[starter[b]], Root}
        /\ \A k \in Blocks \ {b} : bpc[k] = "add" => starter[k] # starter[b]

QuietScope(s) == \A b \in Blocks : bscope[b] = s => ~Alive(b)

\* A scope is quiet, or below a scope the walk has still to visit, or below the
\* one whose children it is about to read.
Covered(x, t) ==
    \/ QuietScope(x)
    \/ \E y \in pending[t] : y \in Up[x]
    \/ visiting[t] \in Up[x] \ {x}

\* The walk of a close stays below the scope it closes, and covers it.
WalkInv ==
    \A t \in Threads :
        /\ tpc[t] # "wait" => visiting[t] = None
        /\ tpc[t] = "awaited" => pending[t] = {}
        /\ tpc[t] \in {"wait", "awaited"} /\ op[t] = "close" =>
              /\ \A y \in pending[t] : target[t] \in Up[y]
              /\ visiting[t] # None => target[t] \in Up[visiting[t]]
              /\ \A x \in Scopes : InSubtree(x, target[t]) => Covered(x, t)

QuietInv == ChildInv /\ BranchInv /\ StarterInv /\ WalkInv

=============================================================================
