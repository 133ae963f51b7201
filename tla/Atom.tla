-------------------------------- MODULE Atom --------------------------------
(***************************************************************************)
(* pkg/vm/atom.go: swap!, reset!, compare-and-set! and their -vals!        *)
(* variants (pkg/rt/lang.go) on one atom, called by several goroutines.    *)
(* swap! calls its function and the validator outside the mutex and        *)
(* commits only if the generation counter has not moved; the watches are   *)
(* called after the mutex has been released.                               *)
(*                                                                         *)
(* A section between Lock and Unlock is one step, except where something   *)
(* else can happen inside it: the write of the watch map, which            *)
(* notifyWatches reads without the mutex, and the comparison of            *)
(* compare-and-set!, which panics on values Go cannot compare (vectors)    *)
(* and leaves the mutex locked, while the caller recovers.                 *)
(***************************************************************************)
EXTENDS Integers

CONSTANTS
    Threads, Values,
    Valid,           \* the values the validator accepts
    Fns,             \* what swap! is called with; a function that throws is
                     \* one whose result is not valid
    Uncomparable,    \* the values whose Go type has no ==
    Keys,            \* the keys of the watches
    MaxOps,          \* bound: operations per thread
    Idle, Free, Leaked

ASSUME AtomConstants ==
    /\ Valid \subseteq Values /\ Uncomparable \subseteq Values
    /\ Fns \subseteq [Values -> Values]
    /\ Keys # {} /\ MaxOps \in Nat
    /\ Free \notin Threads /\ Leaked \notin Threads /\ Free # Leaked

Swaps == [kind : {"swap", "swapVals"}, fn : Fns]
Resets == [kind : {"reset", "resetVals"}, to : Values]
Cases == [kind : {"cas"}, from : Values, to : Values]
Updates == Swaps \union Resets \union Cases

ASSUME IdleAssumption == Idle \notin Updates

VARIABLES
    val, gen,
    watches,         \* the keys of the watch map
    mu,              \* Free, the thread that writes the watch map, or Leaked
    crashed,         \* the Go runtime has ended the process
    pc, n,           \* thread -> where it is, operations started
    op,              \* thread -> its update
    snap,            \* thread -> oldVal and oldGen in Swap
    seen,            \* thread -> what -vals! read first, and gen then
    told,            \* thread -> old and new value its last update published
    made,            \* history: thread -> gen after that update
    ret              \* thread -> what its last update answered

vars == <<val, gen, watches, mu, crashed, pc, n, op, snap, seen, told, made, ret>>

Init ==
    /\ val \in Valid /\ gen = 0
    /\ watches = {} /\ mu = Free /\ crashed = FALSE
    /\ pc = [t \in Threads |-> "idle"]
    /\ n = [t \in Threads |-> 0]
    /\ op = [t \in Threads |-> Idle]
    /\ snap = [t \in Threads |-> <<val, 0>>]
    /\ seen = [t \in Threads |-> <<val, 0>>]
    /\ told = [t \in Threads |-> <<val, val>>]
    /\ made = [t \in Threads |-> 0]
    /\ ret = [t \in Threads |-> "none"]

Goto(t, where) == pc' = [pc EXCEPT ![t] = where]

\* The value an update makes of v, and whether it is a -vals! call.
Result(o, v) == IF o \in Swaps THEN o.fn[v] ELSE o.to

IsVals(o) == o.kind \in {"swapVals", "resetVals"}

Entry(o) ==
    IF o \in Swaps THEN "swap" ELSE IF o \in Resets THEN "reset" ELSE "cas"

\* compare-and-set!: the value is the expected one; comparing them panics.
Applies(o, v) == o \in Cases => v = o.from

Panics(o, v) == o \in Cases /\ {o.from, v} \subseteq Uncomparable

Fails(o, v) == Result(o, v) \notin Valid \/ Panics(o, v)

-----------------------------------------------------------------------------
(* The updates.                                                            *)

Begin(t, o) ==
    /\ pc[t] = "idle" /\ n[t] < MaxOps                          \* bound
    /\ n' = [n EXCEPT ![t] = @ + 1]
    /\ op' = [op EXCEPT ![t] = o]
    /\ Goto(t, IF IsVals(o) THEN "vals" ELSE Entry(o))
    /\ UNCHANGED <<val, gen, watches, mu, crashed, snap, seen, told, made, ret>>

MutValsCached(t) ==
    /\ pc[t] = "vals" /\ mu = Free
    /\ seen' = [seen EXCEPT ![t] = <<told[t][2], gen>>]
    /\ Goto(t, Entry(op[t]))
    /\ UNCHANGED <<val, gen, watches, mu, crashed, n, op, snap, told, made, ret>>

\* old := at.Deref(), before the Swap or the Reset.
ValsDeref(t) ==
    /\ pc[t] = "vals" /\ mu = Free
    /\ seen' = [seen EXCEPT ![t] = <<val, gen>>]
    /\ Goto(t, Entry(op[t]))
    /\ UNCHANGED <<val, gen, watches, mu, crashed, n, op, snap, told, made, ret>>

Return(t, answer) ==
    /\ ret' = [ret EXCEPT ![t] = answer]
    /\ Goto(t, "idle")
    /\ UNCHANGED <<val, gen, watches, crashed, n, op, snap, seen, told, made>>

\* What Swap, Reset and CompareAndSet do under the mutex when they set the
\* value; the watches are called afterwards if there are any.
Publish(t, old, new) ==
    /\ val' = new /\ gen' = gen + 1
    /\ told' = [told EXCEPT ![t] = <<old, new>>]
    /\ made' = [made EXCEPT ![t] = gen + 1]
    /\ ret' = [ret EXCEPT ![t] = "done"]
    /\ Goto(t, IF watches = {} THEN "idle" ELSE "notify")
    /\ UNCHANGED <<watches, mu, crashed, n, op, snap, seen>>

\* The snapshot, the call of the function and the validator's verdict.
Snapshot(t) ==
    /\ pc[t] = "swap" /\ mu = Free
    /\ Result(op[t], val) \in Valid
    /\ snap' = [snap EXCEPT ![t] = <<val, gen>>]
    /\ Goto(t, "commit")
    /\ UNCHANGED <<val, gen, watches, mu, crashed, n, op, seen, told, made, ret>>

SwapRejected(t) ==
    /\ pc[t] = "swap" /\ mu = Free
    /\ Result(op[t], val) \notin Valid
    /\ Return(t, "error") /\ UNCHANGED mu

MutNoGeneration(t) ==
    /\ pc[t] = "commit" /\ mu = Free
    /\ Publish(t, snap[t][1], Result(op[t], snap[t][1]))

CommitSwap(t) ==
    /\ pc[t] = "commit" /\ mu = Free
    /\ gen = snap[t][2]
    /\ Publish(t, snap[t][1], Result(op[t], snap[t][1]))

MutKeepsSnapshot(t) ==
    /\ pc[t] = "commit" /\ mu = Free
    /\ gen # snap[t][2]
    /\ UNCHANGED vars

RetrySwap(t) ==
    /\ pc[t] = "commit" /\ mu = Free
    /\ gen # snap[t][2]
    /\ Goto(t, "swap")
    /\ UNCHANGED <<val, gen, watches, mu, crashed, n, op, snap, seen, told, made, ret>>

Reset(t) ==
    /\ pc[t] = "reset"
    /\ \/ /\ op[t].to \notin Valid
          /\ Return(t, "error") /\ UNCHANGED mu
       \/ /\ op[t].to \in Valid /\ mu = Free
          /\ Publish(t, val, op[t].to)

CompareAndSet(t) ==
    /\ pc[t] = "cas"
    /\ \/ /\ op[t].to \notin Valid
          /\ Return(t, "error") /\ UNCHANGED mu
       \/ /\ op[t].to \in Valid /\ mu = Free
          /\ \/ /\ Panics(op[t], val)
                /\ mu' = Leaked /\ Return(t, "error")
             \/ /\ ~Panics(op[t], val) /\ val # op[t].from
                /\ Return(t, "false") /\ UNCHANGED mu
             \/ /\ ~Panics(op[t], val) /\ val = op[t].from
                /\ Publish(t, val, op[t].to)

-----------------------------------------------------------------------------
(* The watches.                                                            *)

\* notifyWatches has called every watch, or one that returned an error.
NotifyEnd(t) ==
    /\ pc[t] = "notify"
    /\ Goto(t, "idle")
    /\ UNCHANGED <<val, gen, watches, mu, crashed, n, op, snap, seen, told, made, ret>>

\* "fatal error: concurrent map iteration and map write": the loop of
\* notifyWatches meets the write of AddWatch or RemoveWatch.
NotifyRace(t) ==
    /\ pc[t] = "notify" /\ mu \in Threads
    /\ crashed' = TRUE
    /\ UNCHANGED <<val, gen, watches, mu, pc, n, op, snap, seen, told, made, ret>>

\* AddWatch and RemoveWatch.
WatchLock(t) ==
    /\ pc[t] = "idle" /\ n[t] < MaxOps                          \* bound
    /\ mu = Free /\ mu' = t
    /\ n' = [n EXCEPT ![t] = @ + 1]
    /\ Goto(t, "watch")
    /\ UNCHANGED <<val, gen, watches, crashed, op, snap, seen, told, made, ret>>

WatchWrite(t) ==
    /\ pc[t] = "watch"
    /\ \E k \in Keys : watches' \in {watches \union {k}, watches \ {k}}
    /\ mu' = Free
    /\ Goto(t, "idle")
    /\ UNCHANGED <<val, gen, crashed, n, op, snap, seen, told, made, ret>>

Step(t) ==
    /\ ~crashed
    /\ \/ ValsDeref(t) \/ Snapshot(t) \/ SwapRejected(t) \/ CommitSwap(t)
       \/ RetrySwap(t) \/ Reset(t) \/ CompareAndSet(t)
       \/ NotifyEnd(t) \/ NotifyRace(t) \/ WatchWrite(t)

Call(t) ==
    /\ ~crashed
    /\ WatchLock(t) \/ \E o \in Updates : Begin(t, o)

Next == \E t \in Threads : Step(t) \/ Call(t)

Spec == Init /\ [][Next]_vars

\* A thread inside an operation goes on when the mutex is free.
Fairness == \A t \in Threads : WF_vars(Step(t))

FairSpec == Spec /\ Fairness

-----------------------------------------------------------------------------
(* Properties.                                                             *)

TypeOK ==
    /\ val \in Valid /\ gen \in Nat
    /\ watches \subseteq Keys
    /\ mu \in Threads \union {Free, Leaked}
    /\ crashed \in BOOLEAN
    /\ pc \in [Threads -> {"idle", "vals", "swap", "commit", "reset", "cas",
                           "notify", "watch"}]
    /\ n \in [Threads -> 0..MaxOps]
    /\ op \in [Threads -> Updates \union {Idle}]
    /\ snap \in [Threads -> Valid \X Nat]
    /\ seen \in [Threads -> Valid \X Nat]
    /\ told \in [Threads -> Valid \X Valid]
    /\ made \in [Threads -> Nat]
    /\ ret \in [Threads -> {"none", "done", "false", "error"}]

Updating == {"vals", "swap", "commit", "reset", "cas"}

call == [t \in Threads |-> IF pc[t] \in Updating THEN op[t] ELSE Idle]

Ref == INSTANCE AtomicRef

(* "Swap applies fn to the current value and atomically sets the result"   *)
(* (atom.go:151): the atom implements the atomic reference.  No update is  *)
(* lost although the function runs outside the mutex, the old value that   *)
(* Swap gives the watches is the one it replaced although it was read in   *)
(* an earlier critical section, and a swap! that fails does so on a value  *)
(* the atom held during the call.                                          *)
IsAtomic == Ref!Spec

(* What swap-vals! and reset-vals! guarantee: the old value they answer is *)
(* the one they replaced when no other update was made since they read it. *)
ValsOldIsReplaced ==
    \A t \in Threads :
        /\ pc[t] \notin Updating /\ op[t] # Idle /\ IsVals(op[t])
        /\ ret[t] = "done" /\ made[t] = seen[t][2] + 1
        => seen[t][1] = told[t][1]

(* Every update returns, however often a swap! is overtaken: each retry is *)
(* due to an update that was made.                                         *)
UpdatesReturn ==
    \A t \in Threads : pc[t] # "idle" ~> pc[t] = "idle" \/ crashed

-----------------------------------------------------------------------------
(* The inductive strengthening used by AtomProofs.                         *)

\* An update is where its kind of call can be.
OpInv ==
    \A t \in Threads :
        /\ pc[t] = "vals" => op[t] \in Updates
        /\ pc[t] \in {"swap", "commit"} => op[t] \in Swaps
        /\ pc[t] = "reset" => op[t] \in Resets
        /\ pc[t] = "cas" => op[t] \in Cases
        /\ pc[t] = "commit" => Result(op[t], snap[t][1]) \in Valid

\* A generation stands for one value: whoever read the value in the present
\* generation read the present value.
GenInv ==
    \A t \in Threads :
        /\ snap[t][2] <= gen /\ (snap[t][2] = gen => snap[t][1] = val)
        /\ seen[t][2] <= gen /\ (seen[t][2] = gen => seen[t][1] = val)

IInv == TypeOK /\ OpInv /\ GenInv /\ ValsOldIsReplaced
=============================================================================
