----------------------------- MODULE AtomProofs -----------------------------
(***************************************************************************)
(* Proofs about Atom: for any number of threads, any functions and any     *)
(* validator the atom implements the atomic reference.                     *)
(*                                                                         *)
(* The argument is GenInv: the generation counter moves with every update, *)
(* so a snapshot whose generation is the present one holds the present     *)
(* value, and a swap! that commits under that condition applies its        *)
(* function to the value it replaces.                                      *)
(***************************************************************************)
EXTENDS Atom, TLAPS

(* The three kinds of updates are told apart by their records.             *)
LEMMA Kinds ==
    /\ \A o \in Resets : o \notin Swaps /\ o \notin Cases /\ o.to \in Values
    /\ \A o \in Swaps : o \notin Resets /\ o \notin Cases
    /\ \A o \in Cases : o \notin Swaps /\ o \notin Resets /\ o.to \in Values
BY DEF Swaps, Resets, Cases

(* A call goes to the code of its kind.                                    *)
LEMMA Entries ==
    ASSUME NEW o \in Updates
    PROVE  \/ Entry(o) = "swap" /\ o \in Swaps
           \/ Entry(o) = "reset" /\ o \in Resets
           \/ Entry(o) = "cas" /\ o \in Cases
BY Kinds DEF Entry, Updates

(* The initial states satisfy the invariant.                               *)
LEMMA InitInv == Init => IInv
<1> SUFFICES ASSUME Init PROVE IInv
  OBVIOUS
<1>1. TypeOK
  <2>1. crashed \in BOOLEAN
    BY DEF Init
  <2>2. /\ val \in Valid /\ gen \in Nat /\ watches \subseteq Keys /\ mu = Free
        /\ n \in [Threads -> 0..MaxOps] /\ made \in [Threads -> Nat]
        /\ snap \in [Threads -> Valid \X Nat]
        /\ seen \in [Threads -> Valid \X Nat]
        /\ told \in [Threads -> Valid \X Valid]
    BY AtomConstants DEF Init
  <2>3. /\ pc \in [Threads -> {"idle", "vals", "swap", "commit", "reset",
                               "cas", "notify", "watch"}]
        /\ op \in [Threads -> Updates \union {Idle}]
        /\ ret \in [Threads -> {"none", "done", "false", "error"}]
    BY DEF Init
  <2> QED
    BY <2>1, <2>2, <2>3 DEF TypeOK
<1>2. OpInv
  BY DEF Init, OpInv
<1>3. GenInv
  <2>1. \A t \in Threads : /\ snap[t][1] = val /\ snap[t][2] = 0
                           /\ seen[t][1] = val /\ seen[t][2] = 0
    BY DEF Init
  <2>2. gen = 0
    BY DEF Init
  <2>3. ASSUME NEW t \in Threads
        PROVE  /\ snap[t][2] <= gen /\ snap[t][1] = val
               /\ seen[t][2] <= gen /\ seen[t][1] = val
    <3>1. snap[t][2] = 0 /\ seen[t][2] = 0 /\ 0 <= gen
      BY <2>1, <2>2
    <3> QED
      BY <2>1, <3>1
  <2> QED
    BY <2>3 DEF GenInv
<1>4. ValsOldIsReplaced
  BY DEF Init, ValsOldIsReplaced
<1> QED
  BY <1>1, <1>2, <1>3, <1>4 DEF IInv

(* The effect of an update on the invariant, whichever call makes it: the  *)
(* value it replaces is the present one, the new value is valid.           *)
LEMMA PublishInv ==
    ASSUME IInv, NEW t \in Threads, pc[t] \in Updating,
           NEW new \in Valid, Publish(t, val, new)
    PROVE  IInv'
<1> USE DEF IInv, Publish, Goto
<1>1. TypeOK'
  BY DEF TypeOK
<1>2. OpInv'
  BY DEF OpInv, TypeOK
<1>3. GenInv'
  BY DEF GenInv, TypeOK
<1>4. ValsOldIsReplaced'
  <2> SUFFICES ASSUME NEW u \in Threads,
                      pc'[u] \notin Updating, op'[u] # Idle, IsVals(op'[u]),
                      ret'[u] = "done", made'[u] = seen'[u][2] + 1
               PROVE  seen'[u][1] = told'[u][1]
    BY DEF ValsOldIsReplaced
  <2>1. CASE u = t
    <3>1. made'[t] = gen + 1 /\ seen' = seen /\ told'[t] = <<val, new>>
      BY DEF TypeOK
    <3>2. seen[t][2] \in Nat /\ gen \in Nat
      BY DEF TypeOK
    <3>3. seen[t][2] = gen
      BY <2>1, <3>1, <3>2
    <3> QED
      BY <2>1, <3>1, <3>3 DEF GenInv
  <2>2. CASE u # t
    BY <2>2 DEF ValsOldIsReplaced, TypeOK
  <2> QED
    BY <2>1, <2>2
<1> QED
  BY <1>1, <1>2, <1>3, <1>4

(* An update that returns without having changed the atom.                 *)
LEMMA ReturnInv ==
    ASSUME IInv, NEW t \in Threads, pc[t] \in Updating,
           NEW a \in {"false", "error"}, Return(t, a),
           mu' \in Threads \union {Free, Leaked}
    PROVE  IInv'
<1> USE DEF IInv, Return, Goto
<1>1. TypeOK'
  BY DEF TypeOK
<1>2. OpInv'
  BY DEF OpInv, TypeOK
<1>3. GenInv'
  BY DEF GenInv
<1>4. ValsOldIsReplaced'
  BY DEF ValsOldIsReplaced, TypeOK
<1> QED
  BY <1>1, <1>2, <1>3, <1>4

(* A swap! that commits replaces the value of its snapshot, and makes of   *)
(* it a valid one.                                                         *)
LEMMA CommitFacts ==
    ASSUME IInv, NEW t \in Threads, CommitSwap(t)
    PROVE  /\ snap[t][1] = val /\ op[t] \in Swaps
           /\ Result(op[t], val) \in Valid
           /\ Publish(t, val, Result(op[t], val))
BY DEF IInv, CommitSwap, OpInv, GenInv

(* Each step of an operation keeps the invariant.                          *)
LEMMA StepInv ==
    ASSUME IInv, NEW t \in Threads, Step(t)
    PROVE  IInv'
<1> USE DEF IInv
<1>1. CASE ValsDeref(t)
  <2> USE DEF ValsDeref, Goto
  <2>0. op[t] \in Updates
    BY <1>1 DEF OpInv
  <2>1. TypeOK'
    BY <1>1, <2>0, Entries DEF TypeOK
  <2>2. OpInv'
    BY <1>1, <2>0, Entries DEF OpInv, TypeOK
  <2>3. GenInv'
    BY <1>1 DEF GenInv, TypeOK
  <2>4. ValsOldIsReplaced'
    BY <1>1, <2>0, Entries DEF ValsOldIsReplaced, TypeOK, Updating
  <2> QED
    BY <2>1, <2>2, <2>3, <2>4
<1>2. CASE Snapshot(t)
  <2> USE DEF Snapshot, Goto
  <2>1. TypeOK'
    BY <1>2 DEF TypeOK
  <2>2. OpInv'
    BY <1>2 DEF OpInv, TypeOK
  <2>3. GenInv'
    BY <1>2 DEF GenInv, TypeOK
  <2>4. ValsOldIsReplaced'
    BY <1>2 DEF ValsOldIsReplaced, TypeOK, Updating
  <2> QED
    BY <2>1, <2>2, <2>3, <2>4
<1>3. CASE SwapRejected(t)
  BY <1>3, ReturnInv DEF SwapRejected, Updating, TypeOK
<1>4. CASE CommitSwap(t)
  <2>1. pc[t] \in Updating
    BY <1>4 DEF CommitSwap, Updating
  <2> QED
    BY <1>4, <2>1, CommitFacts, PublishInv
<1>5. CASE RetrySwap(t)
  <2> USE DEF RetrySwap, Goto
  <2>1. TypeOK'
    BY <1>5 DEF TypeOK
  <2>2. OpInv'
    BY <1>5 DEF OpInv, TypeOK
  <2>3. GenInv'
    BY <1>5 DEF GenInv
  <2>4. ValsOldIsReplaced'
    BY <1>5 DEF ValsOldIsReplaced, TypeOK, Updating
  <2> QED
    BY <2>1, <2>2, <2>3, <2>4
<1>6. CASE Reset(t)
  <2>1. pc[t] \in Updating
    BY <1>6 DEF Reset, Updating
  <2>2. CASE op[t].to \in Valid
    BY <1>6, <2>1, <2>2, PublishInv DEF Reset
  <2>3. CASE op[t].to \notin Valid
    BY <1>6, <2>1, <2>3, ReturnInv DEF Reset, TypeOK
  <2> QED
    BY <2>2, <2>3
<1>7. CASE CompareAndSet(t)
  <2>1. pc[t] \in Updating
    BY <1>7 DEF CompareAndSet, Updating
  <2>2. CASE op[t].to \in Valid /\ Publish(t, val, op[t].to)
    BY <2>1, <2>2, PublishInv
  <2>3. CASE Return(t, "error") /\ mu' \in {mu, Leaked}
    BY <2>1, <2>3, ReturnInv DEF TypeOK
  <2>4. CASE Return(t, "false") /\ mu' = mu
    BY <2>1, <2>4, ReturnInv DEF TypeOK
  <2> QED
    BY <1>7, <2>2, <2>3, <2>4 DEF CompareAndSet
<1>8. CASE NotifyEnd(t)
  <2> USE DEF NotifyEnd, Goto
  <2>1. TypeOK'
    BY <1>8 DEF TypeOK
  <2>2. OpInv'
    BY <1>8 DEF OpInv, TypeOK
  <2>3. GenInv'
    BY <1>8 DEF GenInv
  <2>4. ValsOldIsReplaced'
    BY <1>8 DEF ValsOldIsReplaced, TypeOK, Updating
  <2> QED
    BY <2>1, <2>2, <2>3, <2>4
<1>9. CASE NotifyRace(t)
  <2>1. TypeOK'
    BY <1>9 DEF NotifyRace, TypeOK
  <2>2. OpInv' /\ GenInv' /\ ValsOldIsReplaced'
    BY <1>9 DEF NotifyRace, OpInv, GenInv, ValsOldIsReplaced
  <2> QED
    BY <2>1, <2>2
<1>10. CASE WatchWrite(t)
  <2> USE DEF WatchWrite, Goto
  <2>1. TypeOK'
    <3>1. watches' \subseteq Keys
      BY <1>10 DEF TypeOK
    <3> QED
      BY <1>10, <3>1 DEF TypeOK
  <2>2. OpInv'
    BY <1>10 DEF OpInv, TypeOK
  <2>3. GenInv'
    BY <1>10 DEF GenInv
  <2>4. ValsOldIsReplaced'
    BY <1>10 DEF ValsOldIsReplaced, TypeOK, Updating
  <2> QED
    BY <2>1, <2>2, <2>3, <2>4
<1> QED
  BY <1>1, <1>2, <1>3, <1>4, <1>5, <1>6, <1>7, <1>8, <1>9, <1>10 DEF Step

(* Starting an operation keeps the invariant.                              *)
LEMMA CallInv ==
    ASSUME IInv, NEW t \in Threads, Call(t)
    PROVE  IInv'
<1> USE DEF IInv
<1>1. ASSUME NEW o \in Updates, Begin(t, o) PROVE IInv'
  <2> USE DEF Begin, Goto
  <2>0. n[t] + 1 \in 0..MaxOps
    BY <1>1, AtomConstants DEF TypeOK
  <2>1. TypeOK'
    BY <1>1, <2>0, Entries DEF TypeOK
  <2>2. OpInv'
    BY <1>1, Entries DEF OpInv, TypeOK
  <2>3. GenInv'
    BY <1>1 DEF GenInv
  <2>4. ValsOldIsReplaced'
    BY <1>1, Entries DEF ValsOldIsReplaced, TypeOK, Updating
  <2> QED
    BY <2>1, <2>2, <2>3, <2>4
<1>2. CASE WatchLock(t)
  <2> USE DEF WatchLock, Goto
  <2>0. n[t] + 1 \in 0..MaxOps
    BY <1>2, AtomConstants DEF TypeOK
  <2>1. TypeOK'
    BY <1>2, <2>0 DEF TypeOK
  <2>2. OpInv'
    BY <1>2 DEF OpInv, TypeOK
  <2>3. GenInv'
    BY <1>2 DEF GenInv
  <2>4. ValsOldIsReplaced'
    BY <1>2 DEF ValsOldIsReplaced, TypeOK, Updating
  <2> QED
    BY <2>1, <2>2, <2>3, <2>4
<1> QED
  BY <1>1, <1>2 DEF Call

(* The invariant is inductive.                                             *)
LEMMA NextInv == IInv /\ [Next]_vars => IInv'
<1> SUFFICES ASSUME IInv, [Next]_vars PROVE IInv'
  OBVIOUS
<1>1. CASE Next
  BY <1>1, StepInv, CallInv DEF Next
<1>2. CASE UNCHANGED vars
  BY <1>2 DEF IInv, TypeOK, OpInv, GenInv, ValsOldIsReplaced, vars
<1> QED
  BY <1>1, <1>2

(* The atom maintains its inductive invariant.                             *)
THEOREM InductiveInvariant == Spec => []IInv
BY InitInv, NextInv, PTL DEF Spec

(* Every reachable state is well typed; in particular the atom never holds *)
(* a value the validator rejects.                                          *)
THEOREM TypeCorrect == Spec => []TypeOK
<1>1. IInv => TypeOK
  BY DEF IInv
<1> QED
  BY <1>1, InductiveInvariant, PTL

(* The pair that swap-vals! and reset-vals! answer is a step of the atom   *)
(* whenever nobody else updated it since they read the old value.          *)
THEOREM ValsPair == Spec => []ValsOldIsReplaced
<1>1. IInv => ValsOldIsReplaced
  BY DEF IInv
<1> QED
  BY <1>1, InductiveInvariant, PTL

-----------------------------------------------------------------------------
(* Refinement.  A call ends, in the atomic reference, when the thread      *)
(* leaves the places where its update is under way.                        *)
LEMMA CallEnds ==
    ASSUME TypeOK, NEW t \in Threads, NEW where, where \notin Updating,
           pc' = [pc EXCEPT ![t] = where], op' = op
    PROVE  call' = [call EXCEPT ![t] = Idle]
BY DEF call, TypeOK

(* A step inside an update leaves the call alone.                          *)
LEMMA CallStays ==
    ASSUME TypeOK, NEW t \in Threads, NEW where,
           pc[t] \in Updating <=> where \in Updating, op' = op,
           pc' = [pc EXCEPT ![t] = where]
    PROVE  call' = call
BY DEF call, TypeOK

(* An update that is made is the commit of the atomic reference.           *)
LEMMA PublishCommits ==
    ASSUME IInv, NEW t \in Threads, pc[t] \in Updating, op[t] \in Updates,
           ~Fails(op[t], val), Applies(op[t], val),
           Publish(t, val, Result(op[t], val))
    PROVE  Ref!Next
<1>1. call[t] = op[t] /\ op[t] # Idle
  BY IdleAssumption DEF call
<1>2. call' = [call EXCEPT ![t] = Idle]
  <2> DEFINE where == IF watches = {} THEN "idle" ELSE "notify"
  <2>1. where \notin Updating /\ pc' = [pc EXCEPT ![t] = where] /\ op' = op
    BY DEF Publish, Goto, Updating
  <2> HIDE DEF where
  <2> QED
    BY <2>1, CallEnds DEF IInv
<1>3. Ref!Commit(t)
  BY <1>1, <1>2 DEF Ref!Commit, Ref!End, Publish
<1> QED
  BY <1>3 DEF Ref!Next

(* A call that answers without an update declines or fails in the atomic   *)
(* reference.                                                              *)
LEMMA ReturnRefines ==
    ASSUME IInv, NEW t \in Threads, pc[t] \in Updating, op[t] \in Updates,
           NEW a, Return(t, a),
           \/ a = "error" /\ Fails(op[t], val)
           \/ a = "false" /\ ~Applies(op[t], val)
    PROVE  Ref!Next
<1>1. call[t] = op[t] /\ op[t] # Idle
  BY IdleAssumption DEF call
<1>2. call' = [call EXCEPT ![t] = Idle]
  BY CallEnds DEF IInv, Return, Goto, Updating
<1>3. Ref!Fail(t) \/ Ref!Decline(t)
  BY <1>1, <1>2 DEF Ref!Fail, Ref!Decline, Ref!End, Return
<1> QED
  BY <1>3 DEF Ref!Next

(* Every step of an operation is a step of the atomic reference or leaves  *)
(* it alone.                                                               *)
LEMMA StepRefines ==
    ASSUME IInv, NEW t \in Threads, Step(t)
    PROVE  [Ref!Next]_<<val, call, told, ret>>
<1> USE DEF IInv
<1>1. CASE ValsDeref(t)
  <2>1. op[t] \in Updates
    BY <1>1 DEF ValsDeref, OpInv
  <2>2. call' = call
    BY <1>1, <2>1, Entries, CallStays DEF ValsDeref, Goto, Updating
  <2> QED
    BY <1>1, <2>2 DEF ValsDeref
<1>2. CASE Snapshot(t)
  <2>1. call' = call
    BY <1>2, CallStays DEF Snapshot, Goto, Updating
  <2> QED
    BY <1>2, <2>1 DEF Snapshot
<1>3. CASE SwapRejected(t)
  BY <1>3, ReturnRefines DEF SwapRejected, OpInv, Updating, Updates, Fails
<1>4. CASE CommitSwap(t)
  <2>1. pc[t] \in Updating
    BY <1>4 DEF CommitSwap, Updating
  <2>2. ~Fails(op[t], val) /\ Applies(op[t], val) /\ op[t] \in Updates
    BY <1>4, CommitFacts, Kinds DEF Fails, Panics, Applies, Updates
  <2> QED
    BY <1>4, <2>1, <2>2, CommitFacts, PublishCommits
<1>5. CASE RetrySwap(t)
  <2>1. call' = call
    BY <1>5, CallStays DEF RetrySwap, Goto, Updating
  <2> QED
    BY <1>5, <2>1 DEF RetrySwap
<1>6. CASE Reset(t)
  <2>1. pc[t] \in Updating /\ op[t] \in Resets
    BY <1>6 DEF Reset, Updating, OpInv
  <2>2. Result(op[t], val) = op[t].to /\ op[t] \in Updates
    BY <2>1, Kinds DEF Result, Updates
  <2>3. CASE op[t].to \in Valid /\ Publish(t, val, op[t].to)
    <3>1. ~Fails(op[t], val) /\ Applies(op[t], val)
      BY <2>1, <2>2, <2>3, Kinds DEF Fails, Panics, Applies
    <3> QED
      BY <2>1, <2>2, <2>3, <3>1, PublishCommits
  <2>4. CASE op[t].to \notin Valid /\ Return(t, "error")
    BY <2>1, <2>2, <2>4, ReturnRefines DEF Fails
  <2> QED
    BY <1>6, <2>3, <2>4 DEF Reset
<1>7. CASE CompareAndSet(t)
  <2>1. pc[t] \in Updating /\ op[t] \in Cases
    BY <1>7 DEF CompareAndSet, Updating, OpInv
  <2>2. Result(op[t], val) = op[t].to /\ op[t] \in Updates
    BY <2>1, Kinds DEF Result, Updates
  <2>3. CASE /\ op[t].to \in Valid /\ Publish(t, val, op[t].to)
             /\ ~Panics(op[t], val) /\ val = op[t].from
    <3>1. ~Fails(op[t], val) /\ Applies(op[t], val)
      BY <2>2, <2>3 DEF Fails, Applies
    <3> QED
      BY <2>1, <2>2, <2>3, <3>1, PublishCommits
  <2>4. CASE /\ op[t].to \notin Valid \/ Panics(op[t], val)
             /\ Return(t, "error")
    BY <2>1, <2>2, <2>4, ReturnRefines DEF Fails
  <2>5. CASE val # op[t].from /\ Return(t, "false")
    BY <2>1, <2>2, <2>5, ReturnRefines DEF Applies
  <2> QED
    BY <1>7, <2>3, <2>4, <2>5 DEF CompareAndSet
<1>8. CASE NotifyEnd(t)
  <2>1. call' = call
    BY <1>8, CallStays DEF NotifyEnd, Goto, Updating
  <2> QED
    BY <1>8, <2>1 DEF NotifyEnd
<1>9. CASE NotifyRace(t)
  BY <1>9 DEF NotifyRace, call
<1>10. CASE WatchWrite(t)
  <2>1. call' = call
    BY <1>10, CallStays DEF WatchWrite, Goto, Updating
  <2> QED
    BY <1>10, <2>1 DEF WatchWrite
<1> QED
  BY <1>1, <1>2, <1>3, <1>4, <1>5, <1>6, <1>7, <1>8, <1>9, <1>10 DEF Step

(* Starting an update begins a call; starting to write the watches does    *)
(* not.                                                                    *)
LEMMA CallRefines ==
    ASSUME IInv, NEW t \in Threads, Call(t)
    PROVE  [Ref!Next]_<<val, call, told, ret>>
<1> USE DEF IInv
<1>1. ASSUME NEW o \in Updates, Begin(t, o) PROVE Ref!Next
  <2> DEFINE where == IF IsVals(o) THEN "vals" ELSE Entry(o)
  <2>1. where \in Updating
    BY Entries DEF Updating
  <2>2. pc[t] = "idle" /\ pc' = [pc EXCEPT ![t] = where]
    BY <1>1 DEF Begin, Goto
  <2> HIDE DEF where
  <2>3. call[t] = Idle /\ call' = [call EXCEPT ![t] = o]
    BY <1>1, <2>1, <2>2 DEF Begin, call, Updating, TypeOK
  <2> QED
    BY <1>1, <2>3 DEF Begin, Ref!Begin, Ref!Next
<1>2. CASE WatchLock(t)
  <2>1. call' = call
    BY <1>2, CallStays DEF WatchLock, Goto, Updating
  <2> QED
    BY <1>2, <2>1 DEF WatchLock
<1> QED
  BY <1>1, <1>2 DEF Call

(* The atom implements the atomic reference: every swap!, reset! and       *)
(* compare-and-set! takes effect at one moment, on the value it was        *)
(* computed from, and reports what it replaced.                            *)
THEOREM Refines == Spec => IsAtomic
<1>1. Init => Ref!Init
  BY DEF Init, Ref!Init, call, Updating
<1>2. IInv /\ [Next]_vars => [Ref!Next]_<<val, call, told, ret>>
  <2> SUFFICES ASSUME IInv, [Next]_vars
               PROVE  [Ref!Next]_<<val, call, told, ret>>
    OBVIOUS
  <2>1. CASE Next
    BY <2>1, StepRefines, CallRefines DEF Next
  <2>2. CASE UNCHANGED vars
    BY <2>2 DEF vars, call
  <2> QED
    BY <2>1, <2>2
<1> QED
  BY <1>1, <1>2, InductiveInvariant, PTL DEF Spec, IsAtomic, Ref!Spec
=============================================================================
