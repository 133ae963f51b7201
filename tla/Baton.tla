-------------------------------- MODULE Baton --------------------------------
(***************************************************************************)
(* The benchmark lease of cmd/bench-baton/main.go: one pool, an exclusive  *)
(* lane for benchmarks and a shared lane for builds.                       *)
(*                                                                         *)
(* A worker is the place one baton process after another is started from.  *)
(* The pool's files are flocks (gate.lock, lease.lock and the slots) and   *)
(* the records of state.json, which mutateState changes under its own lock *)
(* and so in one step.  Every flock is tried without blocking and polled;  *)
(* a poll that fails may meet the deadline or a signal.  A baton may be    *)
(* killed: the kernel drops its locks, its records and the processes of    *)
(* its command stay.                                                       *)
(***************************************************************************)
EXTENDS Integers, FiniteSets

CONSTANTS
    Workers,
    Requests,            \* the values of --max-shared (0: not given)
    DefaultMaxShared,    \* defaultMaxShared
    Signallable,         \* bound: the workers whose batons get signals
    Killable             \* bound: the workers whose batons may be killed

Modes == {"exclusive", "shared"}
NoSlot == -1

ASSUME BatonConstants ==
    /\ IsFiniteSet(Workers)
    /\ Requests \subseteq Nat /\ IsFiniteSet(Requests)
    /\ DefaultMaxShared \in Nat \ {0}
    /\ Signallable \subseteq Workers /\ Killable \subseteq Workers

VARIABLES
    gate, lease,  \* worker -> its flock on gate.lock and on lease.lock
    slot,         \* worker -> the slot file it has locked
    holders, waiters, maxShared,     \* state.json
    pc, mode, cap,                   \* the baton process of a worker
    scan,         \* worker -> the slot acquireSlot tries next
    stop,         \* worker -> a signal waits in its stop channel
    group         \* worker -> the live processes of its command's group

poolVars  == <<gate, lease, slot>>
stateVars == <<holders, waiters, maxShared>>
procVars  == <<mode, cap>>
vars == <<poolVars, stateVars, pc, procVars, scan, stop, group>>

PCs == {"none", "gate", "ungate", "lease", "slot", "grant", "exec",
        "run", "term", "unrecord", "unlock", "unwind", "killed"}

Alive(w) == pc[w] \notin {"none", "killed"}

Init ==
    /\ gate = [w \in Workers |-> "UN"] /\ lease = [w \in Workers |-> "UN"]
    /\ slot = [w \in Workers |-> NoSlot]
    /\ holders = {} /\ waiters = {} /\ maxShared = 0
    /\ pc = [w \in Workers |-> "none"]
    /\ mode = [w \in Workers |-> "shared"]
    /\ cap = [w \in Workers |-> 0]
    /\ scan = [w \in Workers |-> 0]
    /\ stop = [w \in Workers |-> FALSE]
    /\ group = [w \in Workers |-> {}]

Goto(w, p) == pc' = [pc EXCEPT ![w] = p]

\* The process is gone, and what it knew.
Exit(w, p) ==
    /\ Goto(w, p)
    /\ mode' = [mode EXCEPT ![w] = "shared"]
    /\ cap' = [cap EXCEPT ![w] = 0]
    /\ stop' = [stop EXCEPT ![w] = FALSE]

How(w) == IF mode[w] = "exclusive" THEN "EX" ELSE "SH"

\* Mutant: a shared lock does not look at the exclusive one.
MutSharedAlways(held, w, how) ==
    \A v \in Workers \ {w} : how = "SH" \/ held[v] = "UN"

\* flock(2): w may take `how` on a file whose locks are `held`.
Compatible(held, w, how) ==
    \A v \in Workers \ {w} : held[v] = "UN" \/ (how = "SH" /\ held[v] = "SH")

SlotFree(i) == \A v \in Workers : slot[v] # i

-----------------------------------------------------------------------------
(* settleCapacity, for a worker that asks for r.                           *)
Busy == holders # {} \/ waiters # {}

Settled(r) ==
    IF r # 0 THEN r ELSE IF maxShared # 0 THEN maxShared ELSE DefaultMaxShared

\* Mutant: only holders make the pool busy.
MutWaitersIgnored(r) == r \notin {0, maxShared} /\ maxShared # 0 /\ holders # {}

Refused(r) == r \notin {0, maxShared} /\ maxShared # 0 /\ Busy

(* build, bench and run: main starts a baton, and acquire settles the      *)
(* capacity and adds the waiter record under one state lock.  A baton that *)
(* is refused, or has a signal already, exits and changes nothing.         *)
Join(w) ==
    /\ pc[w] = "none"
    /\ \E m \in Modes, r \in Requests :
          /\ ~Refused(r)
          /\ maxShared' = Settled(r)
          /\ cap' = [cap EXCEPT ![w] = Settled(r)]
          /\ mode' = [mode EXCEPT ![w] = m]
    /\ waiters' = waiters \union {w}
    /\ Goto(w, "gate")
    /\ UNCHANGED <<poolVars, holders, scan, stop, group>>

(* SIGINT, SIGTERM or SIGHUP: the channel holds one signal, more are lost. *)
Signal(w) ==
    /\ w \in Signallable /\ Alive(w) /\ ~stop[w]
    /\ stop' = [stop EXCEPT ![w] = TRUE]
    /\ UNCHANGED <<poolVars, stateVars, pc, procVars, scan, group>>

\* Mutant: shared work does not stop at the gate.
MutOpenGate(w) ==
    /\ pc[w] = "gate" /\ (mode[w] = "exclusive" => Compatible(gate, w, "EX"))
    /\ gate' = [gate EXCEPT ![w] = IF mode[w] = "exclusive" THEN "EX" ELSE "UN"]
    /\ Goto(w, "lease")
    /\ UNCHANGED <<lease, slot, stateVars, procVars, scan, stop, group>>

(* flockUntil on the gate: an exclusive run keeps it, a shared one goes    *)
(* through.                                                                *)
LockGate(w) ==
    /\ pc[w] = "gate" /\ Compatible(gate, w, How(w))
    /\ gate' = [gate EXCEPT ![w] = How(w)]
    /\ Goto(w, IF mode[w] = "exclusive" THEN "lease" ELSE "ungate")
    /\ UNCHANGED <<lease, slot, stateVars, procVars, scan, stop, group>>

LeaveGate(w) ==
    /\ pc[w] = "ungate"
    /\ gate' = [gate EXCEPT ![w] = "UN"]
    /\ Goto(w, "lease")
    /\ UNCHANGED <<lease, slot, stateVars, procVars, scan, stop, group>>

LockLease(w) ==
    /\ pc[w] = "lease" /\ Compatible(lease, w, How(w))
    /\ lease' = [lease EXCEPT ![w] = How(w)]
    /\ scan' = [scan EXCEPT ![w] = 0]
    /\ Goto(w, IF mode[w] = "exclusive" THEN "grant" ELSE "slot")
    /\ UNCHANGED <<gate, slot, stateVars, procVars, stop, group>>

(* acquireSlot: one slot file after another, then a poll and all again.    *)
TrySlot(w) ==
    /\ pc[w] = "slot" /\ scan[w] < cap[w]
    /\ IF SlotFree(scan[w])
       THEN slot' = [slot EXCEPT ![w] = scan[w]] /\ Goto(w, "grant")
       ELSE UNCHANGED <<slot, pc>>
    /\ scan' = [scan EXCEPT ![w] = IF SlotFree(@) THEN 0 ELSE @ + 1]
    /\ UNCHANGED <<gate, lease, stateVars, procVars, stop, group>>

Rescan(w) ==
    /\ pc[w] = "slot" /\ scan[w] = cap[w] /\ ~stop[w]
    /\ scan' = [scan EXCEPT ![w] = 0]
    /\ UNCHANGED <<poolVars, stateVars, pc, procVars, stop, group>>

\* Mutant: the wait for a slot does not observe stop.
MutSlotDeaf(w) ==
    \/ pc[w] = "gate" /\ ~Compatible(gate, w, How(w))
    \/ pc[w] = "lease" /\ ~Compatible(lease, w, How(w))

(* A try has just failed, in flockUntil or in acquireSlot.                 *)
Blocked(w) ==
    \/ pc[w] = "gate" /\ ~Compatible(gate, w, How(w))
    \/ pc[w] = "lease" /\ ~Compatible(lease, w, How(w))
    \/ pc[w] = "slot" /\ scan[w] = cap[w]

(* waitPoll finds the signal, or the deadline has passed: fail.            *)
GiveUp(w) ==
    /\ Goto(w, "unwind")
    /\ scan' = [scan EXCEPT ![w] = 0]
    /\ UNCHANGED <<poolVars, stateVars, procVars, stop, group>>

Cancel(w)   == Blocked(w) /\ stop[w] /\ GiveUp(w)
Deadline(w) == Blocked(w) /\ GiveUp(w)

Grant(w) ==
    /\ pc[w] = "grant"
    /\ waiters' = waiters \ {w} /\ holders' = holders \union {w}
    /\ Goto(w, "exec")
    /\ UNCHANGED <<poolVars, maxShared, procVars, scan, stop, group>>

-----------------------------------------------------------------------------
(* run, once the lease is granted.                                         *)
Exec(w) ==
    /\ pc[w] = "exec"
    /\ \/ group' = [group EXCEPT ![w] = {"child"}] /\ Goto(w, "run")
       \/ Goto(w, "unrecord") /\ UNCHANGED group        \* Start failed
    /\ UNCHANGED <<poolVars, stateVars, procVars, scan, stop>>

(* The command, which may start processes that outlive it.  What is left of *)
(* the command of a killed baton is of no further interest.                *)
Fork(w) ==
    /\ Alive(w) /\ group[w] # {}
    /\ group' = [group EXCEPT ![w] = @ \union {"stray"}]
    /\ UNCHANGED <<poolVars, stateVars, pc, procVars, scan, stop>>

ProcExit(w, p) ==
    /\ Alive(w) /\ p \in group[w]
    /\ group' = [group EXCEPT ![w] = @ \ {p}]
    /\ UNCHANGED <<poolVars, stateVars, pc, procVars, scan, stop>>

(* The select of run: the command has ended, its time is up, or a signal.  *)
Done(w) ==
    /\ pc[w] = "run" /\ "child" \notin group[w]
    /\ Goto(w, "term")
    /\ UNCHANGED <<poolVars, stateVars, procVars, scan, stop, group>>

TimedOut(w) ==
    /\ pc[w] = "run"
    /\ Goto(w, "term")
    /\ UNCHANGED <<poolVars, stateVars, procVars, scan, stop, group>>

Interrupted(w) ==
    /\ pc[w] = "run" /\ stop[w]
    /\ Goto(w, "term")
    /\ UNCHANGED <<poolVars, stateVars, procVars, scan, stop, group>>

\* Mutant: only the direct child is stopped.
MutChildOnly(w) ==
    /\ pc[w] = "term"
    /\ group' = [group EXCEPT ![w] = @ \ {"child"}]
    /\ Goto(w, "unrecord")
    /\ UNCHANGED <<poolVars, stateVars, procVars, scan, stop>>

(* stopGroup: SIGTERM leaves the group time to end, SIGKILL ends it.       *)
StopGroup(w) ==
    /\ pc[w] = "term"
    /\ group' = [group EXCEPT ![w] = {}]
    /\ Goto(w, "unrecord")
    /\ UNCHANGED <<poolVars, stateVars, procVars, scan, stop>>

(* release: the records, then the locks.                                   *)
Unrecord(w) ==
    /\ pc[w] = "unrecord"
    /\ holders' = holders \ {w} /\ waiters' = waiters \ {w}
    /\ Goto(w, "unlock")
    /\ UNCHANGED <<poolVars, maxShared, procVars, scan, stop, group>>

(* unlockAll: gate, lease and slot, in the order they were opened.         *)
Unlocked(w) == gate[w] = "UN" /\ lease[w] = "UN" /\ slot[w] = NoSlot

Unlock(w) ==
    /\ pc[w] \in {"unlock", "unwind"}
    /\ \/ /\ gate[w] # "UN" /\ gate' = [gate EXCEPT ![w] = "UN"]
          /\ UNCHANGED <<lease, slot>>
       \/ /\ gate[w] = "UN" /\ lease[w] # "UN"
          /\ lease' = [lease EXCEPT ![w] = "UN"]
          /\ UNCHANGED <<gate, slot>>
       \/ /\ gate[w] = "UN" /\ lease[w] = "UN" /\ slot[w] # NoSlot
          /\ slot' = [slot EXCEPT ![w] = NoSlot]
          /\ UNCHANGED <<gate, lease>>
    /\ UNCHANGED <<stateVars, pc, procVars, scan, stop, group>>

(* The end of release, and of fail, which drops the waiter record last.    *)
Leave(w) ==
    /\ pc[w] \in {"unlock", "unwind"} /\ Unlocked(w)
    /\ waiters' = IF pc[w] = "unwind" THEN waiters \ {w} ELSE waiters
    /\ Exit(w, "none")
    /\ UNCHANGED <<poolVars, holders, maxShared, scan, group>>

(* SIGKILL: the kernel closes the files, which drops the locks.            *)
Kill(w) ==
    /\ w \in Killable /\ Alive(w)
    /\ Exit(w, "killed")
    /\ gate' = [gate EXCEPT ![w] = "UN"] /\ lease' = [lease EXCEPT ![w] = "UN"]
    /\ slot' = [slot EXCEPT ![w] = NoSlot]
    /\ scan' = [scan EXCEPT ![w] = 0]
    /\ UNCHANGED <<stateVars, group>>

(* reap: the records of processes that are gone.                           *)
Reap ==
    /\ holders' = {w \in holders : Alive(w)}
    /\ waiters' = {w \in waiters : Alive(w)}
    /\ UNCHANGED <<poolVars, maxShared, pc, procVars, scan, stop, group>>

-----------------------------------------------------------------------------
\* What a baton does by itself once started.
Step(w) ==
    \/ LockGate(w) \/ LeaveGate(w) \/ LockLease(w)
    \/ TrySlot(w) \/ Rescan(w) \/ Cancel(w) \/ Grant(w)
    \/ Exec(w) \/ Done(w) \/ Interrupted(w) \/ StopGroup(w)
    \/ Unrecord(w) \/ Unlock(w) \/ Leave(w)

Next ==
    \/ \E w \in Workers :
          \/ Join(w) \/ Signal(w) \/ Step(w) \/ Deadline(w)
          \/ Fork(w) \/ ProcExit(w, "child") \/ ProcExit(w, "stray")
          \/ TimedOut(w) \/ Kill(w)
    \/ Reap

Spec == Init /\ [][Next]_vars

(* A baton that can move does, and a command that runs ends.  Nothing says *)
(* that a deadline is set or that a command is given a timeout.            *)
FairSpec ==
    /\ Spec
    /\ \A w \in Workers : WF_vars(Step(w) \/ ProcExit(w, "child"))

-----------------------------------------------------------------------------
TypeOK ==
    /\ gate \in [Workers -> {"UN", "SH", "EX"}]
    /\ lease \in [Workers -> {"UN", "SH", "EX"}]
    /\ slot \in [Workers -> {NoSlot} \union Nat]
    /\ holders \subseteq Workers /\ waiters \subseteq Workers
    /\ maxShared \in Nat
    /\ pc \in [Workers -> PCs]
    /\ mode \in [Workers -> Modes]
    /\ cap \in [Workers -> Nat]
    /\ scan \in [Workers -> Nat]
    /\ stop \in [Workers -> BOOLEAN]
    /\ group \in [Workers -> SUBSET {"child", "stray"}]

\* The workloads of the batons that are alive.
Running == {w \in Workers : Alive(w) /\ group[w] # {}}

\* An exclusive run "Holds the pool alone: no other exclusive run and no
\* shared run overlaps it" (main.go:13).  The two lanes meet only in the
\* flocks of the gate and of the lease.
BenchRunsAlone ==
    \A w \in Running : mode[w] = "exclusive" => Running = {w}

\* Shared work runs "up to the pool's max_shared slots" (main.go:16), for
\* the capacity that is recorded at that moment: a worker settles its own
\* copy when it joins, and neither reap nor a killed holder's record, nor
\* a release that has dropped its record and still has its slot, lets
\* another worker change the capacity under it.
LaneBounded ==
    Cardinality({w \in Running : mode[w] = "shared"}) <= maxShared

\* "no workload outlives its lease" (main.go:29), stray processes
\* included, as long as the baton itself is not killed; and while it runs
\* the pool's records name it as a holder.
NoWorkloadOutlivesLease ==
    \A w \in Workers : group[w] # {} /\ pc[w] # "killed" =>
        lease[w] = How(w) /\ w \in holders /\ w \notin waiters

\* A baton that has exited leaves neither a lock nor a record, whichever
\* of the ways out it took.
ExitLeavesNothing ==
    \A w \in Workers : pc[w] = "none" =>
        Unlocked(w) /\ w \notin holders /\ w \notin waiters

\* A lease covers the whole run of its workload and ends with the baton.
LeaseCoversRun == NoWorkloadOutlivesLease /\ ExitLeavesNothing

\* "A waiting exclusive closes the gate, so a stream of builds cannot
\* starve a benchmark" (main.go:20): once it has the gate, an exclusive
\* run does not wait for the lease for ever, however many builds come.
BenchNotStarved ==
    \A w \in Workers :
        (pc[w] = "lease" /\ mode[w] = "exclusive") ~> pc[w] # "lease"

\* "Every wait observes stop" (acquire, main.go:350): a baton that has
\* been sent a signal ends, wherever it is queued.
SignalEndsBaton ==
    \A w \in Workers : stop[w] ~> ~stop[w]

-----------------------------------------------------------------------------
(* The inductive strengthening used by BatonProofs.                        *)

Queued  == {"gate", "ungate", "lease", "slot", "grant"}
Holding == {"exec", "run", "term", "unrecord"}

\* The locks a baton has where it is.
LocksOK(w) ==
    /\ pc[w] \in {"none", "gate", "killed"} => Unlocked(w)
    /\ pc[w] \in {"ungate", "lease"} => lease[w] = "UN" /\ slot[w] = NoSlot
    /\ pc[w] = "slot" => lease[w] = How(w) /\ slot[w] = NoSlot /\ mode[w] = "shared"
    /\ pc[w] \in {"grant"} \union Holding =>
          lease[w] = How(w) /\ (mode[w] = "shared" => slot[w] \in 0..(cap[w] - 1))

\* Its records, and that its command runs only under them.
RecordsOK(w) ==
    /\ pc[w] \in Queued => w \in waiters /\ w \notin holders
    /\ pc[w] \in Holding => w \in holders /\ w \notin waiters
    /\ pc[w] \in {"none", "unlock"} => w \notin waiters /\ w \notin holders
    /\ pc[w] = "unwind" => w \notin holders
    /\ group[w] # {} => pc[w] \in {"run", "term", "killed"}

\* The capacity a baton settled is the recorded one as long as it is
\* recorded itself.
CapOK(w) == pc[w] \in Queued \union Holding => cap[w] = maxShared

\* What flock(2) excludes.
ApartOK(v, w) ==
    v # w => /\ lease[v] = "EX" => lease[w] = "UN"
             /\ slot[v] # NoSlot => slot[v] # slot[w]

PoolInv ==
    /\ Busy => maxShared # 0
    /\ \A w \in Workers : LocksOK(w) /\ RecordsOK(w) /\ CapOK(w)
    /\ \A v, w \in Workers : ApartOK(v, w)
=============================================================================
