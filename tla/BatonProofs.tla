----------------------------- MODULE BatonProofs -----------------------------
(***************************************************************************)
(* Proofs of the safety of the benchmark lease, for any number of workers, *)
(* any capacities, and signals and kills at any moment.                    *)
(***************************************************************************)
EXTENDS Baton, FiniteSetTheorems, TLAPS

USE DEF Modes, NoSlot

LEMMA TypeInit == Init => TypeOK
  BY DEF Init, TypeOK, PCs

LEMMA TypeNext == TypeOK /\ [Next]_vars => TypeOK'
<1> SUFFICES ASSUME TypeOK, [Next]_vars PROVE TypeOK'
  OBVIOUS
<1> USE DEF TypeOK, PCs, Goto, Exit, poolVars, stateVars, procVars
<1>1. ASSUME NEW w \in Workers, Join(w) PROVE TypeOK'
  BY <1>1, BatonConstants DEF Join, Settled
<1>2. ASSUME NEW w \in Workers, Signal(w) PROVE TypeOK'
  BY <1>2 DEF Signal
<1>3. ASSUME NEW w \in Workers, LockGate(w) PROVE TypeOK'
  BY <1>3 DEF LockGate, How
<1>4. ASSUME NEW w \in Workers, LeaveGate(w) PROVE TypeOK'
  BY <1>4 DEF LeaveGate
<1>5. ASSUME NEW w \in Workers, LockLease(w) PROVE TypeOK'
  BY <1>5 DEF LockLease, How
<1>6. ASSUME NEW w \in Workers, TrySlot(w) PROVE TypeOK'
  <2>1. CASE SlotFree(scan[w])
    BY <1>6, <2>1 DEF TrySlot
  <2>2. CASE ~SlotFree(scan[w])
    BY <1>6, <2>2 DEF TrySlot
  <2> QED  BY <2>1, <2>2
<1>7. ASSUME NEW w \in Workers, Rescan(w) PROVE TypeOK'
  BY <1>7 DEF Rescan
<1>8. ASSUME NEW w \in Workers, Cancel(w) \/ Deadline(w) PROVE TypeOK'
  BY <1>8 DEF Cancel, Deadline, GiveUp
<1>9. ASSUME NEW w \in Workers, Grant(w) PROVE TypeOK'
  BY <1>9 DEF Grant
<1>10. ASSUME NEW w \in Workers, Exec(w) PROVE TypeOK'
  BY <1>10 DEF Exec
<1>11. ASSUME NEW w \in Workers, Fork(w) PROVE TypeOK'
  BY <1>11 DEF Fork
<1>12. ASSUME NEW w \in Workers, NEW p, ProcExit(w, p) PROVE TypeOK'
  BY <1>12 DEF ProcExit
<1>13. ASSUME NEW w \in Workers, Done(w) \/ TimedOut(w) \/ Interrupted(w) PROVE TypeOK'
  BY <1>13 DEF Done, TimedOut, Interrupted
<1>14. ASSUME NEW w \in Workers, StopGroup(w) PROVE TypeOK'
  BY <1>14 DEF StopGroup
<1>15. ASSUME NEW w \in Workers, Unrecord(w) PROVE TypeOK'
  BY <1>15 DEF Unrecord
<1>16. ASSUME NEW w \in Workers, Unlock(w) PROVE TypeOK'
  BY <1>16 DEF Unlock
<1>17. ASSUME NEW w \in Workers, Leave(w) PROVE TypeOK'
  BY <1>17 DEF Leave
<1>18. ASSUME NEW w \in Workers, Kill(w) PROVE TypeOK'
  BY <1>18 DEF Kill
<1>19. CASE Reap
  BY <1>19 DEF Reap
<1>20. CASE UNCHANGED vars
  BY <1>20 DEF vars
<1> QED  BY <1>1, <1>2, <1>3, <1>4, <1>5, <1>6, <1>7, <1>8, <1>9, <1>10, <1>11, <1>12,
            <1>13, <1>14, <1>15, <1>16, <1>17, <1>18, <1>19, <1>20 DEF Next, Step

(* Every variable has its type, for any number of workers.                 *)
THEOREM TypeCorrect == Spec => []TypeOK
  BY TypeInit, TypeNext, PTL DEF Spec

-----------------------------------------------------------------------------
\* A step of one worker leaves the locks and records of the others alone.
LEMMA PoolFrame ==
    ASSUME PoolInv, NEW w \in Workers,
           \A v \in Workers \ {w} :
               /\ pc'[v] = pc[v] /\ gate'[v] = gate[v] /\ lease'[v] = lease[v]
               /\ slot'[v] = slot[v] /\ mode'[v] = mode[v] /\ cap'[v] = cap[v]
               /\ group'[v] = group[v]
               /\ v \in waiters' <=> v \in waiters
               /\ v \in holders' <=> v \in holders,
           LocksOK(w)', RecordsOK(w)', CapOK(w)',
           \A v \in Workers \ {w} : CapOK(v)',
           (Busy => maxShared # 0)',
           \A v \in Workers \ {w} : ApartOK(v, w)' /\ ApartOK(w, v)'
    PROVE  PoolInv'
<1>1. ASSUME NEW v \in Workers \ {w} PROVE LocksOK(v)' /\ RecordsOK(v)'
  BY DEF PoolInv, LocksOK, RecordsOK, Unlocked, How
<1>2. ASSUME NEW v \in Workers \ {w}, NEW u \in Workers \ {w} PROVE ApartOK(u, v)'
  BY DEF PoolInv, ApartOK
<1>3. ApartOK(w, w)'
  BY DEF ApartOK
<1> QED  BY <1>1, <1>2, <1>3 DEF PoolInv

\* ... and takes no lock from another worker when it takes none at all.
LEMMA PoolRelease ==
    ASSUME PoolInv, TypeOK, NEW w \in Workers,
           \A v \in Workers \ {w} :
               /\ pc'[v] = pc[v] /\ gate'[v] = gate[v] /\ lease'[v] = lease[v]
               /\ slot'[v] = slot[v] /\ mode'[v] = mode[v] /\ cap'[v] = cap[v]
               /\ group'[v] = group[v]
               /\ v \in waiters' <=> v \in waiters
               /\ v \in holders' <=> v \in holders,
           maxShared' = maxShared, Busy' => Busy,
           lease'[w] \in {lease[w], "UN"}, slot'[w] \in {slot[w], NoSlot},
           LocksOK(w)', RecordsOK(w)', CapOK(w)'
    PROVE  PoolInv'
<1>1. \A v \in Workers \ {w} : CapOK(v)'
  BY DEF PoolInv, CapOK
<1>2. \A v \in Workers \ {w} : ApartOK(v, w)' /\ ApartOK(w, v)'
  BY DEF PoolInv, ApartOK
<1>3. (Busy => maxShared # 0)'
  BY DEF PoolInv
<1> QED  BY <1>1, <1>2, <1>3, PoolFrame

LEMMA PoolInit == Init => PoolInv
<1> SUFFICES ASSUME Init PROVE PoolInv
  OBVIOUS
<1>1. ~Busy
  BY DEF Init, Busy
<1>2. ASSUME NEW w \in Workers PROVE LocksOK(w) /\ RecordsOK(w) /\ CapOK(w)
  BY DEF Init, LocksOK, RecordsOK, CapOK, Unlocked, Queued, Holding
<1>3. ASSUME NEW v \in Workers, NEW w \in Workers PROVE ApartOK(v, w)
  BY DEF Init, ApartOK
<1> QED  BY <1>1, <1>2, <1>3 DEF PoolInv

\* A worker that joins settles the recorded capacity, or the pool is idle.
LEMMA JoinPool ==
    ASSUME TypeOK, PoolInv, NEW w \in Workers, Join(w)
    PROVE  PoolInv'
<1>1. PICK m \in Modes, r \in Requests :
        /\ ~Refused(r) /\ maxShared' = Settled(r)
        /\ cap' = [cap EXCEPT ![w] = Settled(r)] /\ mode' = [mode EXCEPT ![w] = m]
  BY DEF Join
<1>2. /\ pc[w] = "none" /\ waiters' = waiters \union {w} /\ pc' = [pc EXCEPT ![w] = "gate"]
      /\ UNCHANGED <<gate, lease, slot, holders, group>>
  BY DEF Join, Goto, poolVars
<1>3. r \in Nat /\ Settled(r) \in Nat /\ Settled(r) # 0
  BY BatonConstants DEF Settled, TypeOK
<1>4. Busy => maxShared' = maxShared
  BY <1>1, <1>3 DEF PoolInv, Refused, Settled
<1>5. LocksOK(w) /\ RecordsOK(w)
  BY DEF PoolInv
<1>6. LocksOK(w)' /\ RecordsOK(w)' /\ CapOK(w)'
  BY <1>1, <1>2, <1>5
  DEF TypeOK, LocksOK, RecordsOK, CapOK, Unlocked, Queued, Holding
<1>7. ASSUME NEW v \in Workers \ {w} PROVE CapOK(v)'
  <2>1. CASE pc[v] \in Queued \union Holding
    <3>1. Busy
      BY <2>1 DEF PoolInv, RecordsOK, Busy
    <3> QED  BY <1>1, <1>2, <1>4, <3>1 DEF PoolInv, CapOK, TypeOK
  <2>2. CASE pc[v] \notin Queued \union Holding
    BY <1>2, <2>2 DEF CapOK, TypeOK
  <2> QED  BY <2>1, <2>2
<1>8. \A v \in Workers \ {w} : ApartOK(v, w)' /\ ApartOK(w, v)'
  BY <1>2 DEF PoolInv, ApartOK
<1>9. (Busy => maxShared # 0)'
  BY <1>1, <1>3
<1>10. \A v \in Workers \ {w} :
               /\ pc'[v] = pc[v] /\ gate'[v] = gate[v] /\ lease'[v] = lease[v]
               /\ slot'[v] = slot[v] /\ mode'[v] = mode[v] /\ cap'[v] = cap[v]
               /\ group'[v] = group[v]
               /\ v \in waiters' <=> v \in waiters
               /\ v \in holders' <=> v \in holders
  BY <1>1, <1>2 DEF TypeOK
<1> QED  BY <1>6, <1>7, <1>8, <1>9, <1>10, PoolFrame

\* flock(2) on the lease: two shared ones, or one alone.
LEMMA LockLeasePool ==
    ASSUME TypeOK, PoolInv, NEW w \in Workers, LockLease(w)
    PROVE  PoolInv'
<1>1. /\ pc[w] = "lease" /\ Compatible(lease, w, How(w))
      /\ lease' = [lease EXCEPT ![w] = How(w)]
      /\ pc' = [pc EXCEPT ![w] = IF mode[w] = "exclusive" THEN "grant" ELSE "slot"]
      /\ UNCHANGED <<gate, slot, mode, cap, holders, waiters, maxShared, group>>
  BY DEF LockLease, Goto, stateVars, procVars
<1>2. LocksOK(w) /\ RecordsOK(w) /\ CapOK(w)
  BY DEF PoolInv
<1>3. LocksOK(w)' /\ RecordsOK(w)' /\ CapOK(w)'
  BY <1>1, <1>2 DEF TypeOK, LocksOK, RecordsOK, CapOK, Unlocked, How, Queued, Holding
<1>4. \A v \in Workers \ {w} : CapOK(v)'
  BY <1>1 DEF PoolInv, CapOK, TypeOK
<1>5. \A v \in Workers \ {w} : ApartOK(v, w)' /\ ApartOK(w, v)'
  BY <1>1 DEF PoolInv, ApartOK, Compatible, How, TypeOK
<1>6. (Busy => maxShared # 0)'
  BY <1>1 DEF PoolInv, Busy
<1>7. \A v \in Workers \ {w} : pc'[v] = pc[v] /\ lease'[v] = lease[v]
  BY <1>1 DEF TypeOK
<1> QED  BY <1>1, <1>3, <1>4, <1>5, <1>6, <1>7, PoolFrame

LEMMA TrySlotPool ==
    ASSUME TypeOK, PoolInv, NEW w \in Workers, TrySlot(w)
    PROVE  PoolInv'
<1>1. /\ pc[w] = "slot" /\ scan[w] < cap[w] /\ scan[w] \in Nat /\ cap[w] \in Nat
      /\ UNCHANGED <<gate, lease, mode, cap, holders, waiters, maxShared, group>>
  BY DEF TrySlot, stateVars, procVars, TypeOK
<1>2. LocksOK(w) /\ RecordsOK(w) /\ CapOK(w)
  BY DEF PoolInv
<1>3. CASE SlotFree(scan[w])
  <2>1. slot' = [slot EXCEPT ![w] = scan[w]] /\ pc' = [pc EXCEPT ![w] = "grant"]
    BY <1>3 DEF TrySlot, Goto
  <2>2. \A v \in Workers : slot[v] # scan[w]
    BY <1>3 DEF SlotFree
  <2>3. LocksOK(w)' /\ RecordsOK(w)' /\ CapOK(w)'
    BY <1>1, <1>2, <2>1
    DEF TypeOK, LocksOK, RecordsOK, CapOK, Unlocked, How, Queued, Holding
  <2>4. \A v \in Workers \ {w} : CapOK(v)'
    BY <1>1, <2>1 DEF PoolInv, CapOK, TypeOK
  <2>5. \A v \in Workers \ {w} : ApartOK(v, w)' /\ ApartOK(w, v)'
    BY <1>1, <2>1, <2>2 DEF PoolInv, ApartOK, TypeOK
  <2>6. (Busy => maxShared # 0)'
    BY <1>1 DEF PoolInv, Busy
  <2>7. \A v \in Workers \ {w} : pc'[v] = pc[v] /\ slot'[v] = slot[v]
    BY <2>1 DEF TypeOK
  <2> QED  BY <1>1, <2>3, <2>4, <2>5, <2>6, <2>7, PoolFrame
<1>4. CASE ~SlotFree(scan[w])
  <2>1. UNCHANGED <<slot, pc>>
    BY <1>4 DEF TrySlot
  <2>2. LocksOK(w)' /\ RecordsOK(w)' /\ CapOK(w)' /\ (Busy' => Busy)
    BY <1>1, <1>2, <2>1
    DEF LocksOK, RecordsOK, CapOK, Unlocked, How, Busy
  <2> QED  BY <1>1, <2>1, <2>2, PoolRelease
<1> QED  BY <1>3, <1>4

\* The steps of a baton that take neither the lease nor a slot.
LEMMA OtherPool ==
    ASSUME TypeOK, PoolInv, NEW w \in Workers,
           \/ Signal(w) \/ LockGate(w) \/ LeaveGate(w) \/ Rescan(w)
           \/ Cancel(w) \/ Deadline(w) \/ Grant(w) \/ Exec(w) \/ Fork(w)
           \/ ProcExit(w, "child") \/ ProcExit(w, "stray") \/ Done(w)
           \/ TimedOut(w) \/ Interrupted(w) \/ StopGroup(w) \/ Unrecord(w)
           \/ Unlock(w) \/ Leave(w) \/ Kill(w)
    PROVE  PoolInv'
<1> DEFINE Local == LocksOK(w)' /\ RecordsOK(w)' /\ CapOK(w)'
<1>0. LocksOK(w) /\ RecordsOK(w) /\ CapOK(w)
  BY DEF PoolInv
<1> USE DEF TypeOK
<1>1. CASE Signal(w)
  <2>1. Local
    BY <1>0, <1>1
    DEF Signal, poolVars, stateVars, procVars,
        LocksOK, RecordsOK, CapOK, Unlocked, How, Queued, Holding
  <2>2. /\ maxShared' = maxShared /\ (Busy' => Busy)
        /\ lease'[w] \in {lease[w], "UN"} /\ slot'[w] \in {slot[w], NoSlot}
    BY <1>0, <1>1 DEF Signal, poolVars, stateVars, procVars, Busy, RecordsOK, Queued
  <2> QED  BY <1>1, <2>1, <2>2, PoolRelease DEF Signal, poolVars, stateVars, procVars
<1>2. CASE LockGate(w)
  <2>1. Local
    BY <1>0, <1>2
    DEF LockGate, Goto, stateVars, procVars,
        LocksOK, RecordsOK, CapOK, Unlocked, How, Queued, Holding
  <2>2. /\ maxShared' = maxShared /\ (Busy' => Busy)
        /\ lease'[w] \in {lease[w], "UN"} /\ slot'[w] \in {slot[w], NoSlot}
    BY <1>0, <1>2 DEF LockGate, Goto, stateVars, procVars, Busy, RecordsOK, Queued
  <2> QED  BY <1>2, <2>1, <2>2, PoolRelease DEF LockGate, Goto, stateVars, procVars
<1>3. CASE LeaveGate(w)
  <2>1. Local
    BY <1>0, <1>3
    DEF LeaveGate, Goto, stateVars, procVars,
        LocksOK, RecordsOK, CapOK, Unlocked, How, Queued, Holding
  <2>2. /\ maxShared' = maxShared /\ (Busy' => Busy)
        /\ lease'[w] \in {lease[w], "UN"} /\ slot'[w] \in {slot[w], NoSlot}
    BY <1>0, <1>3 DEF LeaveGate, Goto, stateVars, procVars, Busy, RecordsOK, Queued
  <2> QED  BY <1>3, <2>1, <2>2, PoolRelease DEF LeaveGate, Goto, stateVars, procVars
<1>4. CASE Rescan(w)
  <2>1. Local
    BY <1>0, <1>4
    DEF Rescan, poolVars, stateVars, procVars,
        LocksOK, RecordsOK, CapOK, Unlocked, How, Queued, Holding
  <2>2. /\ maxShared' = maxShared /\ (Busy' => Busy)
        /\ lease'[w] \in {lease[w], "UN"} /\ slot'[w] \in {slot[w], NoSlot}
    BY <1>0, <1>4 DEF Rescan, poolVars, stateVars, procVars, Busy, RecordsOK, Queued
  <2> QED  BY <1>4, <2>1, <2>2, PoolRelease DEF Rescan, poolVars, stateVars, procVars
<1>5. CASE Cancel(w) \/ Deadline(w)
  <2>1. Local
    BY <1>0, <1>5
    DEF Cancel, Deadline, Blocked, GiveUp, Goto, poolVars, stateVars, procVars,
        LocksOK, RecordsOK, CapOK, Unlocked, How, Queued, Holding
  <2>2. /\ maxShared' = maxShared /\ (Busy' => Busy)
        /\ lease'[w] \in {lease[w], "UN"} /\ slot'[w] \in {slot[w], NoSlot}
    BY <1>0, <1>5 DEF Cancel, Deadline, Blocked, GiveUp, Goto, poolVars, stateVars, procVars, Busy, RecordsOK, Queued
  <2> QED  BY <1>5, <2>1, <2>2, PoolRelease DEF Cancel, Deadline, Blocked, GiveUp, Goto, poolVars, stateVars, procVars
<1>6. CASE Grant(w)
  <2>1. Local
    BY <1>0, <1>6
    DEF Grant, Goto, poolVars, procVars,
        LocksOK, RecordsOK, CapOK, Unlocked, How, Queued, Holding
  <2>2. /\ maxShared' = maxShared /\ (Busy' => Busy)
        /\ lease'[w] \in {lease[w], "UN"} /\ slot'[w] \in {slot[w], NoSlot}
    BY <1>0, <1>6 DEF Grant, Goto, poolVars, procVars, Busy, RecordsOK, Queued
  <2> QED  BY <1>6, <2>1, <2>2, PoolRelease DEF Grant, Goto, poolVars, procVars
<1>7. CASE Exec(w)
  <2>1. Local
    BY <1>0, <1>7
    DEF Exec, Goto, poolVars, stateVars, procVars,
        LocksOK, RecordsOK, CapOK, Unlocked, How, Queued, Holding
  <2>2. /\ maxShared' = maxShared /\ (Busy' => Busy)
        /\ lease'[w] \in {lease[w], "UN"} /\ slot'[w] \in {slot[w], NoSlot}
    BY <1>0, <1>7 DEF Exec, Goto, poolVars, stateVars, procVars, Busy, RecordsOK, Queued
  <2> QED  BY <1>7, <2>1, <2>2, PoolRelease DEF Exec, Goto, poolVars, stateVars, procVars
<1>8. CASE Fork(w)
  <2>1. Local
    BY <1>0, <1>8
    DEF Fork, Alive, poolVars, stateVars, procVars,
        LocksOK, RecordsOK, CapOK, Unlocked, How, Queued, Holding
  <2>2. /\ maxShared' = maxShared /\ (Busy' => Busy)
        /\ lease'[w] \in {lease[w], "UN"} /\ slot'[w] \in {slot[w], NoSlot}
    BY <1>0, <1>8 DEF Fork, Alive, poolVars, stateVars, procVars, Busy, RecordsOK, Queued
  <2> QED  BY <1>8, <2>1, <2>2, PoolRelease DEF Fork, Alive, poolVars, stateVars, procVars
<1>9. CASE ProcExit(w, "child") \/ ProcExit(w, "stray")
  <2>1. Local
    BY <1>0, <1>9
    DEF ProcExit, Alive, poolVars, stateVars, procVars,
        LocksOK, RecordsOK, CapOK, Unlocked, How, Queued, Holding
  <2>2. /\ maxShared' = maxShared /\ (Busy' => Busy)
        /\ lease'[w] \in {lease[w], "UN"} /\ slot'[w] \in {slot[w], NoSlot}
    BY <1>0, <1>9 DEF ProcExit, Alive, poolVars, stateVars, procVars, Busy, RecordsOK, Queued
  <2> QED  BY <1>9, <2>1, <2>2, PoolRelease DEF ProcExit, Alive, poolVars, stateVars, procVars
<1>10. CASE Done(w) \/ TimedOut(w) \/ Interrupted(w)
  <2>1. Local
    BY <1>0, <1>10
    DEF Done, TimedOut, Interrupted, Goto, poolVars, stateVars, procVars,
        LocksOK, RecordsOK, CapOK, Unlocked, How, Queued, Holding
  <2>2. /\ maxShared' = maxShared /\ (Busy' => Busy)
        /\ lease'[w] \in {lease[w], "UN"} /\ slot'[w] \in {slot[w], NoSlot}
    BY <1>0, <1>10 DEF Done, TimedOut, Interrupted, Goto, poolVars, stateVars, procVars, Busy, RecordsOK, Queued
  <2> QED  BY <1>10, <2>1, <2>2, PoolRelease DEF Done, TimedOut, Interrupted, Goto, poolVars, stateVars, procVars
<1>11. CASE StopGroup(w)
  <2>1. Local
    BY <1>0, <1>11
    DEF StopGroup, Goto, poolVars, stateVars, procVars,
        LocksOK, RecordsOK, CapOK, Unlocked, How, Queued, Holding
  <2>2. /\ maxShared' = maxShared /\ (Busy' => Busy)
        /\ lease'[w] \in {lease[w], "UN"} /\ slot'[w] \in {slot[w], NoSlot}
    BY <1>0, <1>11 DEF StopGroup, Goto, poolVars, stateVars, procVars, Busy, RecordsOK, Queued
  <2> QED  BY <1>11, <2>1, <2>2, PoolRelease DEF StopGroup, Goto, poolVars, stateVars, procVars
<1>12. CASE Unrecord(w)
  <2>1. Local
    BY <1>0, <1>12
    DEF Unrecord, Goto, poolVars, procVars,
        LocksOK, RecordsOK, CapOK, Unlocked, How, Queued, Holding
  <2>2. /\ maxShared' = maxShared /\ (Busy' => Busy)
        /\ lease'[w] \in {lease[w], "UN"} /\ slot'[w] \in {slot[w], NoSlot}
    BY <1>0, <1>12 DEF Unrecord, Goto, poolVars, procVars, Busy, RecordsOK, Queued
  <2> QED  BY <1>12, <2>1, <2>2, PoolRelease DEF Unrecord, Goto, poolVars, procVars
<1>13. CASE Unlock(w)
  <2>1. Local
    BY <1>0, <1>13
    DEF Unlock, stateVars, procVars,
        LocksOK, RecordsOK, CapOK, Unlocked, How, Queued, Holding
  <2>2. /\ maxShared' = maxShared /\ (Busy' => Busy)
        /\ lease'[w] \in {lease[w], "UN"} /\ slot'[w] \in {slot[w], NoSlot}
    BY <1>0, <1>13 DEF Unlock, stateVars, procVars, Busy, RecordsOK, Queued
  <2> QED  BY <1>13, <2>1, <2>2, PoolRelease DEF Unlock, stateVars, procVars
<1>14. CASE Leave(w)
  <2>1. Local
    BY <1>0, <1>14
    DEF Leave, Exit, Goto, poolVars,
        LocksOK, RecordsOK, CapOK, Unlocked, How, Queued, Holding
  <2>2. /\ maxShared' = maxShared /\ (Busy' => Busy)
        /\ lease'[w] \in {lease[w], "UN"} /\ slot'[w] \in {slot[w], NoSlot}
    BY <1>0, <1>14 DEF Leave, Exit, Goto, poolVars, Busy, RecordsOK, Queued
  <2> QED  BY <1>14, <2>1, <2>2, PoolRelease DEF Leave, Exit, Goto, poolVars
<1>15. CASE Kill(w)
  <2>1. Local
    BY <1>0, <1>15
    DEF Kill, Exit, Goto, stateVars,
        LocksOK, RecordsOK, CapOK, Unlocked, How, Queued, Holding
  <2>2. /\ maxShared' = maxShared /\ (Busy' => Busy)
        /\ lease'[w] \in {lease[w], "UN"} /\ slot'[w] \in {slot[w], NoSlot}
    BY <1>0, <1>15 DEF Kill, Exit, Goto, stateVars, Busy, RecordsOK, Queued
  <2> QED  BY <1>15, <2>1, <2>2, PoolRelease DEF Kill, Exit, Goto, stateVars
<1> QED  BY <1>1, <1>2, <1>3, <1>4, <1>5, <1>6, <1>7, <1>8, <1>9, <1>10, <1>11, <1>12, <1>13, <1>14, <1>15

\* reap drops the records of processes that are gone, and those only.
LEMMA ReapPool ==
    ASSUME TypeOK, PoolInv, Reap
    PROVE  PoolInv'
<1>1. /\ UNCHANGED <<gate, lease, slot, maxShared, pc, mode, cap, group>>
      /\ holders' = {w \in holders : Alive(w)} /\ waiters' = {w \in waiters : Alive(w)}
  BY DEF Reap, poolVars, procVars
<1>2. ASSUME NEW w \in Workers PROVE LocksOK(w)' /\ RecordsOK(w)' /\ CapOK(w)'
  BY <1>1 DEF PoolInv, LocksOK, RecordsOK, CapOK, Unlocked, How, Queued, Holding, Alive
<1>3. ASSUME NEW v \in Workers, NEW w \in Workers PROVE ApartOK(v, w)'
  BY <1>1 DEF PoolInv, ApartOK
<1>4. (Busy => maxShared # 0)'
  BY <1>1 DEF PoolInv, Busy
<1> QED  BY <1>2, <1>3, <1>4 DEF PoolInv

LEMMA PoolNext == TypeOK /\ PoolInv /\ [Next]_vars => PoolInv'
<1> SUFFICES ASSUME TypeOK, PoolInv, [Next]_vars PROVE PoolInv'
  OBVIOUS
<1>1. CASE UNCHANGED vars
  <2>1. UNCHANGED <<gate, lease, slot, holders, waiters, maxShared, pc, mode, cap, group>>
    BY <1>1 DEF vars, poolVars, stateVars, procVars
  <2> QED  BY <2>1
           DEF PoolInv, Busy, LocksOK, RecordsOK, CapOK, ApartOK, Unlocked, How
<1>2. CASE Next
  BY <1>2, JoinPool, LockLeasePool, TrySlotPool, OtherPool, ReapPool DEF Next, Step
<1> QED  BY <1>1, <1>2

LEMMA PoolCorrect == Spec => [](TypeOK /\ PoolInv)
  BY TypeInit, TypeNext, PoolInit, PoolNext, PTL DEF Spec

-----------------------------------------------------------------------------
\* The command of a live baton runs under its lease and its record.
LEMMA RunningHolds ==
    ASSUME TypeOK, PoolInv, NEW w \in Workers, group[w] # {}, pc[w] # "killed"
    PROVE  /\ lease[w] = How(w) /\ lease[w] # "UN" /\ w \in holders /\ w \notin waiters
           /\ mode[w] = "shared" => slot[w] \in 0..(maxShared - 1)
<1>1. pc[w] \in {"run", "term"} /\ LocksOK(w) /\ RecordsOK(w) /\ CapOK(w)
  BY DEF PoolInv, RecordsOK
<1> QED  BY <1>1 DEF LocksOK, RecordsOK, CapOK, Holding, How

(* "no workload outlives its lease" (main.go:29), for every number of      *)
(* workers, signals and kills.                                             *)
THEOREM LeaseOutlives == Spec => []NoWorkloadOutlivesLease
<1>1. TypeOK /\ PoolInv => NoWorkloadOutlivesLease
  BY RunningHolds DEF NoWorkloadOutlivesLease
<1> QED  BY <1>1, PoolCorrect, PTL

(* An exclusive run has the machine alone (main.go:13).                    *)
THEOREM BenchAlone == Spec => []BenchRunsAlone
<1>1. TypeOK /\ PoolInv => BenchRunsAlone
  <2> SUFFICES ASSUME TypeOK, PoolInv, NEW w \in Running, mode[w] = "exclusive",
                      NEW v \in Running, v # w
               PROVE  FALSE
    BY DEF BenchRunsAlone, Running
  <2>1. v \in Workers /\ w \in Workers /\ lease[w] = "EX" /\ lease[v] # "UN"
    BY RunningHolds DEF Running, Alive, How
  <2> QED  BY <2>1 DEF PoolInv, ApartOK
<1> QED  BY <1>1, PoolCorrect, PTL

(* At most max_shared builds run at a time (main.go:16), whatever capacity *)
(* the workers that come and go ask for.                                   *)
THEOREM LaneIsBounded == Spec => []LaneBounded
<1>1. TypeOK /\ PoolInv => LaneBounded
  <2> SUFFICES ASSUME TypeOK, PoolInv PROVE LaneBounded
    OBVIOUS
  <2> DEFINE S == {w \in Running : mode[w] = "shared"}
             T == 0..(maxShared - 1)
             F == [w \in S |-> slot[w]]
  <2>1. \A w \in S : w \in Workers /\ slot[w] \in T
    BY RunningHolds DEF Running, Alive
  <2>2. \A v, w \in S : slot[v] = slot[w] => v = w
    BY <2>1 DEF PoolInv, ApartOK
  <2>3. F \in Injection(S, T)
    BY <2>1, <2>2 DEF Injection, IsInjective
  <2>4. maxShared \in Nat
    BY DEF TypeOK
  <2>5. IsFiniteSet(T) /\ Cardinality(T) = maxShared
    BY <2>4, FS_Interval
  <2>6. Cardinality(S) <= Cardinality(T)
    BY <2>3, <2>5, FS_Injection
  <2> QED  BY <2>5, <2>6 DEF LaneBounded
<1> QED  BY <1>1, PoolCorrect, PTL

(* Whichever way a baton ends, it leaves no lock and no record.            *)
THEOREM ExitClean == Spec => []ExitLeavesNothing
<1>1. TypeOK /\ PoolInv => ExitLeavesNothing
  BY DEF ExitLeavesNothing, PoolInv, LocksOK, RecordsOK
<1> QED  BY <1>1, PoolCorrect, PTL

(* A lease covers the run of its workload and ends with the baton.         *)
THEOREM LeaseExact == Spec => []LeaseCoversRun
<1>1. NoWorkloadOutlivesLease /\ ExitLeavesNothing => LeaseCoversRun
  BY DEF LeaseCoversRun
<1> QED  BY <1>1, LeaseOutlives, ExitClean, PTL
=============================================================================
