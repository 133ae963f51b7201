-------------------------- MODULE CoreAsyncProofs ---------------------------
(***************************************************************************)
(* Proofs about the two components of core.async that are goroutines of    *)
(* its own.                                                                *)
(*                                                                         *)
(* TimerDaemon, for any number of timeouts, daemon goroutines and          *)
(* CancelAll calls: the inductive invariant IInv, one lemma per group of   *)
(* its conjuncts and one step per action, and the theorems it gives.       *)
(*                                                                         *)
(* Combinators, for every combinator, capacity, predicate, function and    *)
(* number of values: the inductive invariant CombInv, one lemma per        *)
(* action, and the theorems it gives.  The two share no name.              *)
(***************************************************************************)
EXTENDS TimerDaemon, Combinators, TLAPS


(* Every step keeps every variable in its type.                            *)
LEMMA TypeStep ==
    ASSUME TypeOK, [Next]_vars
    PROVE  TypeOK'
<1> USE TimerConstants DEF TypeOK, CallPcs, DaemonPcs, NoDeadline,
        scopeVars, callVars, daemonVars, queueVars
<1>1. ASSUME Tick PROVE TypeOK'
  BY <1>1 DEF Tick
<1>2. ASSUME CancelAllSwap PROVE TypeOK'
  BY <1>2 DEF CancelAllSwap
<1>3. ASSUME NEW g \in 0..MaxGen, CancelAllCancel(g) PROVE TypeOK'
  BY <1>3 DEF CancelAllCancel
<1>4. ASSUME NEW t \in Timers, NEW ms \in Delays, TimeoutImmediate(t, ms) PROVE TypeOK'
  BY <1>4 DEF TimeoutImmediate
<1>5. ASSUME NEW t \in Timers, NEW ms \in Delays, TimeoutEntry(t, ms) PROVE TypeOK'
  BY <1>5 DEF TimeoutEntry, Deadline
<1>6. ASSUME NEW t \in Timers, TimeoutEnqueue(t) PROVE TypeOK'
  BY <1>6 DEF TimeoutEnqueue
<1>7. ASSUME NEW t \in Timers, TimeoutStart(t) PROVE TypeOK'
  BY <1>7 DEF TimeoutStart, Spawn
<1>8. ASSUME NEW t \in Timers, TimeoutKick(t) PROVE TypeOK'
  BY <1>8 DEF TimeoutKick
<1>9. ASSUME NEW d \in Daemons, ScanBegin(d) PROVE TypeOK'
  BY <1>9 DEF ScanBegin
<1>10. ASSUME NEW d \in Daemons, NEW t \in Timers, ScanEntry(d, t) PROVE TypeOK'
  BY <1>10 DEF ScanEntry
<1>11. ASSUME NEW d \in Daemons, ScanEnd(d) PROVE TypeOK'
  BY <1>11 DEF ScanEnd
<1>12. ASSUME NEW d \in Daemons, NEW t \in Timers, CloseOne(d, t) PROVE TypeOK'
  BY <1>12 DEF CloseOne
<1>13. ASSUME NEW d \in Daemons, CloseEnd(d) PROVE TypeOK'
  BY <1>13 DEF CloseEnd
<1>14. ASSUME NEW d \in Daemons, WakeKick(d) PROVE TypeOK'
  BY <1>14 DEF WakeKick
<1>15. ASSUME NEW d \in Daemons, WakeTimer(d) PROVE TypeOK'
  BY <1>15 DEF WakeTimer
<1>16. ASSUME NEW d \in Daemons, WakeDone(d) PROVE TypeOK'
  BY <1>16 DEF WakeDone
<1>17. ASSUME NEW d \in Daemons, StopBegin(d) PROVE TypeOK'
  BY <1>17 DEF StopBegin
<1>18. ASSUME NEW d \in Daemons, NEW t \in Timers, StopEntry(d, t) PROVE TypeOK'
  BY <1>18 DEF StopEntry
<1>19. ASSUME NEW d \in Daemons, StopEnd(d) PROVE TypeOK'
  BY <1>19 DEF StopEnd, Respawns
<1>20. ASSUME NEW d \in Daemons, Exit(d) PROVE TypeOK'
  BY <1>20 DEF Exit
<1>21. ASSUME NEW d \in Daemons, Respawn(d) PROVE TypeOK'
  BY <1>21 DEF Respawn, Spawn
<1>22. CASE UNCHANGED vars
  BY <1>22 DEF vars
<1>23. QED
  BY <1>1, <1>2, <1>3, <1>4, <1>5, <1>6, <1>7, <1>8, <1>9, <1>10, <1>11,
     <1>12, <1>13, <1>14, <1>15, <1>16, <1>17, <1>18, <1>19, <1>20, <1>21, <1>22
  DEF Next, timeoutChan, timerDaemon, timerDaemonStop

(* The holder of timerMu is the daemon that is in a pass, and only it.     *)
LEMMA MutexStep ==
    ASSUME TypeOK, MutexInv, [Next]_vars
    PROVE  MutexInv'
<1> USE TimerConstants DEF TypeOK, MutexInv,
        scopeVars, callVars, daemonVars, queueVars
<1>1. ASSUME Tick PROVE MutexInv'
  BY <1>1 DEF Tick
<1>2. ASSUME CancelAllSwap PROVE MutexInv'
  BY <1>2 DEF CancelAllSwap
<1>3. ASSUME NEW g \in 0..MaxGen, CancelAllCancel(g) PROVE MutexInv'
  BY <1>3 DEF CancelAllCancel
<1>4. ASSUME NEW t \in Timers, NEW ms \in Delays, TimeoutImmediate(t, ms) PROVE MutexInv'
  BY <1>4 DEF TimeoutImmediate
<1>5. ASSUME NEW t \in Timers, NEW ms \in Delays, TimeoutEntry(t, ms) PROVE MutexInv'
  BY <1>5 DEF TimeoutEntry, Deadline
<1>6. ASSUME NEW t \in Timers, TimeoutEnqueue(t) PROVE MutexInv'
  BY <1>6 DEF TimeoutEnqueue
<1>7. ASSUME NEW t \in Timers, TimeoutStart(t) PROVE MutexInv'
  BY <1>7 DEF TimeoutStart, Spawn
<1>8. ASSUME NEW t \in Timers, TimeoutKick(t) PROVE MutexInv'
  BY <1>8 DEF TimeoutKick
<1>9. ASSUME NEW d \in Daemons, ScanBegin(d) PROVE MutexInv'
  BY <1>9 DEF ScanBegin
<1>10. ASSUME NEW d \in Daemons, NEW t \in Timers, ScanEntry(d, t) PROVE MutexInv'
  BY <1>10 DEF ScanEntry
<1>11. ASSUME NEW d \in Daemons, ScanEnd(d) PROVE MutexInv'
  BY <1>11 DEF ScanEnd
<1>12. ASSUME NEW d \in Daemons, NEW t \in Timers, CloseOne(d, t) PROVE MutexInv'
  BY <1>12 DEF CloseOne
<1>13. ASSUME NEW d \in Daemons, CloseEnd(d) PROVE MutexInv'
  BY <1>13 DEF CloseEnd
<1>14. ASSUME NEW d \in Daemons, WakeKick(d) PROVE MutexInv'
  BY <1>14 DEF WakeKick
<1>15. ASSUME NEW d \in Daemons, WakeTimer(d) PROVE MutexInv'
  BY <1>15 DEF WakeTimer
<1>16. ASSUME NEW d \in Daemons, WakeDone(d) PROVE MutexInv'
  BY <1>16 DEF WakeDone
<1>17. ASSUME NEW d \in Daemons, StopBegin(d) PROVE MutexInv'
  BY <1>17 DEF StopBegin
<1>18. ASSUME NEW d \in Daemons, NEW t \in Timers, StopEntry(d, t) PROVE MutexInv'
  BY <1>18 DEF StopEntry
<1>19. ASSUME NEW d \in Daemons, StopEnd(d) PROVE MutexInv'
  BY <1>19 DEF StopEnd, Respawns
<1>20. ASSUME NEW d \in Daemons, Exit(d) PROVE MutexInv'
  BY <1>20 DEF Exit
<1>21. ASSUME NEW d \in Daemons, Respawn(d) PROVE MutexInv'
  BY <1>21 DEF Respawn, Spawn
<1>22. CASE UNCHANGED vars
  BY <1>22 DEF vars
<1>23. QED
  BY <1>1, <1>2, <1>3, <1>4, <1>5, <1>6, <1>7, <1>8, <1>9, <1>10, <1>11,
     <1>12, <1>13, <1>14, <1>15, <1>16, <1>17, <1>18, <1>19, <1>20, <1>21, <1>22
  DEF Next, timeoutChan, timerDaemon, timerDaemonStop

(* A pass in progress covers entries still queued; a due list is non-empty *)
(* only between the pass that fills it and the loop that closes it.        *)
LEMMA LocalStep ==
    ASSUME TypeOK, MutexInv, LocalInv, [Next]_vars
    PROVE  LocalInv'
<1> USE TimerConstants DEF TypeOK, MutexInv, LocalInv,
        scopeVars, callVars, daemonVars, queueVars
<1>1. ASSUME Tick PROVE LocalInv'
  BY <1>1 DEF Tick
<1>2. ASSUME CancelAllSwap PROVE LocalInv'
  BY <1>2 DEF CancelAllSwap
<1>3. ASSUME NEW g \in 0..MaxGen, CancelAllCancel(g) PROVE LocalInv'
  BY <1>3 DEF CancelAllCancel
<1>4. ASSUME NEW t \in Timers, NEW ms \in Delays, TimeoutImmediate(t, ms) PROVE LocalInv'
  BY <1>4 DEF TimeoutImmediate
<1>5. ASSUME NEW t \in Timers, NEW ms \in Delays, TimeoutEntry(t, ms) PROVE LocalInv'
  BY <1>5 DEF TimeoutEntry, Deadline
<1>6. ASSUME NEW t \in Timers, TimeoutEnqueue(t) PROVE LocalInv'
  BY <1>6 DEF TimeoutEnqueue
<1>7. ASSUME NEW t \in Timers, TimeoutStart(t) PROVE LocalInv'
  BY <1>7 DEF TimeoutStart, Spawn
<1>8. ASSUME NEW t \in Timers, TimeoutKick(t) PROVE LocalInv'
  BY <1>8 DEF TimeoutKick
<1>9. ASSUME NEW d \in Daemons, ScanBegin(d) PROVE LocalInv'
  BY <1>9 DEF ScanBegin
<1>10. ASSUME NEW d \in Daemons, NEW t \in Timers, ScanEntry(d, t) PROVE LocalInv'
  BY <1>10 DEF ScanEntry
<1>11. ASSUME NEW d \in Daemons, ScanEnd(d) PROVE LocalInv'
  BY <1>11 DEF ScanEnd
<1>12. ASSUME NEW d \in Daemons, NEW t \in Timers, CloseOne(d, t) PROVE LocalInv'
  BY <1>12 DEF CloseOne
<1>13. ASSUME NEW d \in Daemons, CloseEnd(d) PROVE LocalInv'
  BY <1>13 DEF CloseEnd
<1>14. ASSUME NEW d \in Daemons, WakeKick(d) PROVE LocalInv'
  BY <1>14 DEF WakeKick
<1>15. ASSUME NEW d \in Daemons, WakeTimer(d) PROVE LocalInv'
  BY <1>15 DEF WakeTimer
<1>16. ASSUME NEW d \in Daemons, WakeDone(d) PROVE LocalInv'
  BY <1>16 DEF WakeDone
<1>17. ASSUME NEW d \in Daemons, StopBegin(d) PROVE LocalInv'
  BY <1>17 DEF StopBegin
<1>18. ASSUME NEW d \in Daemons, NEW t \in Timers, StopEntry(d, t) PROVE LocalInv'
  BY <1>18 DEF StopEntry
<1>19. ASSUME NEW d \in Daemons, StopEnd(d) PROVE LocalInv'
  BY <1>19 DEF StopEnd, Respawns
<1>20. ASSUME NEW d \in Daemons, Exit(d) PROVE LocalInv'
  BY <1>20 DEF Exit
<1>21. ASSUME NEW d \in Daemons, Respawn(d) PROVE LocalInv'
  BY <1>21 DEF Respawn, Spawn
<1>22. CASE UNCHANGED vars
  BY <1>22 DEF vars
<1>23. QED
  BY <1>1, <1>2, <1>3, <1>4, <1>5, <1>6, <1>7, <1>8, <1>9, <1>10, <1>11,
     <1>12, <1>13, <1>14, <1>15, <1>16, <1>17, <1>18, <1>19, <1>20, <1>21, <1>22
  DEF Next, timeoutChan, timerDaemon, timerDaemonStop

(* The role of serving the queue is claimed, kept, handed over or given up *)
(* by one goroutine at a time.                                             *)
LEMMA ServeStep ==
    ASSUME TypeOK, MutexInv, OneServer, [Next]_vars
    PROVE  OneServer'
<1> USE TimerConstants DEF TypeOK, CallPcs, DaemonPcs, MutexInv, OneServer, Serving,
        scopeVars, callVars, daemonVars, queueVars
<1>1. ASSUME Tick PROVE OneServer'
  BY <1>1 DEF Tick
<1>2. ASSUME CancelAllSwap PROVE OneServer'
  BY <1>2 DEF CancelAllSwap
<1>3. ASSUME NEW g \in 0..MaxGen, CancelAllCancel(g) PROVE OneServer'
  BY <1>3 DEF CancelAllCancel
<1>4. ASSUME NEW t \in Timers, NEW ms \in Delays, TimeoutImmediate(t, ms) PROVE OneServer'
  BY <1>4 DEF TimeoutImmediate
<1>5. ASSUME NEW t \in Timers, NEW ms \in Delays, TimeoutEntry(t, ms) PROVE OneServer'
  BY <1>5 DEF TimeoutEntry, Deadline
<1>6. ASSUME NEW t \in Timers, TimeoutEnqueue(t) PROVE OneServer'
  BY <1>6 DEF TimeoutEnqueue
<1>7. ASSUME NEW t \in Timers, TimeoutStart(t) PROVE OneServer'
  BY <1>7 DEF TimeoutStart, Spawn
<1>8. ASSUME NEW t \in Timers, TimeoutKick(t) PROVE OneServer'
  BY <1>8 DEF TimeoutKick
<1>9. ASSUME NEW d \in Daemons, ScanBegin(d) PROVE OneServer'
  BY <1>9 DEF ScanBegin
<1>10. ASSUME NEW d \in Daemons, NEW t \in Timers, ScanEntry(d, t) PROVE OneServer'
  BY <1>10 DEF ScanEntry
<1>11. ASSUME NEW d \in Daemons, ScanEnd(d) PROVE OneServer'
  BY <1>11 DEF ScanEnd
<1>12. ASSUME NEW d \in Daemons, NEW t \in Timers, CloseOne(d, t) PROVE OneServer'
  BY <1>12 DEF CloseOne
<1>13. ASSUME NEW d \in Daemons, CloseEnd(d) PROVE OneServer'
  BY <1>13 DEF CloseEnd
<1>14. ASSUME NEW d \in Daemons, WakeKick(d) PROVE OneServer'
  BY <1>14 DEF WakeKick
<1>15. ASSUME NEW d \in Daemons, WakeTimer(d) PROVE OneServer'
  BY <1>15 DEF WakeTimer
<1>16. ASSUME NEW d \in Daemons, WakeDone(d) PROVE OneServer'
  BY <1>16 DEF WakeDone
<1>17. ASSUME NEW d \in Daemons, StopBegin(d) PROVE OneServer'
  BY <1>17 DEF StopBegin
<1>18. ASSUME NEW d \in Daemons, NEW t \in Timers, StopEntry(d, t) PROVE OneServer'
  BY <1>18 DEF StopEntry
<1>19. ASSUME NEW d \in Daemons, StopEnd(d) PROVE OneServer'
  <2>1. CASE timerQueue = {}
    <3>1. ~timerRunning' /\ timerQueue' = {}
      BY <1>19, <2>1 DEF StopEnd, Respawns
    <3>2. \A e \in Daemons : ~Serving(e)'
      BY <1>19, <2>1 DEF StopEnd, Respawns
    <3>3. \A t \in Timers : tpc'[t] # "start"
      BY <1>19 DEF StopEnd
    <3>4. QED
      BY <3>1, <3>2, <3>3
  <2>2. CASE timerQueue # {}
    <3>1. Serving(d) /\ Serving(d)' /\ timerRunning'
      BY <1>19, <2>2 DEF StopEnd, Respawns
    <3>2. \A e \in Daemons : e # d => ~Serving(e) /\ ~Serving(e)'
      BY <1>19, <3>1 DEF StopEnd
    <3>3. QED
      BY <1>19, <2>2, <3>1, <3>2 DEF StopEnd, Respawns
  <2>3. QED
    BY <2>1, <2>2
<1>20. ASSUME NEW d \in Daemons, Exit(d) PROVE OneServer'
  BY <1>20 DEF Exit
<1>21. ASSUME NEW d \in Daemons, Respawn(d) PROVE OneServer'
  BY <1>21 DEF Respawn, Spawn
<1>22. CASE UNCHANGED vars
  BY <1>22 DEF vars
<1>23. QED
  BY <1>1, <1>2, <1>3, <1>4, <1>5, <1>6, <1>7, <1>8, <1>9, <1>10, <1>11,
     <1>12, <1>13, <1>14, <1>15, <1>16, <1>17, <1>18, <1>19, <1>20, <1>21, <1>22
  DEF Next, timeoutChan, timerDaemon, timerDaemonStop

(* A queued entry that one pass moves to its due list is still accounted   *)
(* for exactly once.                                                       *)
LEMMA MoveToDue ==
    ASSUME EachClosedOnce, NEW d \in Daemons, NEW t \in timerQueue,
           t \in Timers, UNCHANGED <<tpc, closes>>,
           timerQueue' = timerQueue \ {t},
           \A e \in Daemons :
              due'[e] = IF e = d THEN due[e] \union {t} ELSE due[e]
    PROVE  EachClosedOnce'
<1> SUFFICES ASSUME NEW u \in Timers
             PROVE  /\ closes'[u] \in 0..1
                    /\ u \in timerQueue' => closes'[u] = 0
                    /\ \A e \in Daemons : u \in due'[e] =>
                          /\ closes'[u] = 0 /\ u \notin timerQueue'
                          /\ \A f \in Daemons : u \in due'[f] => e = f
                    /\ Enqueued(u)' <=> \/ closes'[u] = 1
                                        \/ u \in timerQueue'
                                        \/ \E e \in Daemons : u \in due'[e]
  BY DEF EachClosedOnce
<1>1. CASE u = t
  <2>1. closes[t] = 0 /\ Enqueued(t) /\ \A e \in Daemons : t \notin due[e]
    BY DEF EachClosedOnce
  <2>2. closes'[t] = 0 /\ Enqueued(t)' /\ t \in due'[d]
    BY <2>1 DEF Enqueued
  <2>3. \A e \in Daemons : e # d => t \notin due'[e]
    BY <2>1
  <2>4. QED
    BY <1>1, <2>2, <2>3
<1>2. CASE u # t
  <2>1. u \in timerQueue' <=> u \in timerQueue
    BY <1>2
  <2>2. \A e \in Daemons : u \in due'[e] <=> u \in due[e]
    BY <1>2
  <2>3. closes'[u] = closes[u] /\ (Enqueued(u)' <=> Enqueued(u))
    BY DEF Enqueued
  <2>4. QED
    BY <2>1, <2>2, <2>3 DEF EachClosedOnce
<1>3. QED
  BY <1>1, <1>2

(* An entry moves from its caller to the queue, to one due list, to closed *)
(* and is never in two of these places.                                    *)
LEMMA ClosedOnceStep ==
    ASSUME TypeOK, LocalInv, EachClosedOnce, [Next]_vars
    PROVE  EachClosedOnce'
<1> USE TimerConstants DEF TypeOK, LocalInv, EachClosedOnce, Enqueued,
        scopeVars, callVars, daemonVars, queueVars
<1>1. ASSUME Tick PROVE EachClosedOnce'
  BY <1>1 DEF Tick
<1>2. ASSUME CancelAllSwap PROVE EachClosedOnce'
  BY <1>2 DEF CancelAllSwap
<1>3. ASSUME NEW g \in 0..MaxGen, CancelAllCancel(g) PROVE EachClosedOnce'
  BY <1>3 DEF CancelAllCancel
<1>4. ASSUME NEW t \in Timers, NEW ms \in Delays, TimeoutImmediate(t, ms) PROVE EachClosedOnce'
  BY <1>4 DEF TimeoutImmediate
<1>5. ASSUME NEW t \in Timers, NEW ms \in Delays, TimeoutEntry(t, ms) PROVE EachClosedOnce'
  BY <1>5 DEF TimeoutEntry, Deadline
<1>6. ASSUME NEW t \in Timers, TimeoutEnqueue(t) PROVE EachClosedOnce'
  BY <1>6 DEF TimeoutEnqueue
<1>7. ASSUME NEW t \in Timers, TimeoutStart(t) PROVE EachClosedOnce'
  BY <1>7 DEF TimeoutStart, Spawn
<1>8. ASSUME NEW t \in Timers, TimeoutKick(t) PROVE EachClosedOnce'
  BY <1>8 DEF TimeoutKick
<1>9. ASSUME NEW d \in Daemons, ScanBegin(d) PROVE EachClosedOnce'
  BY <1>9 DEF ScanBegin
<1>10. ASSUME NEW d \in Daemons, NEW t \in Timers, ScanEntry(d, t) PROVE EachClosedOnce'
  <2> HIDE DEF EachClosedOnce, Enqueued, LocalInv
  <2>1. t \in timerQueue
    BY <1>10 DEF ScanEntry, LocalInv
  <2>2. CASE deadline[t] <= dnow[d] \/ EntryCancelled(t)
    <3>1. /\ timerQueue' = timerQueue \ {t} /\ UNCHANGED <<tpc, closes>>
          /\ \A e \in Daemons :
                due'[e] = IF e = d THEN due[e] \union {t} ELSE due[e]
      BY <1>10, <2>2 DEF ScanEntry
    <3>2. QED
      BY <2>1, <3>1, MoveToDue
  <2>3. CASE ~(deadline[t] <= dnow[d] \/ EntryCancelled(t))
    <3>1. UNCHANGED <<tpc, closes, due, timerQueue>>
      BY <1>10, <2>3 DEF ScanEntry
    <3>2. QED
      BY <3>1 DEF EachClosedOnce, Enqueued
  <2>4. QED
    BY <2>2, <2>3
<1>11. ASSUME NEW d \in Daemons, ScanEnd(d) PROVE EachClosedOnce'
  BY <1>11 DEF ScanEnd
<1>12. ASSUME NEW d \in Daemons, NEW t \in Timers, CloseOne(d, t) PROVE EachClosedOnce'
  BY <1>12 DEF CloseOne
<1>13. ASSUME NEW d \in Daemons, CloseEnd(d) PROVE EachClosedOnce'
  BY <1>13 DEF CloseEnd
<1>14. ASSUME NEW d \in Daemons, WakeKick(d) PROVE EachClosedOnce'
  BY <1>14 DEF WakeKick
<1>15. ASSUME NEW d \in Daemons, WakeTimer(d) PROVE EachClosedOnce'
  BY <1>15 DEF WakeTimer
<1>16. ASSUME NEW d \in Daemons, WakeDone(d) PROVE EachClosedOnce'
  BY <1>16 DEF WakeDone
<1>17. ASSUME NEW d \in Daemons, StopBegin(d) PROVE EachClosedOnce'
  BY <1>17 DEF StopBegin
<1>18. ASSUME NEW d \in Daemons, NEW t \in Timers, StopEntry(d, t) PROVE EachClosedOnce'
  <2> HIDE DEF EachClosedOnce, Enqueued, LocalInv
  <2>1. t \in timerQueue
    BY <1>18 DEF StopEntry, LocalInv
  <2>2. CASE EntryCancelled(t)
    <3>1. /\ timerQueue' = timerQueue \ {t} /\ UNCHANGED <<tpc, closes>>
          /\ \A e \in Daemons :
                due'[e] = IF e = d THEN due[e] \union {t} ELSE due[e]
      BY <1>18, <2>2 DEF StopEntry
    <3>2. QED
      BY <2>1, <3>1, MoveToDue
  <2>3. CASE ~(EntryCancelled(t))
    <3>1. UNCHANGED <<tpc, closes, due, timerQueue>>
      BY <1>18, <2>3 DEF StopEntry
    <3>2. QED
      BY <3>1 DEF EachClosedOnce, Enqueued
  <2>4. QED
    BY <2>2, <2>3
<1>19. ASSUME NEW d \in Daemons, StopEnd(d) PROVE EachClosedOnce'
  BY <1>19 DEF StopEnd, Respawns
<1>20. ASSUME NEW d \in Daemons, Exit(d) PROVE EachClosedOnce'
  BY <1>20 DEF Exit
<1>21. ASSUME NEW d \in Daemons, Respawn(d) PROVE EachClosedOnce'
  BY <1>21 DEF Respawn, Spawn
<1>22. CASE UNCHANGED vars
  BY <1>22 DEF vars
<1>23. QED
  BY <1>1, <1>2, <1>3, <1>4, <1>5, <1>6, <1>7, <1>8, <1>9, <1>10, <1>11,
     <1>12, <1>13, <1>14, <1>15, <1>16, <1>17, <1>18, <1>19, <1>20, <1>21, <1>22
  DEF Next, timeoutChan, timerDaemon, timerDaemonStop

(* What a pass selects stays closable: time and cancellation only grow.    *)
LEMMA EarlyStep ==
    ASSUME TypeOK, LocalInv, EachClosedOnce, DueInv, NeverEarly, [Next]_vars
    PROVE  DueInv' /\ NeverEarly'
<1> USE TimerConstants DEF TypeOK, LocalInv, EachClosedOnce, Enqueued, DueInv,
        NeverEarly, EntryCancelled,
        scopeVars, callVars, daemonVars, queueVars
<1>1. ASSUME Tick PROVE DueInv' /\ NeverEarly'
  BY <1>1 DEF Tick
<1>2. ASSUME CancelAllSwap PROVE DueInv' /\ NeverEarly'
  BY <1>2 DEF CancelAllSwap
<1>3. ASSUME NEW g \in 0..MaxGen, CancelAllCancel(g) PROVE DueInv' /\ NeverEarly'
  BY <1>3 DEF CancelAllCancel
<1>4. ASSUME NEW t \in Timers, NEW ms \in Delays, TimeoutImmediate(t, ms) PROVE DueInv' /\ NeverEarly'
  BY <1>4 DEF TimeoutImmediate
<1>5. ASSUME NEW t \in Timers, NEW ms \in Delays, TimeoutEntry(t, ms) PROVE DueInv' /\ NeverEarly'
  BY <1>5 DEF TimeoutEntry, Deadline
<1>6. ASSUME NEW t \in Timers, TimeoutEnqueue(t) PROVE DueInv' /\ NeverEarly'
  BY <1>6 DEF TimeoutEnqueue
<1>7. ASSUME NEW t \in Timers, TimeoutStart(t) PROVE DueInv' /\ NeverEarly'
  BY <1>7 DEF TimeoutStart, Spawn
<1>8. ASSUME NEW t \in Timers, TimeoutKick(t) PROVE DueInv' /\ NeverEarly'
  BY <1>8 DEF TimeoutKick
<1>9. ASSUME NEW d \in Daemons, ScanBegin(d) PROVE DueInv' /\ NeverEarly'
  BY <1>9 DEF ScanBegin
<1>10. ASSUME NEW d \in Daemons, NEW t \in Timers, ScanEntry(d, t) PROVE DueInv' /\ NeverEarly'
  BY <1>10 DEF ScanEntry
<1>11. ASSUME NEW d \in Daemons, ScanEnd(d) PROVE DueInv' /\ NeverEarly'
  BY <1>11 DEF ScanEnd
<1>12. ASSUME NEW d \in Daemons, NEW t \in Timers, CloseOne(d, t) PROVE DueInv' /\ NeverEarly'
  BY <1>12 DEF CloseOne
<1>13. ASSUME NEW d \in Daemons, CloseEnd(d) PROVE DueInv' /\ NeverEarly'
  BY <1>13 DEF CloseEnd
<1>14. ASSUME NEW d \in Daemons, WakeKick(d) PROVE DueInv' /\ NeverEarly'
  BY <1>14 DEF WakeKick
<1>15. ASSUME NEW d \in Daemons, WakeTimer(d) PROVE DueInv' /\ NeverEarly'
  BY <1>15 DEF WakeTimer
<1>16. ASSUME NEW d \in Daemons, WakeDone(d) PROVE DueInv' /\ NeverEarly'
  BY <1>16 DEF WakeDone
<1>17. ASSUME NEW d \in Daemons, StopBegin(d) PROVE DueInv' /\ NeverEarly'
  BY <1>17 DEF StopBegin
<1>18. ASSUME NEW d \in Daemons, NEW t \in Timers, StopEntry(d, t) PROVE DueInv' /\ NeverEarly'
  BY <1>18 DEF StopEntry
<1>19. ASSUME NEW d \in Daemons, StopEnd(d) PROVE DueInv' /\ NeverEarly'
  BY <1>19 DEF StopEnd, Respawns
<1>20. ASSUME NEW d \in Daemons, Exit(d) PROVE DueInv' /\ NeverEarly'
  BY <1>20 DEF Exit
<1>21. ASSUME NEW d \in Daemons, Respawn(d) PROVE DueInv' /\ NeverEarly'
  BY <1>21 DEF Respawn, Spawn
<1>22. CASE UNCHANGED vars
  BY <1>22 DEF vars
<1>23. QED
  BY <1>1, <1>2, <1>3, <1>4, <1>5, <1>6, <1>7, <1>8, <1>9, <1>10, <1>11,
     <1>12, <1>13, <1>14, <1>15, <1>16, <1>17, <1>18, <1>19, <1>20, <1>21, <1>22
  DEF Next, timeoutChan, timerDaemon, timerDaemonStop

(* next covers what the pass kept; what is queued after the pass comes     *)
(* with a kick, because a serving daemon makes its caller take that branch. *)
LEMMA WakeStep ==
    ASSUME TypeOK, MutexInv, OneServer, EachClosedOnce, ScanInv, NoLostWakeup, [Next]_vars
    PROVE  ScanInv' /\ NoLostWakeup'
<1> USE TimerConstants DEF TypeOK, MutexInv, EachClosedOnce, Enqueued,
        ScanInv, NoLostWakeup, KickPending, NoDeadline,
        scopeVars, callVars, daemonVars, queueVars
<1>1. ASSUME Tick PROVE ScanInv' /\ NoLostWakeup'
  BY <1>1 DEF Tick
<1>2. ASSUME CancelAllSwap PROVE ScanInv' /\ NoLostWakeup'
  BY <1>2 DEF CancelAllSwap
<1>3. ASSUME NEW g \in 0..MaxGen, CancelAllCancel(g) PROVE ScanInv' /\ NoLostWakeup'
  BY <1>3 DEF CancelAllCancel
<1>4. ASSUME NEW t \in Timers, NEW ms \in Delays, TimeoutImmediate(t, ms) PROVE ScanInv' /\ NoLostWakeup'
  BY <1>4 DEF TimeoutImmediate
<1>5. ASSUME NEW t \in Timers, NEW ms \in Delays, TimeoutEntry(t, ms) PROVE ScanInv' /\ NoLostWakeup'
  BY <1>5 DEF TimeoutEntry, Deadline
<1>6. ASSUME NEW t \in Timers, TimeoutEnqueue(t) PROVE ScanInv' /\ NoLostWakeup'
  BY <1>6 DEF TimeoutEnqueue, OneServer, Serving
<1>7. ASSUME NEW t \in Timers, TimeoutStart(t) PROVE ScanInv' /\ NoLostWakeup'
  BY <1>7 DEF TimeoutStart, Spawn
<1>8. ASSUME NEW t \in Timers, TimeoutKick(t) PROVE ScanInv' /\ NoLostWakeup'
  BY <1>8 DEF TimeoutKick
<1>9. ASSUME NEW d \in Daemons, ScanBegin(d) PROVE ScanInv' /\ NoLostWakeup'
  BY <1>9 DEF ScanBegin
<1>10. ASSUME NEW d \in Daemons, NEW t \in Timers, ScanEntry(d, t) PROVE ScanInv' /\ NoLostWakeup'
  BY <1>10 DEF ScanEntry
<1>11. ASSUME NEW d \in Daemons, ScanEnd(d) PROVE ScanInv' /\ NoLostWakeup'
  BY <1>11 DEF ScanEnd
<1>12. ASSUME NEW d \in Daemons, NEW t \in Timers, CloseOne(d, t) PROVE ScanInv' /\ NoLostWakeup'
  BY <1>12 DEF CloseOne
<1>13. ASSUME NEW d \in Daemons, CloseEnd(d) PROVE ScanInv' /\ NoLostWakeup'
  BY <1>13 DEF CloseEnd
<1>14. ASSUME NEW d \in Daemons, WakeKick(d) PROVE ScanInv' /\ NoLostWakeup'
  BY <1>14 DEF WakeKick, OneServer, Serving
<1>15. ASSUME NEW d \in Daemons, WakeTimer(d) PROVE ScanInv' /\ NoLostWakeup'
  BY <1>15 DEF WakeTimer
<1>16. ASSUME NEW d \in Daemons, WakeDone(d) PROVE ScanInv' /\ NoLostWakeup'
  BY <1>16 DEF WakeDone
<1>17. ASSUME NEW d \in Daemons, StopBegin(d) PROVE ScanInv' /\ NoLostWakeup'
  BY <1>17 DEF StopBegin
<1>18. ASSUME NEW d \in Daemons, NEW t \in Timers, StopEntry(d, t) PROVE ScanInv' /\ NoLostWakeup'
  BY <1>18 DEF StopEntry
<1>19. ASSUME NEW d \in Daemons, StopEnd(d) PROVE ScanInv' /\ NoLostWakeup'
  BY <1>19 DEF StopEnd, Respawns
<1>20. ASSUME NEW d \in Daemons, Exit(d) PROVE ScanInv' /\ NoLostWakeup'
  BY <1>20 DEF Exit
<1>21. ASSUME NEW d \in Daemons, Respawn(d) PROVE ScanInv' /\ NoLostWakeup'
  <2>1. PICK e \in Daemons : dpc' = [dpc EXCEPT ![d] = "none", ![e] = "lock"]
    BY <1>21 DEF Respawn, Spawn
  <2>2. /\ UNCHANGED <<timerQueue, deadline, todo, next, timerKick, tpc>>
        /\ \A f \in Daemons : dpc'[f] \in {"scan", "close", "select"} => dpc'[f] = dpc[f]
    BY <1>21, <2>1 DEF Respawn
  <2>3. QED
    BY <2>2
<1>22. CASE UNCHANGED vars
  BY <1>22 DEF vars
<1>23. QED
  BY <1>1, <1>2, <1>3, <1>4, <1>5, <1>6, <1>7, <1>8, <1>9, <1>10, <1>11,
     <1>12, <1>13, <1>14, <1>15, <1>16, <1>17, <1>18, <1>19, <1>20, <1>21, <1>22
  DEF Next, timeoutChan, timerDaemon, timerDaemonStop

-----------------------------------------------------------------------------
(* IInv holds initially and every step preserves it.                       *)
THEOREM InductiveInvariant == Spec => []IInv
<1>1. Init => IInv
  <2> SUFFICES ASSUME Init PROVE IInv
    OBVIOUS
  <2> USE TimerConstants DEF Init
  <2>1. TypeOK
    <3>1. timerKick \in BOOLEAN /\ timerRunning \in BOOLEAN
      OBVIOUS
    <3>2. now \in 0..MaxTime /\ gen \in 0..MaxGen /\ NoDeadline \in 0..NoDeadline
      BY DEF NoDeadline
    <3>3. QED
      BY <3>1, <3>2 DEF TypeOK, CallPcs, DaemonPcs
  <2>2. MutexInv /\ LocalInv
    BY DEF MutexInv, LocalInv
  <2>6. OneServer
    BY DEF OneServer, Serving
  <2>3. EachClosedOnce /\ DueInv /\ NeverEarly
    BY DEF EachClosedOnce, Enqueued, DueInv, NeverEarly
  <2>4. ScanInv /\ NoLostWakeup
    BY DEF ScanInv, NoLostWakeup
  <2>5. QED
    BY <2>1, <2>2, <2>3, <2>4, <2>6 DEF IInv
<1>2. IInv /\ [Next]_vars => IInv'
  BY TypeStep, MutexStep, LocalStep, ServeStep, ClosedOnceStep, EarlyStep,
     WakeStep
  DEF IInv
<1>3. QED
  BY <1>1, <1>2, PTL DEF Spec

(* The state of the daemon is well typed in every reachable state.         *)
THEOREM TypeCorrect == Spec => []TypeOK
<1>1. IInv => TypeOK
  BY DEF IInv
<1>2. QED
  BY <1>1, InductiveInvariant, PTL

(* One goroutine is in charge of the timeout queue whenever it holds an    *)
(* entry, and never two (async.go:42, "ONE long-lived goroutine").         *)
THEOREM SingleDaemon == Spec => []OneServer
<1>1. IInv => OneServer
  BY DEF IInv
<1>2. QED
  BY <1>1, InductiveInvariant, PTL

(* No queued timeout is lost and no timeout channel is closed twice by the *)
(* daemons: every entry is queued, due in one daemon, or closed once.      *)
THEOREM ClosedOnce == Spec => []EachClosedOnce
<1>1. IInv => EachClosedOnce
  BY DEF IInv
<1>2. QED
  BY <1>1, InductiveInvariant, PTL

(* Besides, it closes before its deadline only when its own context        *)
(* generation has been cancelled (async.go:53).                            *)
THEOREM ClosedInTime == Spec => []ClosedOnceInTime
<1>1. IInv => ClosedOnceInTime
  BY DEF IInv, ClosedOnceInTime
<1>2. QED
  BY <1>1, InductiveInvariant, PTL

(* A parked daemon always wakes by the earliest deadline in the queue, or  *)
(* has a kick on its way.                                                  *)
THEOREM WakesInTime == Spec => []NoLostWakeup
<1>1. IInv => NoLostWakeup
  BY DEF IInv
<1>2. QED
  BY <1>1, InductiveInvariant, PTL

-----------------------------------------------------------------------------
(* The combinators.                                                        *)


\* What appending does to a sequence.
LEMMA SeqAppend ==
    ASSUME NEW S, NEW s \in Seq(S), NEW x \in S
    PROVE  /\ Append(s, x) \in Seq(S) /\ Len(Append(s, x)) = Len(s) + 1
           /\ Append(s, x)[Len(s) + 1] = x
           /\ \A i \in 1..Len(s) : Append(s, x)[i] = s[i]
OBVIOUS

\* What is appended to the second of two sequences is last in both.
LEMMA ConcatAppend ==
    ASSUME NEW S, NEW s \in Seq(S), NEW t \in Seq(S), NEW x \in S
    PROVE  s \o Append(t, x) = Append(s \o t, x)
OBVIOUS

\* Moving the head of the second sequence to the first one changes nothing.
LEMMA ConcatMove ==
    ASSUME NEW S, NEW s \in Seq(S), NEW t \in Seq(S), t # <<>>
    PROVE  /\ Append(s, Head(t)) \o Tail(t) = s \o t
           /\ Append(s, Head(t)) \in Seq(S) /\ Tail(t) \in Seq(S)
           /\ Len(Tail(t)) = Len(t) - 1
OBVIOUS

\* Appending to a sequence of one.
LEMMA PairAppend ==
    ASSUME NEW a, NEW b
    PROVE  Append(<<a>>, b) = <<a, b>>
<1> DEFINE S == {a, b}
           f == Append(<<a>>, b)
           g == <<a, b>>
<1>1. f \in Seq(S) /\ Len(f) = 2 /\ f[1] = a /\ f[2] = b
  <2>1. <<a>> \in Seq(S) /\ Len(<<a>>) = 1 /\ <<a>>[1] = a
    OBVIOUS
  <2> QED  BY <2>1
<1>2. g \in Seq(S) /\ Len(g) = 2 /\ g[1] = a /\ g[2] = b
  OBVIOUS
<1>3. f \in [1..2 -> S] /\ g \in [1..2 -> S]
  <2> HIDE DEF f, g
  <2> QED  BY <1>1, <1>2
<1> HIDE DEF f, g
<1>4. \A i \in 1..2 : f[i] = g[i]
  <2>1. \A i \in 1..2 : i = 1 \/ i = 2
    OBVIOUS
  <2> QED  BY <1>1, <1>2, <2>1
<1>5. f = g
  BY <1>3, <1>4
<1> QED  BY <1>5 DEF f, g

Msgs == Seq(Values)

\* What has been emitted is a sequence of messages.
LEMMA EmittedType ==
    ASSUME CombTypeOK, NEW o \in Outs
    PROVE  /\ Emitted(o) \in Seq(Msgs) /\ Len(Emitted(o)) \in Nat
           /\ DOMAIN Emitted(o) = 1..Len(Emitted(o))
<1>1. taken[o] \in Seq(Msgs) /\ chan[o] \in Seq(Msgs)
  BY DEF CombTypeOK, Msgs
<1>2. taken[o] \o chan[o] \in Seq(Msgs)
  BY <1>1
<1>3. Emitted(o) \in Seq(Msgs)
  BY <1>2 DEF Emitted
<1> QED  BY <1>3

\* The sets that only depend on the combinator.
LEMMA OpStill ==
    ASSUME op' = op, cap' = cap
    PROVE  /\ Ins' = Ins /\ Dsts' = Dsts /\ Closer' = Closer /\ Capacity' = Capacity
           /\ \A i : Reader(i)' = Reader(i)
           /\ \A v, o : Meant(v, o)' <=> Meant(v, o)
BY DEF Ins, Dsts, Closer, Capacity, Reader, Meant

\* An output to which nothing was sent carries what it carried.
LEMMA OutStill ==
    ASSUME op' = op, cap' = cap, NEW o, Emitted(o)' = Emitted(o)
    PROVE  /\ \A v : InOutput(v, o)' <=> InOutput(v, o)
           /\ \A i, k : CameUpTo(i, k, o)' <=> CameUpTo(i, k, o)
<1>1. \A v : InOutput(v, o)' <=> InOutput(v, o)
  BY DEF InOutput
<1> QED  BY <1>1, OpStill DEF CameUpTo

\* A value that was in an output stays in it when one is sent to it.
LEMMA OutGrows ==
    ASSUME op' = op, cap' = cap, CombTypeOK, NEW o \in Outs, NEW m \in Msgs,
           Emitted(o)' = Append(Emitted(o), m)
    PROVE  /\ \A v : InOutput(v, o)' <=> InOutput(v, o) \/ m = <<v>>
           /\ \A i, k : CameUpTo(i, k, o) => CameUpTo(i, k, o)'
<1> DEFINE e == Emitted(o)
<1>1. /\ e \in Seq(Msgs) /\ Len(e) \in Nat /\ DOMAIN e = 1..Len(e)
  BY EmittedType
<1>2. /\ Append(e, m) \in Seq(Msgs) /\ Len(Append(e, m)) = Len(e) + 1
      /\ Append(e, m)[Len(e) + 1] = m
      /\ \A i \in 1..Len(e) : Append(e, m)[i] = e[i]
  BY <1>1, SeqAppend
<1>3. DOMAIN Append(e, m) = 1..Len(e) + 1
  BY <1>1, <1>2
<1> DEFINE f == Append(e, m)
           l == Len(e)
<1>4. /\ l \in Nat /\ DOMAIN e = 1..l /\ DOMAIN f = 1..l + 1 /\ f[l + 1] = m
      /\ \A i \in 1..l : f[i] = e[i]
  BY <1>1, <1>2, <1>3
<1> HIDE DEF e, f, l
<1>5. \A v : InOutput(v, o)' <=> InOutput(v, o) \/ m = <<v>>
  <2> TAKE v
  <2>1. InOutput(v, o) <=> \E n \in 1..l : e[n] = <<v>>
    BY <1>4 DEF InOutput, e
  <2>2. InOutput(v, o)' <=> \E n \in 1..l + 1 : f[n] = <<v>>
    BY <1>4 DEF InOutput, e, f
  <2>3. \A n : n \in 1..l + 1 <=> n \in 1..l \/ n = l + 1
    BY <1>4
  <2> QED  BY <1>4, <2>1, <2>2, <2>3
<1> QED  BY <1>5, OpStill DEF CameUpTo

\* Copies stay in order where nothing is sent.
LEMMA CopiesStill ==
    ASSUME op' = op, cap' = cap, NEW o, Emitted(o)' = Emitted(o), CombTypeOK,
           CopiesInOrder(o), read' \in [Inputs -> 0..MaxVals],
           \A i \in Inputs : read'[i] >= read[i]
    PROVE  CopiesInOrder(o)'
<1>1. \A i \in Ins : i \in Inputs /\ read[i] \in 0..MaxVals /\ read'[i] \in 0..MaxVals
  BY DEF Ins, Inputs, CombTypeOK
<1>2. \A i \in Ins : \A k \in 1..read[i] : k \in 1..read'[i]
  BY <1>1, CombinatorsConstants
<1>3. \A i, k : Meant(<<i, k>>, o)' <=> Meant(<<i, k>>, o)
  BY OpStill
<1>4. \A i, k : CameUpTo(i, k, o)' <=> CameUpTo(i, k, o)
  BY OutStill
<1>5. Ins' = Ins
  BY OpStill
<1>6. ASSUME NEW n \in DOMAIN Emitted(o)
      PROVE  \E i \in Ins : \E k \in 1..read'[i] :
                /\ Emitted(o)[n] = <<<<i, k>>>> /\ Meant(<<i, k>>, o)'
                /\ CameUpTo(i, k, o)'
  <2>1. PICK i \in Ins : \E k \in 1..read[i] :
                /\ Emitted(o)[n] = <<<<i, k>>>> /\ Meant(<<i, k>>, o)
                /\ CameUpTo(i, k, o)
    BY DEF CopiesInOrder
  <2> QED  BY <1>2, <1>3, <1>4, <2>1
<1> QED  BY <1>5, <1>6 DEF CopiesInOrder

\* What is done stays done while nothing is received or sent.
LEMMA CompleteStill ==
    ASSUME op' = op, cap' = cap, read' = read, NEW o, Emitted(o)' = Emitted(o),
           \A i \in Inputs : Drained(i) => Drained(i)', Complete(o)
    PROVE  Complete(o)'
<1>1. \A i, k : CameUpTo(i, k, o)' <=> CameUpTo(i, k, o)
  BY OutStill
<1>2. Ins' = Ins /\ \A i \in Ins : i \in Inputs
  BY OpStill DEF Ins, Inputs
<1>3. 1 \in Inputs
  BY DEF Inputs
<1>4. CASE op \in Copying
  <2>1. /\ (\A i \in Ins : Drained(i)) \/ (op = "take" /\ read[1] = Limit)
        /\ \A i \in Ins : CameUpTo(i, read[i], o)
    BY <1>4 DEF Complete, Copying
  <2>2. /\ (\A i \in Ins' : Drained(i)') \/ (op' = "take" /\ read'[1] = Limit)
        /\ \A i \in Ins' : CameUpTo(i, read[i], o)'
    BY <1>1, <1>2, <2>1
  <2>3. (\A i \in Ins : CameUpTo(i, read[i], o))'
    BY <2>2 DEF CameUpTo
  <2> QED  BY <1>4, <2>2, <2>3 DEF Complete, Copying
<1>5. CASE op = "map"
  BY <1>2, <1>5 DEF Complete, Copying
<1>6. CASE op = "reduce"
  BY <1>3, <1>6 DEF Complete, Copying, IsFold
<1>7. CASE op \notin Copying \union {"map", "reduce"}
  BY <1>3, <1>7 DEF Complete, Copying
<1> QED  BY <1>4, <1>5, <1>6, <1>7

\* An input of merge that is through stays through.
LEMMA ThroughStill ==
    ASSUME op' = op, cap' = cap, NEW i \in Inputs, read'[i] = read[i],
           Emitted(1)' = Emitted(1), Drained(i) => Drained(i)', Through(i)
    PROVE  Through(i)'
<1>1. CameUpTo(i, read[i], 1)'
  BY OutStill DEF Through
<1> QED  BY <1>1 DEF Through, CameUpTo

\* Steps that leave the goroutines, what they received and what they sent alone.
LEMMA AsideStill ==
    ASSUME CombInv, CombTypeOK',
           UNCHANGED <<op, cap, read, closed, pc, hand, counted, taps, left, panicked>>,
           \A o \in Outs : Emitted(o)' = Emitted(o),
           \A i \in Inputs : Drained(i) => Drained(i)',
           scopeDone => scopeDone'
    PROVE  CombInv'
<1>1. /\ Ins' = Ins /\ Dsts' = Dsts /\ Closer' = Closer
      /\ \A i : Reader(i)' = Reader(i)
  BY OpStill
<1>2. Dsts \subseteq Outs /\ Ins \subseteq Inputs
  BY DEF Dsts, Outs, Ins, Inputs
<1>3. PlaceInv'
  BY <1>1 DEF CombInv, PlaceInv, Started
<1>4. TapInv'
  BY <1>1 DEF CombInv, TapInv
<1>5. CountInv'
  <2>1. \A w \in Inputs : Through(w) => Through(w)'
    BY ThroughStill DEF Outs
  <2> QED  BY <2>1 DEF CombInv, CountInv
<1>6. ClosedInv'
  <2>1. \A o \in Dsts : Complete(o) => Complete(o)'
    BY <1>2, CompleteStill
  <2>2. ToClose' = ToClose
    BY DEF ToClose
  <2> QED  BY <1>1, <2>1, <2>2 DEF CombInv, ClosedInv
<1>7. CopyInv'
  <2>1. \A i, k : \A o \in Dsts : CameUpTo(i, k, o)' <=> CameUpTo(i, k, o)
    BY <1>2, OutStill
  <2>2. \A v : \A o \in Dsts : InOutput(v, o)' <=> InOutput(v, o)
    BY <1>2, OutStill
  <2>3. \A i \in Inputs : read'[i] \in 0..MaxVals /\ read[i] = read'[i]
    BY DEF CombTypeOK
  <2>4. \A i \in Inputs : read'[i] >= read[i]
    BY <2>3, CombinatorsConstants
  <2>5. \A o \in Dsts : CopiesInOrder(o) => CopiesInOrder(o)'
    BY <1>2, <2>4, CopiesStill DEF CombInv, CombTypeOK
  <2> QED  BY <1>1, <1>2, <2>1, <2>2, <2>5 DEF CombInv, CopyInv
<1>8. MapInv'
  BY DEF CombInv, MapInv, Outs
<1>9. ReduceInv'
  BY DEF CombInv, ReduceInv, Outs, IsFold, Inputs
<1>10. OfferInv'
  BY DEF CombInv, OfferInv, Inputs
<1> QED  BY <1>3, <1>4, <1>5, <1>6, <1>7, <1>8, <1>9, <1>10 DEF CombInv, NeverPanics

\* The steps of the program at the inputs, and CancelAll.
LEMMA InvInputs ==
    ASSUME CombInv, (\E i \in Inputs : Put(i) \/ CloseInput(i)) \/ Cancel
    PROVE  CombInv'
<1>0. Ins \subseteq Inputs /\ Bound[op] \in 0..MaxVals /\ Capacity' = Capacity
  <2>1. op' = op /\ cap' = cap
    BY DEF Put, CloseInput, Cancel
  <2> QED  BY <2>1, OpStill, CombinatorsConstants DEF Ins, Inputs, CombInv, CombTypeOK
<1>1. ASSUME NEW i \in Inputs, Put(i) PROVE CombInv'
  <2>1. /\ UNCHANGED <<op, cap, ended, read, outVars, loopVars, taps, scopeDone, panicked>>
        /\ i \notin ended /\ fed[i] < Bound[op] /\ fed' = [fed EXCEPT ![i] = @ + 1]
    BY <1>1 DEF Put
  <2>2. \A j \in Inputs : Drained(j) => Drained(j)'
    BY <2>1 DEF Drained, CombInv, CombTypeOK
  <2>3. \A o \in Outs : Emitted(o)' = Emitted(o)
    BY <2>1 DEF Emitted, outVars
  <2>4. fed' \in [Inputs -> 0..MaxVals]
    <3>1. fed \in [Inputs -> 0..MaxVals] /\ MaxVals \in Nat
      BY CombinatorsConstants DEF CombInv, CombTypeOK
    <3>2. fed[i] + 1 \in 0..MaxVals
      BY <1>0, <2>1, <3>1
    <3> QED  BY <2>1, <3>1, <3>2
  <2>5. CombTypeOK'
    BY <1>0, <2>1, <2>4 DEF CombInv, CombTypeOK, outVars, loopVars
  <2> QED  BY <2>1, <2>2, <2>3, <2>5, AsideStill DEF outVars, loopVars
<1>2. ASSUME NEW i \in Inputs, CloseInput(i) PROVE CombInv'
  <2>1. /\ UNCHANGED <<op, cap, fed, read, outVars, loopVars, taps, scopeDone, panicked>>
        /\ ended' = ended \union {i}
    BY <1>2 DEF CloseInput
  <2>2. \A j \in Inputs : Drained(j) => Drained(j)'
    BY <2>1 DEF Drained
  <2>3. \A o \in Outs : Emitted(o)' = Emitted(o)
    BY <2>1 DEF Emitted, outVars
  <2>4. CombTypeOK'
    BY <1>0, <2>1 DEF CombInv, CombTypeOK, outVars, loopVars
  <2> QED  BY <2>1, <2>2, <2>3, <2>4, AsideStill DEF outVars, loopVars
<1>3. ASSUME Cancel PROVE CombInv'
  <2>1. /\ UNCHANGED <<op, cap, inVars, outVars, loopVars, taps, panicked>>
        /\ scopeDone' = TRUE
    BY <1>3 DEF Cancel
  <2>2. \A j \in Inputs : Drained(j) => Drained(j)'
    BY <2>1 DEF Drained, inVars
  <2>3. \A o \in Outs : Emitted(o)' = Emitted(o)
    BY <2>1 DEF Emitted, outVars
  <2>4. CombTypeOK'
    BY <1>0, <2>1 DEF CombInv, CombTypeOK, inVars, outVars, loopVars
  <2> QED  BY <2>1, <2>2, <2>3, <2>4, AsideStill DEF inVars, outVars, loopVars
<1> QED  BY <1>1, <1>2, <1>3

\* The takers: what is taken was emitted before.
LEMMA InvTaker ==
    ASSUME CombInv, NEW o \in Outs, Taker(o)
    PROVE  CombInv'
<1>0. op' = op /\ cap' = cap
  BY DEF Taker, Park, Take
<1>1. Capacity' = Capacity /\ Capacity \in Nat
  BY <1>0, OpStill, CombinatorsConstants DEF Capacity, CombInv, CombTypeOK
<1>2. CASE Park(o)
  <2>1. /\ UNCHANGED <<op, cap, inVars, chan, closed, taken, finished, loopVars,
                      taps, scopeDone, panicked>>
        /\ parked' = parked \union {o}
    BY <1>2 DEF Park
  <2>2. \A j \in Inputs : Drained(j) => Drained(j)'
    BY <2>1 DEF Drained, inVars
  <2>3. \A p \in Outs : Emitted(p)' = Emitted(p)
    BY <2>1 DEF Emitted
  <2>4. \A p \in Outs : Len(chan'[p]) <= Capacity + (IF p \in parked' THEN 1 ELSE 0)
    <3>1. \A p \in Outs : /\ chan[p] \in Seq(Msgs) /\ Len(chan[p]) \in Nat
                          /\ Len(chan[p]) <= Capacity + (IF p \in parked THEN 1 ELSE 0)
      BY DEF CombInv, CombTypeOK, Msgs
    <3> QED  BY <1>1, <2>1, <3>1
  <2>5. CombTypeOK'
    BY <1>1, <2>1, <2>4 DEF CombInv, CombTypeOK, inVars, loopVars
  <2> QED  BY <2>1, <2>2, <2>3, <2>5, AsideStill DEF inVars, loopVars
<1>3. CASE Take(o)
  <2>1. /\ UNCHANGED <<op, cap, inVars, closed, loopVars, taps, scopeDone, panicked>>
        /\ parked' = parked \ {o} /\ finished' \subseteq finished \union {o}
        /\ \/ /\ chan[o] # <<>> /\ chan' = [chan EXCEPT ![o] = Tail(@)]
              /\ taken' = [taken EXCEPT ![o] = Append(@, Head(chan[o]))]
           \/ chan[o] = <<>> /\ UNCHANGED <<chan, taken>>
    BY <1>3 DEF Take
  <2>2. \A j \in Inputs : Drained(j) => Drained(j)'
    BY <2>1 DEF Drained, inVars
  <2>3. /\ chan \in [Outs -> Seq(Msgs)] /\ taken \in [Outs -> Seq(Msgs)]
        /\ \A p \in Outs : Len(chan[p]) <= Capacity + (IF p \in parked THEN 1 ELSE 0)
    BY DEF CombInv, CombTypeOK, Msgs
  <2>4. CASE /\ chan[o] # <<>> /\ chan' = [chan EXCEPT ![o] = Tail(@)]
             /\ taken' = [taken EXCEPT ![o] = Append(@, Head(chan[o]))]
    <3>1. /\ taken'[o] \o chan'[o] = taken[o] \o chan[o]
          /\ taken'[o] \in Seq(Msgs) /\ chan'[o] \in Seq(Msgs)
          /\ Len(chan'[o]) = Len(chan[o]) - 1 /\ Len(chan[o]) \in Nat
      BY <2>3, <2>4, ConcatMove
    <3>2. \A p \in Outs \ {o} : taken'[p] = taken[p] /\ chan'[p] = chan[p]
      BY <2>3, <2>4
    <3>3. \A p \in Outs : Emitted(p)' = Emitted(p)
      BY <3>1, <3>2 DEF Emitted
    <3>4. chan' \in [Outs -> Seq(Msgs)] /\ taken' \in [Outs -> Seq(Msgs)]
      BY <2>3, <2>4, <3>1
    <3>5. \A p \in Outs : Len(chan'[p]) <= Capacity + (IF p \in parked' THEN 1 ELSE 0)
      <4>1. \A p \in Outs \ {o} : p \in parked' <=> p \in parked
        BY <2>1
      <4>2. Len(chan'[o]) <= Capacity /\ o \notin parked'
        BY <1>1, <2>1, <2>3, <3>1
      <4>3. Len(chan'[o]) <= Capacity + (IF o \in parked' THEN 1 ELSE 0)
        BY <1>1, <4>2
      <4> QED  BY <2>3, <3>2, <4>1, <4>3
    <3>6. CombTypeOK'
      BY <1>1, <2>1, <3>4, <3>5 DEF CombInv, CombTypeOK, inVars, loopVars, Msgs
    <3> QED  BY <2>1, <2>2, <3>3, <3>6, AsideStill DEF inVars, loopVars
  <2>5. CASE chan[o] = <<>> /\ UNCHANGED <<chan, taken>>
    <3>1. \A p \in Outs : Emitted(p)' = Emitted(p)
      BY <2>5 DEF Emitted
    <3>2. \A p \in Outs : Len(chan'[p]) <= Capacity + (IF p \in parked' THEN 1 ELSE 0)
      <4>1. \A p \in Outs \ {o} : p \in parked' <=> p \in parked
        BY <2>1
      <4>2. Len(chan[o]) = 0 /\ o \notin parked'
        BY <2>1, <2>5
      <4> QED  BY <1>1, <2>3, <2>5, <4>1, <4>2
    <3>3. CombTypeOK'
      BY <1>1, <2>1, <2>3, <2>5, <3>2 DEF CombInv, CombTypeOK, inVars, loopVars, Msgs
    <3> QED  BY <2>1, <2>2, <2>5, <3>1, <3>3, AsideStill DEF inVars, loopVars
  <2> QED  BY <2>1, <2>4, <2>5
<1> QED  BY <1>2, <1>3 DEF Taker

\* What a step that receives and sends nothing leaves as it is.
LEMMA QuietStill ==
    ASSUME CombInv, UNCHANGED <<op, cap, fed, ended, read, chan, taken>>
    PROVE  /\ Ins' = Ins /\ Dsts' = Dsts /\ Closer' = Closer /\ Capacity' = Capacity
           /\ \A i : Reader(i)' = Reader(i)
           /\ \A o : Emitted(o)' = Emitted(o)
           /\ \A v, o : InOutput(v, o)' <=> InOutput(v, o)
           /\ \A i, k, o : CameUpTo(i, k, o)' <=> CameUpTo(i, k, o)
           /\ \A o \in Dsts : CopiesInOrder(o) => CopiesInOrder(o)'
           /\ \A o : Complete(o) => Complete(o)'
           /\ \A i \in Inputs : (Drained(i)' <=> Drained(i)) /\ (Through(i) => Through(i)')
           /\ \A m : IsFold(m)' <=> IsFold(m)
<1>1. \A o : Emitted(o)' = Emitted(o)
  BY DEF Emitted
<1>2. \A i : Drained(i)' <=> Drained(i)
  BY DEF Drained
<1>3. \A i \in Inputs : read'[i] \in 0..MaxVals /\ read[i] = read'[i]
  BY DEF CombInv, CombTypeOK
<1>4. \A i \in Inputs : read'[i] >= read[i]
  BY <1>3, CombinatorsConstants
<1>5. \A o \in Dsts : CopiesInOrder(o) => CopiesInOrder(o)'
  BY <1>1, <1>4, CopiesStill DEF CombInv, CombTypeOK
<1>6. \A o : Complete(o) => Complete(o)'
  BY <1>1, <1>2, CompleteStill
<1>7. \A i \in Inputs : Through(i) => Through(i)'
  BY <1>1, <1>2, ThroughStill
<1>8. \A m : IsFold(m)' <=> IsFold(m)
  BY DEF IsFold
<1> QED  BY <1>1, <1>2, <1>5, <1>6, <1>7, <1>8, OpStill, OutStill

\* The types after a step that receives and sends nothing.
LEMMA TypeStill ==
    ASSUME CombTypeOK,
           UNCHANGED <<op, cap, fed, ended, read, chan, parked, taken, finished, scopeDone>>,
           closed' \subseteq Outs, pc' \in [Workers -> Places], hand' \in [Workers -> Seq(Values)],
           counted' \in 0..2, left' \subseteq taps', panicked' \in BOOLEAN,
           \A t \in taps' : t.ch \in Outs /\ t.close \in BOOLEAN
    PROVE  CombTypeOK'
<1>1. Capacity' = Capacity
  BY OpStill
<1>2. {scopeDone', panicked'} \subseteq BOOLEAN
  BY DEF CombTypeOK
<1> QED  BY <1>1, <1>2 DEF CombTypeOK

\* map, reduce, mult and pub: a step of theirs that receives and sends nothing.
LEMMA LoopsStill ==
    ASSUME CombInv, UNCHANGED <<op, cap, fed, ended, read, chan, taken>>,
           op \in {"map", "reduce", "mult", "pub"} =>
              \/ pc'[1] = pc[1] /\ hand'[1] = hand[1] /\ left' \subseteq left
              \/ pc'[1] \in {"close", "returned"}
    PROVE  MapInv' /\ ReduceInv' /\ OfferInv'
<1>1. \A o : Emitted(o)' = Emitted(o)
  BY QuietStill
<1>2. MapInv'
  BY <1>1 DEF CombInv, MapInv
<1>3. ReduceInv'
  <2> SUFFICES ASSUME op = "reduce" PROVE ReduceInv'
    BY DEF ReduceInv
  <2>1. Emitted(1)' = Emitted(1) /\ Drained(1)' = Drained(1)
    BY <1>1 DEF Drained
  <2>2. /\ IsFold(Emitted(1)[1])' <=> IsFold(Emitted(1)[1])
        /\ hand'[1] = hand[1] => (IsFold(hand[1])' <=> IsFold(hand[1]))
    BY <2>1 DEF IsFold
  <2> QED  BY <2>1, <2>2 DEF CombInv, ReduceInv
<1>4. OfferInv'
  <2> SUFFICES ASSUME op \in {"mult", "pub"} PROVE OfferInv'
    BY DEF OfferInv
  <2>1. Drained(1)' = Drained(1)
    BY DEF Drained
  <2>2. CASE pc'[1] = pc[1] /\ hand'[1] = hand[1] /\ left' \subseteq left
    BY <1>1, <2>1, <2>2 DEF CombInv, OfferInv
  <2>3. CASE pc'[1] \in {"close", "returned"}
    BY <1>1, <2>3 DEF CombInv, OfferInv
  <2> QED  BY <2>2, <2>3
<1> QED  BY <1>2, <1>3, <1>4

\* Before the closer is there, nothing is closed and nothing is left to do.
LEMMA NotYetClosed ==
    ASSUME CombInv, pc[Closer] \notin {"close", "returned"}
    PROVE  closed = {} /\ (pc[Closer] # "pass" => left = {})
<1>0. ClosedInv
  BY DEF CombInv
<1>1. /\ closed # {} => pc[Closer] \in {"close", "returned"}
      /\ left # {} => pc[Closer] \in {"pass", "close"}
  BY <1>0 DEF ClosedInv
<1> QED  BY <1>1

\* A cancelled goroutine returns and sends nothing more.
LEMMA InvStop ==
    ASSUME CombInv, NEW w \in Workers, Stop(w)
    PROVE  CombInv'
<1>1. /\ scopeDone /\ pc[w] \in {"recv", "send", "signal", "count"}
      /\ pc[w] = "send" => op # "reduce"
      /\ pc' = [pc EXCEPT ![w] = "returned"]
      /\ UNCHANGED <<op, cap, fed, ended, read, chan, closed, parked, taken, finished,
                     hand, counted, left, taps, scopeDone, panicked>>
  BY DEF Stop, Goto, inVars, outVars
<1>2. pc'[w] = "returned" /\ \A u \in Workers \ {w} : pc'[u] = pc[u]
  BY <1>1 DEF CombInv, CombTypeOK
<1>3. /\ Closer \in Workers /\ 0 \in Workers /\ 1 \in Workers
      /\ \A i \in Inputs : i \in Workers /\ i # 0
      /\ \A i \in Ins : Reader(i) \in Workers
  BY DEF Closer, Workers, Reader, Ins, Inputs
<1>4. CombTypeOK'
  BY <1>1, QuietStill DEF CombInv, CombTypeOK, Places
<1>5. PlaceInv'
  BY <1>1, <1>2, QuietStill DEF CombInv, PlaceInv, Started
<1>6. TapInv'
  BY <1>1, QuietStill DEF CombInv, TapInv
<1>7. CountInv'
  BY <1>1, <1>2, <1>3, QuietStill DEF CombInv, CountInv
<1>8. ClosedInv'
  <2>1. ToClose' = ToClose
    BY <1>1 DEF ToClose
  <2>2. /\ Closer' = Closer /\ Dsts' = Dsts
        /\ \A o \in Dsts : Complete(o) => Complete(o)'
    BY <1>1, QuietStill
  <2>3. CASE w = Closer
    <3>1. closed = {} /\ left = {}
      BY <1>1, <2>3, NotYetClosed
    <3> QED  BY <1>1, <1>2, <2>2, <2>3, <3>1 DEF ClosedInv
  <2>4. CASE w # Closer
    <3>1. pc'[Closer] = pc[Closer]
      BY <1>2, <1>3, <2>4
    <3> QED  BY <1>1, <2>1, <2>2, <3>1 DEF CombInv, ClosedInv
  <2> QED  BY <2>3, <2>4
<1>9. CopyInv'
  BY <1>1, <1>2, <1>3, QuietStill DEF CombInv, CopyInv
<1>10. MapInv' /\ ReduceInv' /\ OfferInv'
  BY <1>1, <1>2, <1>3, LoopsStill
<1> QED  BY <1>1, <1>4, <1>5, <1>6, <1>7, <1>8, <1>9, <1>10 DEF CombInv, NeverPanics

\* The goroutines, the inputs and the closer are among the workers.
LEMMA Who ==
    ASSUME CombInv
    PROVE  /\ Closer \in Workers /\ 0 \in Workers /\ 1 \in Workers /\ 2 \in Workers
           /\ \A w \in Workers : w \in {0, 1, 2}
           /\ \A i \in Inputs : i \in Workers /\ i # 0
           /\ Ins \subseteq Inputs /\ Dsts \subseteq Outs /\ 1 \in Ins /\ 1 \in Dsts
           /\ \A i \in Ins : Reader(i) \in Workers \ {0}
           /\ op \in {"pipe", "onto", "merge", "reduce", "split", "map", "take", "mult", "pub"}
BY CombinatorsConstants
   DEF Closer, Workers, Reader, Ins, Inputs, Dsts, Outs, CombInv, CombTypeOK

\* Only merge has more than one goroutine.
LEMMA Alone ==
    ASSUME CombInv, NEW w \in Workers, pc[w] # "returned", op # "merge"
    PROVE  w = 1
BY DEF CombInv, PlaceInv, Started

\* merge: one more input is done; after the second the output is closed.
LEMMA InvSignal ==
    ASSUME CombInv, NEW w \in Workers, Signal(w)
    PROVE  CombInv'
<1>1. /\ pc[w] = "signal" /\ pc[0] = "count" /\ counted' = counted + 1
      /\ \/ /\ counted' = 2 /\ pc' = [pc EXCEPT ![w] = "returned", ![0] = "close"]
            /\ left' = {t \in taps : t.close}
         \/ /\ counted' # 2 /\ pc' = [pc EXCEPT ![w] = "returned"] /\ left' = left
      /\ UNCHANGED <<op, cap, fed, ended, read, chan, closed, parked, taken, finished,
                     hand, taps, scopeDone, panicked>>
  BY DEF Signal, Goto, inVars, outVars
<1>2. op = "merge" /\ w # 0 /\ w \in Inputs /\ Closer = 0 /\ Ins = Inputs
  BY <1>1, Who DEF CombInv, PlaceInv, Inputs, Closer, Ins
<1>3. /\ pc'[w] = "returned" /\ \A u \in Workers \ {w, 0} : pc'[u] = pc[u]
      /\ pc'[0] = IF counted' = 2 THEN "close" ELSE "count"
  BY <1>1, <1>2, Who DEF CombInv, CombTypeOK
<1>4. counted \in {0, 1} /\ counted' \in {1, 2} /\ (counted' = 2 <=> counted = 1)
  BY <1>1, <1>2 DEF CombInv, CombTypeOK, CountInv
<1>5. Through(w) /\ Through(w)'
  <2>1. Through(w)
    BY <1>1, <1>2 DEF CombInv, CountInv
  <2> QED  BY <1>1, <1>2, <2>1, QuietStill
<1>6. counted' = 2 => \A u \in Inputs : pc'[u] = "returned" /\ Through(u) /\ Through(u)'
  <2> SUFFICES ASSUME counted' = 2, NEW u \in Inputs
               PROVE  pc'[u] = "returned" /\ Through(u) /\ Through(u)'
    OBVIOUS
  <2>1. PICK x \in Inputs : pc[x] = "returned" /\ Through(x)
    BY <1>2, <1>4 DEF CombInv, CountInv
  <2>2. x # w /\ \A y \in Inputs : y = x \/ y = w
    BY <1>1, <1>2, <2>1 DEF Inputs
  <2>3. pc'[x] = "returned" /\ Through(x)'
    BY <1>1, <1>3, <2>1, <2>2, Who, QuietStill
  <2> QED  BY <1>3, <1>5, <2>1, <2>2, <2>3
<1>7. CombTypeOK'
  <2>1. left' \subseteq taps' /\ \A t \in taps' : t.ch \in Outs /\ t.close \in BOOLEAN
    BY <1>1 DEF CombInv, CombTypeOK
  <2>2. pc' \in [Workers -> Places] /\ closed' \subseteq Outs /\ hand' \in [Workers -> Seq(Values)]
    BY <1>1 DEF CombInv, CombTypeOK, Places
  <2>3. panicked' \in BOOLEAN
    BY <1>1 DEF CombInv, CombTypeOK
  <2> QED  BY <1>1, <1>4, <2>1, <2>2, <2>3, TypeStill DEF CombInv
<1>8. PlaceInv'
  <2>1. Started(op) = Workers /\ Started(op)' = Workers /\ Closer' = 0
    BY <1>1, <1>2, QuietStill DEF Started
  <2> QED  BY <1>1, <1>2, <1>3, <2>1 DEF CombInv, PlaceInv
<1>9. TapInv'
  BY <1>1, QuietStill DEF CombInv, TapInv
<1>10. CountInv'
  <2>1. \A u \in Inputs : pc'[u] = "signal" => Through(u)'
    <3>1. \A u \in Inputs : pc[u] = "signal" => Through(u)
      BY <1>2 DEF CombInv, CountInv
    <3>2. \A u \in Inputs : pc'[u] = "signal" => pc[u] = "signal"
      BY <1>3, Who
    <3> QED  BY <1>1, <3>1, <3>2, QuietStill
  <2> QED  BY <1>2, <1>3, <1>4, <1>5, <1>6, <2>1 DEF CountInv
<1>11. ClosedInv'
  <2>1. closed = {} /\ left = {} /\ closed' = closed
    BY <1>1, <1>2, NotYetClosed
  <2>2. Closer' = 0 /\ Dsts' = {1} /\ ToClose' = ToClose
    BY <1>1, <1>2, QuietStill DEF Dsts, ToClose
  <2>3. counted' = 2 => Complete(1)'
    <3> SUFFICES ASSUME counted' = 2 PROVE Complete(1)'
      OBVIOUS
    <3>1. Complete(1)
      BY <1>2, <1>6 DEF Complete, Through, Copying
    <3> QED  BY <1>1, <3>1, QuietStill
  <2>4. counted' = 2 => left' = {t \in taps : t.close} /\ {} \union Channels(left') = ToClose
    BY <1>1 DEF ToClose
  <2>5. counted' # 2 => left' = {}
    BY <1>1, <2>1
  <2> QED  BY <1>3, <2>1, <2>2, <2>3, <2>4, <2>5 DEF ClosedInv
<1>12. CopyInv'
  <2>1. \A i \in Ins : Reader(i) = i /\ Reader(i)' = i
    BY <1>1, <1>2 DEF Reader
  <2>2. \A i \in Ins : pc'[i] = pc[i] \/ (pc[i] = "signal" /\ pc'[i] = "returned")
    BY <1>1, <1>2, <1>3, Who
  <2>3. /\ Ins' = Ins /\ Dsts' = Dsts
        /\ \A i, k, o : CameUpTo(i, k, o)' <=> CameUpTo(i, k, o)
        /\ \A v, o : InOutput(v, o)' <=> InOutput(v, o)
        /\ \A o \in Dsts : CopiesInOrder(o) => CopiesInOrder(o)'
    BY <1>1, QuietStill
  <2> QED  BY <1>1, <2>1, <2>2, <2>3 DEF CombInv, CopyInv
<1>13. MapInv' /\ ReduceInv' /\ OfferInv'
  BY <1>1, <1>2, LoopsStill
<1> QED  BY <1>1, <1>7, <1>8, <1>9, <1>10, <1>11, <1>12, <1>13 DEF CombInv, NeverPanics

\* Closing an output: it was open, and all that it is for has gone through.
LEMMA InvCloseDst ==
    ASSUME CombInv, NEW w \in Workers, CloseDst(w)
    PROVE  CombInv'
<1>1. PICK t \in left :
         /\ pc[w] = "close" /\ panicked' = (panicked \/ t.ch \in closed)
         /\ closed' = closed \union {t.ch} /\ left' = left \ {t}
  BY DEF CloseDst
<1>2. UNCHANGED <<op, cap, fed, ended, read, chan, parked, taken, finished, pc, hand,
                  counted, taps, scopeDone>>
  BY DEF CloseDst, inVars
<1>3. w = Closer /\ ClosedInv /\ TapInv /\ ~panicked /\ CountInv
  BY <1>1 DEF CombInv, PlaceInv, NeverPanics
<1>4. t.ch \notin closed /\ closed \union Channels(left) = ToClose
      /\ \A o \in Dsts : Complete(o)
  BY <1>1, <1>3 DEF ClosedInv
<1>5. t \in taps /\ t.ch \in Dsts /\ t.ch \in Outs
  BY <1>1, <1>3 DEF CombInv, CombTypeOK, TapInv
<1>6. ~panicked'
  BY <1>1, <1>3, <1>4
<1>7. CombTypeOK'
  <2>1. left' \subseteq taps' /\ \A u \in taps' : u.ch \in Outs /\ u.close \in BOOLEAN
    BY <1>1, <1>2 DEF CombInv, CombTypeOK
  <2>2. pc' \in [Workers -> Places] /\ closed' \subseteq Outs /\ hand' \in [Workers -> Seq(Values)]
        /\ counted' \in 0..2
    BY <1>1, <1>2, <1>5 DEF CombInv, CombTypeOK
  <2>3. panicked' \in BOOLEAN
    BY <1>1
  <2> QED  BY <1>2, <2>1, <2>2, <2>3, TypeStill DEF CombInv
<1>8. PlaceInv'
  BY <1>1, <1>2, QuietStill DEF CombInv, PlaceInv, Started
<1>9. TapInv'
  BY <1>2, QuietStill DEF CombInv, TapInv
<1>10. CountInv'
  BY <1>2, QuietStill DEF CombInv, CountInv
<1>11. ClosedInv'
  <2>1. ToClose' = ToClose /\ Closer' = Closer /\ Dsts' = Dsts
    BY <1>2, QuietStill DEF ToClose
  <2>2. closed' \union Channels(left') = ToClose
    BY <1>1, <1>4 DEF Channels
  <2>3. \A u \in left' : u.ch \notin closed'
    BY <1>1, <1>3, <1>4 DEF ClosedInv, TapInv, CombInv, CombTypeOK
  <2>4. \A o \in Dsts : Complete(o)'
    BY <1>2, <1>4, QuietStill
  <2>5. op = "merge" => counted = 2
    BY <1>1, <1>3 DEF CountInv, Closer
  <2>6. closed' \subseteq Dsts
    BY <1>1, <1>3, <1>5 DEF ClosedInv
  <2> QED  BY <1>1, <1>2, <1>3, <2>1, <2>2, <2>3, <2>4, <2>5, <2>6 DEF ClosedInv, Channels
<1>12. CopyInv'
  BY <1>2, QuietStill DEF CombInv, CopyInv
<1>13. MapInv' /\ ReduceInv' /\ OfferInv'
  BY <1>1, <1>2, LoopsStill
<1> QED  BY <1>6, <1>7, <1>8, <1>9, <1>10, <1>11, <1>12, <1>13 DEF CombInv, NeverPanics

\* The goroutine that closed the outputs returns.
LEMMA InvReturn ==
    ASSUME CombInv, NEW w \in Workers, Return(w)
    PROVE  CombInv'
<1>1. /\ pc[w] = "close" /\ left = {} /\ pc' = [pc EXCEPT ![w] = "returned"]
      /\ UNCHANGED <<op, cap, fed, ended, read, chan, closed, parked, taken, finished,
                     hand, counted, left, taps, scopeDone, panicked>>
  BY DEF Return, Goto, inVars, outVars
<1>2. w = Closer
  BY <1>1 DEF CombInv, PlaceInv
<1>3. pc'[w] = "returned" /\ \A u \in Workers \ {w} : pc'[u] = pc[u]
  BY <1>1 DEF CombInv, CombTypeOK
<1>4. CombTypeOK'
  BY <1>1, QuietStill DEF CombInv, CombTypeOK, Places
<1>5. PlaceInv'
  BY <1>1, <1>3, QuietStill DEF CombInv, PlaceInv, Started
<1>6. TapInv'
  BY <1>1, QuietStill DEF CombInv, TapInv
<1>7. CountInv'
  BY <1>1, <1>3, Who, QuietStill DEF CombInv, CountInv
<1>8. ClosedInv'
  <2>1. /\ Closer' = Closer /\ Dsts' = Dsts /\ ToClose' = ToClose
        /\ \A o \in Dsts : Complete(o) => Complete(o)'
    BY <1>1, QuietStill DEF ToClose
  <2>2. closed = ToClose
    BY <1>1, <1>2 DEF CombInv, ClosedInv, Channels
  <2>3. /\ op = "merge" => counted = 2
        /\ \A o \in Dsts : Complete(o) /\ closed \subseteq Dsts
    BY <1>1, <1>2 DEF CombInv, ClosedInv, CountInv, Closer
  <2>4. closed \subseteq Dsts
    BY DEF CombInv, ClosedInv
  <2> QED  BY <1>1, <1>2, <1>3, <2>1, <2>2, <2>3, <2>4 DEF ClosedInv
<1>9. CopyInv'
  <2>1. \A i \in Ins : pc'[Reader(i)] = "returned" => pc[Reader(i)] \in {"close", "returned"}
    BY <1>1, <1>3, Who
  <2>2. \A i \in Ins : pc'[Reader(i)] # "returned" => pc'[Reader(i)] = pc[Reader(i)]
    BY <1>3, Who
  <2> SUFFICES ASSUME op \in Copying PROVE CopyInv'
    BY <1>1 DEF CopyInv
  <2>3. /\ Ins' = Ins /\ Dsts' = Dsts /\ \A i : Reader(i)' = Reader(i)
        /\ \A i, k, o : CameUpTo(i, k, o)' <=> CameUpTo(i, k, o)
        /\ \A v, o : InOutput(v, o)' <=> InOutput(v, o)
        /\ \A o \in Dsts : CopiesInOrder(o) => CopiesInOrder(o)'
    BY <1>1, QuietStill
  <2>4. ASSUME NEW i \in Ins
        PROVE  pc'[Reader(i)] = "send" => pc[Reader(i)] = "send"
    BY <2>2
  <2>5. ASSUME NEW i \in Ins
        PROVE  pc'[Reader(i)] # "send" /\ (pc'[Reader(i)] = "returned" => ~scopeDone)
               => pc[Reader(i)] # "send" /\ (pc[Reader(i)] = "returned" => ~scopeDone)
    BY <2>1, <2>2
  <2> QED  BY <1>1, <2>3, <2>4, <2>5 DEF CombInv, CopyInv
<1>10. MapInv' /\ ReduceInv' /\ OfferInv'
  BY <1>1, <1>3, Who, LoopsStill
<1> QED  BY <1>1, <1>4, <1>5, <1>6, <1>7, <1>8, <1>9, <1>10 DEF CombInv, NeverPanics

\* mult and pub have one goroutine, which closes.
LEMMA Passes ==
    ASSUME CombInv, NEW w \in Workers, pc[w] \in {"lock", "pass"}
    PROVE  /\ w = 1 /\ Closer = 1 /\ op \in {"mult", "pub"} /\ op # "merge"
           /\ op \notin Copying /\ op # "map" /\ op # "reduce"
           /\ closed = {} /\ (pc[w] = "lock" => left = {})
           /\ Dsts = Outs /\ Started(op) = {1}
<1>1. op \in {"mult", "pub"}
  BY DEF CombInv, PlaceInv
<1>2. w = 1 /\ Closer = 1
  BY <1>1, Alone DEF Closer
<1> QED  BY <1>1, <1>2, NotYetClosed DEF Copying, Dsts, Started

\* A pass over the destinations begins, or the loop is left.
LEMMA InvLock ==
    ASSUME CombInv, NEW w \in Workers, Lock(w)
    PROVE  CombInv'
<1>1. /\ pc[w] = "lock"
      /\ UNCHANGED <<op, cap, fed, ended, read, chan, closed, parked, taken, finished,
                     counted, taps, scopeDone, panicked>>
      /\ \/ /\ hand[w] = <<>> /\ pc' = [pc EXCEPT ![w] = "close"]
            /\ hand' = [hand EXCEPT ![w] = <<>>] /\ left' = {t \in taps : t.close}
         \/ /\ hand[w] # <<>> /\ pc' = [pc EXCEPT ![w] = "pass"]
            /\ hand' = hand /\ left' \subseteq taps
  BY DEF Lock, Closing, Goto, Hold, inVars, outVars
<1>2. /\ w = 1 /\ Closer = 1 /\ op \in {"mult", "pub"} /\ op # "merge"
      /\ op \notin Copying /\ op # "map" /\ op # "reduce"
      /\ closed = {} /\ left = {} /\ Dsts = Outs /\ Started(op) = {1}
  BY <1>1, Passes
<1>3. /\ pc'[1] = IF hand[1] = <<>> THEN "close" ELSE "pass"
      /\ \A u \in Workers \ {1} : pc'[u] = pc[u]
      /\ hand'[1] = hand[1]
  BY <1>1, <1>2, Who DEF CombInv, CombTypeOK
<1>4. CombTypeOK'
  <2>1. left' \subseteq taps' /\ \A t \in taps' : t.ch \in Outs /\ t.close \in BOOLEAN
    BY <1>1 DEF CombInv, CombTypeOK
  <2>2. pc' \in [Workers -> Places] /\ closed' \subseteq Outs /\ counted' \in 0..2
        /\ panicked' \in BOOLEAN
    BY <1>1 DEF CombInv, CombTypeOK, Places
  <2>3. hand' \in [Workers -> Seq(Values)]
    BY <1>1 DEF CombInv, CombTypeOK
  <2> QED  BY <1>1, <2>1, <2>2, <2>3, TypeStill DEF CombInv
<1>5. PlaceInv'
  <2>1. Started(op)' = {1} /\ Closer' = 1
    BY <1>1, <1>2, QuietStill DEF Started
  <2> QED  BY <1>1, <1>2, <1>3, <2>1, Who DEF CombInv, PlaceInv
<1>6. TapInv'
  BY <1>1, QuietStill DEF CombInv, TapInv
<1>7. CountInv' /\ CopyInv' /\ MapInv' /\ ReduceInv'
  BY <1>1, <1>2 DEF CountInv, CopyInv, MapInv, ReduceInv
<1>8. ClosedInv'
  <2>1. Closer' = 1 /\ Dsts' = Dsts /\ ToClose' = ToClose
    BY <1>1, <1>2, QuietStill DEF ToClose
  <2>2. hand[1] = <<>> => \A o \in Dsts : Complete(o)'
    <3>1. hand[1] = <<>> => Drained(1)
      BY <1>1, <1>2 DEF CombInv, OfferInv
    <3>2. hand[1] = <<>> => \A o : Complete(o)
      BY <1>2, <3>1 DEF Complete
    <3> QED  BY <1>1, <3>2, QuietStill
  <2>3. hand[1] = <<>> => left' = {t \in taps : t.close} /\ {} \union Channels(left') = ToClose
    BY <1>1, <1>2 DEF ToClose
  <2>4. closed' = {}
    BY <1>1, <1>2
  <2> QED  BY <1>1, <1>2, <1>3, <2>1, <2>2, <2>3, <2>4 DEF ClosedInv
<1>9. OfferInv'
  <2>1. \A o : Emitted(o)' = Emitted(o)
    BY <1>1, QuietStill
  <2>2. Drained(1)' <=> Drained(1)
    BY <1>1 DEF Drained
  <2>3. OfferInv /\ 1 \in Workers
    BY Who DEF CombInv
  <2> QED  BY <1>1, <1>2, <1>3, <2>1, <2>2, <2>3 DEF OfferInv
<1> QED  BY <1>1, <1>4, <1>5, <1>6, <1>7, <1>8, <1>9 DEF CombInv, NeverPanics

\* The pass is over.
LEMMA InvUnlock ==
    ASSUME CombInv, NEW w \in Workers, Unlock(w)
    PROVE  CombInv'
<1>1. /\ pc[w] = "pass" /\ left = {} /\ pc' = [pc EXCEPT ![w] = "recv"]
      /\ hand' = [hand EXCEPT ![w] = <<>>]
      /\ UNCHANGED <<op, cap, fed, ended, read, chan, closed, parked, taken, finished,
                     counted, left, taps, scopeDone, panicked>>
  BY DEF Unlock, Goto, Hold, inVars, outVars
<1>2. /\ w = 1 /\ Closer = 1 /\ op \in {"mult", "pub"} /\ op # "merge"
      /\ op \notin Copying /\ op # "map" /\ op # "reduce"
      /\ closed = {} /\ Dsts = Outs /\ Started(op) = {1}
  BY <1>1, Passes
<1>3. pc'[1] = "recv" /\ hand'[1] = <<>> /\ \A u \in Workers \ {1} : pc'[u] = pc[u]
  BY <1>1, <1>2, Who DEF CombInv, CombTypeOK
<1>4. CombTypeOK'
  <2>1. left' \subseteq taps' /\ \A t \in taps' : t.ch \in Outs /\ t.close \in BOOLEAN
    BY <1>1 DEF CombInv, CombTypeOK
  <2>2. pc' \in [Workers -> Places] /\ closed' \subseteq Outs /\ counted' \in 0..2
        /\ panicked' \in BOOLEAN
    BY <1>1 DEF CombInv, CombTypeOK, Places
  <2>3. hand' \in [Workers -> Seq(Values)]
    BY <1>1 DEF CombInv, CombTypeOK
  <2> QED  BY <1>1, <2>1, <2>2, <2>3, TypeStill DEF CombInv
<1>5. PlaceInv'
  <2>1. Started(op)' = {1} /\ Closer' = 1
    BY <1>1, <1>2, QuietStill DEF Started
  <2> QED  BY <1>1, <1>2, <1>3, <2>1, Who DEF CombInv, PlaceInv
<1>6. TapInv'
  BY <1>1, QuietStill DEF CombInv, TapInv
<1>7. CountInv' /\ CopyInv' /\ MapInv' /\ ReduceInv'
  BY <1>1, <1>2 DEF CountInv, CopyInv, MapInv, ReduceInv
<1>8. ClosedInv'
  <2>1. Closer' = 1 /\ closed' = {} /\ left' = {}
    BY <1>1, <1>2, QuietStill
  <2> QED  BY <1>3, <2>1 DEF ClosedInv
<1>9. OfferInv'
  <2>1. \A o : Emitted(o)' = Emitted(o)
    BY <1>1, QuietStill
  <2> QED  BY <1>1, <1>2, <1>3, <2>1 DEF OfferInv, CombInv
<1> QED  BY <1>1, <1>4, <1>5, <1>6, <1>7, <1>8, <1>9 DEF CombInv, NeverPanics

\* What a send does to the outputs.
LEMMA Sent ==
    ASSUME CombTypeOK, NEW d \in Outs, NEW m \in Msgs, Room(d),
           UNCHANGED <<op, cap, taken, parked>>,
           chan' = [chan EXCEPT ![d] = Append(@, m)]
    PROVE  /\ Emitted(d)' = Append(Emitted(d), m)
           /\ \A o \in Outs \ {d} : Emitted(o)' = Emitted(o)
           /\ chan' \in [Outs -> Seq(Seq(Values))]
           /\ \A o \in Outs : Len(chan'[o]) <= Capacity' + (IF o \in parked' THEN 1 ELSE 0)
<1>1. /\ chan \in [Outs -> Seq(Msgs)] /\ taken[d] \in Seq(Msgs) /\ chan[d] \in Seq(Msgs)
      /\ Len(chan[d]) \in Nat /\ Capacity \in Nat /\ Capacity' = Capacity
  BY OpStill, CombinatorsConstants DEF CombTypeOK, Msgs, Capacity
<1>2. chan'[d] = Append(chan[d], m) /\ \A o \in Outs \ {d} : chan'[o] = chan[o]
  BY <1>1
<1>3. Append(chan[d], m) \in Seq(Msgs) /\ Len(Append(chan[d], m)) = Len(chan[d]) + 1
  BY <1>1, SeqAppend
<1>4. taken[d] \o Append(chan[d], m) = Append(taken[d] \o chan[d], m)
  <2>1. \A a, b \in Seq(Msgs) : a \o Append(b, m) = Append(a \o b, m)
    BY ConcatAppend
  <2> QED  BY <1>1, <2>1
<1>5. Emitted(d)' = Append(Emitted(d), m)
  BY <1>2, <1>4 DEF Emitted
<1>6. \A o \in Outs \ {d} : Emitted(o)' = Emitted(o)
  BY <1>2 DEF Emitted
<1>7. chan' \in [Outs -> Seq(Msgs)]
  BY <1>1, <1>3
<1>8. Len(chan'[d]) <= Capacity + (IF d \in parked THEN 1 ELSE 0)
  BY <1>1, <1>2, <1>3 DEF Room
<1> QED  BY <1>1, <1>2, <1>5, <1>6, <1>7, <1>8 DEF CombTypeOK, Msgs

\* Offering the value to one destination.
LEMMA InvOffer ==
    ASSUME CombInv, NEW w \in Workers, Offer(w)
    PROVE  CombInv'
<1>1. /\ pc[w] = "pass"
      /\ UNCHANGED <<op, cap, fed, ended, read, closed, parked, taken, finished, pc,
                     hand, counted, taps, scopeDone>>
  BY DEF Offer, inVars
<1>2. PICK t \in left :
         /\ panicked' = (panicked \/ t.ch \in closed) /\ left' = left \ {t}
         /\ IF t.ch \notin closed /\ Room(t.ch)
            THEN chan' = [chan EXCEPT ![t.ch] = Append(@, hand[w])]
            ELSE UNCHANGED chan
  BY DEF Offer
<1>3. /\ w = 1 /\ Closer = 1 /\ op \in {"mult", "pub"} /\ op # "merge"
      /\ op \notin Copying /\ op # "map" /\ op # "reduce"
      /\ closed = {} /\ Dsts = Outs /\ Started(op) = {1}
  BY <1>1, Passes
<1>4. ~panicked'
  BY <1>2, <1>3 DEF CombInv, NeverPanics
<1>5. t \in taps /\ t.ch \in Outs /\ \A u \in left' : u.ch # t.ch
  BY <1>2 DEF CombInv, CombTypeOK, TapInv
<1>6. /\ hand[1] = <<<<1, read[1]>>>> /\ hand[1] \in Msgs
      /\ read[1] \in Nat /\ read[1] > 0
  <2>1. hand[1] = <<<<1, read[1]>>>> /\ hand[1] \in Seq(Values)
    BY <1>1, <1>3, Who DEF CombInv, OfferInv, CombTypeOK
  <2>2. <<1, read[1]>> \in Values
    BY <2>1
  <2>3. read[1] \in 1..MaxVals
    BY <2>2 DEF Values
  <2> QED  BY <2>1, <2>3, CombinatorsConstants DEF Msgs
<1>7. /\ chan' \in [Outs -> Seq(Seq(Values))]
      /\ \A o \in Outs : Len(chan'[o]) <= Capacity' + (IF o \in parked' THEN 1 ELSE 0)
      /\ \A o \in Outs \ {t.ch} : Emitted(o)' = Emitted(o)
      /\ \/ Emitted(t.ch)' = Emitted(t.ch)
         \/ Emitted(t.ch)' = Append(Emitted(t.ch), hand[1])
  <2>1. CASE Room(t.ch)
    BY <1>1, <1>2, <1>3, <1>5, <1>6, <2>1, Sent DEF CombInv
  <2>2. CASE ~Room(t.ch)
    <3>1. chan' = chan
      BY <1>2, <2>2
    <3> QED  BY <1>1, <3>1, OpStill DEF CombInv, CombTypeOK, Emitted
  <2> QED  BY <2>1, <2>2
<1>8. CombTypeOK'
  <2>1. panicked' \in BOOLEAN /\ {scopeDone', panicked'} \subseteq BOOLEAN
    BY <1>1, <1>2 DEF CombInv, CombTypeOK
  <2> QED  BY <1>1, <1>2, <1>7, <2>1 DEF CombInv, CombTypeOK
<1>9. PlaceInv'
  BY <1>1, OpStill DEF CombInv, PlaceInv, Started
<1>10. TapInv'
  BY <1>1, OpStill DEF CombInv, TapInv
<1>11. CountInv' /\ CopyInv' /\ MapInv' /\ ReduceInv'
  BY <1>1, <1>3 DEF CountInv, CopyInv, MapInv, ReduceInv
<1>12. ClosedInv'
  <2>1. closed' = {} /\ Closer' = 1 /\ pc'[1] = "pass"
    BY <1>1, <1>3, OpStill
  <2> QED  BY <2>1 DEF ClosedInv
<1>13. OfferInv'
  <2> DEFINE r == read[1]
  <2>1. OfferInv
    BY DEF CombInv
  <2>2. ASSUME NEW o \in Outs
        PROVE  /\ \A n \in DOMAIN Emitted(o)' :
                     \E k \in 1..r : Emitted(o)'[n] = <<<<1, k>>>>
               /\ \A j, k \in DOMAIN Emitted(o)' :
                     j < k => Emitted(o)'[j][1][2] < Emitted(o)'[k][1][2]
               /\ (\E u \in left' : u.ch = o)
                     => \A k \in DOMAIN Emitted(o)' : Emitted(o)'[k][1][2] < r
    <3>1. CASE Emitted(o)' = Emitted(o)
      BY <1>1, <1>2, <1>3, <2>1, <3>1 DEF OfferInv
    <3>2. CASE Emitted(o)' = Append(Emitted(o), hand[1]) /\ o = t.ch
      <4> DEFINE e == Emitted(o)
                 f == Append(e, hand[1])
                 l == Len(e)
      <4>1. /\ e \in Seq(Msgs) /\ l \in Nat /\ DOMAIN e = 1..l
        BY EmittedType DEF CombInv
      <4>2. f \in Seq(Msgs) /\ Len(f) = l + 1 /\ f[l + 1] = hand[1]
            /\ \A n \in 1..l : f[n] = e[n]
        BY <1>6, <4>1, SeqAppend
      <4>3. DOMAIN f = 1..l + 1
        BY <4>2
      <4>4. /\ \A n \in 1..l : \E k \in 1..r : e[n] = <<<<1, k>>>>
            /\ \A j, k \in 1..l : j < k => e[j][1][2] < e[k][1][2]
            /\ \A k \in 1..l : e[k][1][2] < r
        BY <1>1, <1>2, <1>3, <2>1, <3>2, <4>1 DEF OfferInv
      <4> HIDE DEF e, f, l
      <4>5. \A n : n \in 1..l + 1 <=> n \in 1..l \/ n = l + 1
        BY <4>1
      <4>6. f[l + 1] = <<<<1, r>>>> /\ f[l + 1][1][2] = r /\ r \in 1..r
        BY <1>6, <4>2
      <4>7. \A n \in 1..l + 1 : \E k \in 1..r : f[n] = <<<<1, k>>>>
        BY <4>2, <4>4, <4>5, <4>6
      <4>8. ASSUME NEW j \in 1..l + 1, NEW k \in 1..l + 1, j < k
            PROVE  f[j][1][2] < f[k][1][2]
        <5>1. j \in 1..l
          BY <4>1, <4>8
        <5>2. CASE k \in 1..l
          BY <4>2, <4>4, <4>8, <5>1, <5>2
        <5>3. CASE k = l + 1
          BY <4>2, <4>4, <4>6, <5>1, <5>3
        <5> QED  BY <4>5, <5>2, <5>3
      <4>9. Emitted(o)' = f
        BY <3>2 DEF e, f
      <4> QED  BY <1>5, <3>2, <4>3, <4>7, <4>8, <4>9
    <3> QED  BY <1>7, <3>1, <3>2
  <2> QED  BY <1>1, <1>3, <1>6, <2>2 DEF OfferInv
<1> QED  BY <1>4, <1>8, <1>9, <1>10, <1>11, <1>12, <1>13 DEF CombInv, NeverPanics

\* The destinations change while no pass over them is under way.
LEMMA InvTaps ==
    ASSUME CombInv, MuFree, op \in {"mult", "pub"},
           UNCHANGED <<op, cap, inVars, outVars, loopVars, scopeDone, panicked>>,
           \A t \in taps' : t.ch \in Outs /\ t.close \in BOOLEAN,
           \A t, u \in taps' : t.ch = u.ch => t = u,
           op = "mult" => \A t \in taps' : t.key = t.ch
    PROVE  CombInv'
<1>1. UNCHANGED <<op, cap, fed, ended, read, chan, closed, parked, taken, finished,
                  pc, hand, counted, left, scopeDone, panicked>>
  BY DEF inVars, outVars, loopVars
<1>2. Closer = 1 /\ Dsts = Outs /\ op \notin Copying
  BY DEF Closer, Dsts, Copying
<1>3. left = {}
  BY <1>2 DEF MuFree, CombInv, ClosedInv
<1>4. CombTypeOK'
  <2>1. panicked' \in BOOLEAN
    BY <1>1 DEF CombInv, CombTypeOK
  <2>2. closed' \subseteq Outs /\ pc' \in [Workers -> Places]
        /\ hand' \in [Workers -> Seq(Values)] /\ counted' \in 0..2
    BY <1>1 DEF CombInv, CombTypeOK
  <2> QED  BY <1>1, <1>3, <2>1, <2>2, TypeStill DEF CombInv
<1>5. PlaceInv'
  BY <1>1, QuietStill DEF CombInv, PlaceInv, Started
<1>6. TapInv'
  BY <1>1, <1>2, QuietStill DEF TapInv
<1>7. CountInv' /\ CopyInv'
  BY <1>1, <1>2 DEF CountInv, CopyInv
<1>8. ClosedInv'
  <2>1. Closer' = 1 /\ Dsts' = Dsts /\ \A o \in Dsts : Complete(o) => Complete(o)'
    BY <1>1, <1>2, QuietStill
  <2> QED  BY <1>1, <1>2, <1>3, <2>1 DEF MuFree, CombInv, ClosedInv
<1>9. MapInv' /\ ReduceInv' /\ OfferInv'
  BY <1>1, LoopsStill
<1> QED  BY <1>1, <1>4, <1>5, <1>6, <1>7, <1>8, <1>9 DEF CombInv, NeverPanics

\* tap, untap, untap-all, sub and unsub.
LEMMA InvTap ==
    ASSUME CombInv,
           \/ \E k \in Outs \union Topics, o \in Outs, c \in BOOLEAN : Tap(k, o, c)
           \/ \E k \in Outs \union Topics : Untap(k)
           \/ UntapAll
    PROVE  CombInv'
<1>0. /\ \A t \in taps : t.ch \in Outs /\ t.close \in BOOLEAN
      /\ \A t, u \in taps : t.ch = u.ch => t = u
      /\ op = "mult" => \A t \in taps : t.key = t.ch
  BY DEF CombInv, CombTypeOK, TapInv
<1>1. ASSUME NEW k, NEW o \in Outs, NEW c \in BOOLEAN, Tap(k, o, c)
      PROVE  CombInv'
  <2> DEFINE n == Entry(k, o, c)
  <2>1. n.ch = o /\ n.key = k /\ n.close = c
    BY DEF Entry
  <2>2. /\ MuFree /\ op \in {"mult", "pub"}
        /\ op = "mult" => k = o
        /\ op = "pub" => \A t \in taps : t.ch = o => t.key = k
        /\ taps' = {t \in taps : t.key # k} \union {n}
        /\ UNCHANGED <<op, cap, inVars, outVars, loopVars, scopeDone, panicked>>
    BY <1>1 DEF Tap
  <2> HIDE DEF n
  <2>3. \A t \in taps' : t = n \/ (t \in taps /\ t.ch # o)
    BY <1>0, <2>2
  <2>4. \A t \in taps' : t.ch \in Outs /\ t.close \in BOOLEAN
    BY <1>0, <2>1, <2>3
  <2>5. \A t, u \in taps' : t.ch = u.ch => t = u
    BY <1>0, <2>1, <2>3
  <2>6. op = "mult" => \A t \in taps' : t.key = t.ch
    BY <1>0, <2>1, <2>2, <2>3
  <2> QED  BY <2>2, <2>4, <2>5, <2>6, InvTaps
<1>2. ASSUME (\E k : Untap(k)) \/ UntapAll PROVE CombInv'
  <2>1. /\ MuFree /\ op \in {"mult", "pub"} /\ taps' \subseteq taps
        /\ UNCHANGED <<op, cap, inVars, outVars, loopVars, scopeDone, panicked>>
    BY <1>2 DEF Untap, UntapAll
  <2> QED  BY <1>0, <2>1, InvTaps
<1> QED  BY <1>1, <1>2

\* While goroutines receive and send, nothing is closed or left to close.
LEMMA Running ==
    ASSUME CombInv, NEW w \in Workers, pc[w] \in {"recv", "send"}
    PROVE  /\ closed = {} /\ left = {} /\ w \in Inputs /\ w # 0
           /\ op # "merge" => w = 1 /\ Closer = 1
           /\ op = "merge" => pc[0] \in {"count", "returned"} /\ Closer = 0
<1>1. w \in Inputs /\ w # 0
  BY Who DEF CombInv, PlaceInv, Inputs
<1>2. CASE op # "merge"
  <2>1. w = 1 /\ Closer = 1
    BY <1>2, Alone DEF Closer
  <2> QED  BY <1>1, <1>2, <2>1, NotYetClosed
<1>3. CASE op = "merge"
  <2>1. counted # 2 /\ Closer = 0
    BY <1>1, <1>3 DEF CombInv, CountInv, Closer
  <2>2. pc[0] \in {"count", "returned"}
    BY <1>3, <2>1 DEF CombInv, CountInv, PlaceInv
  <2>3. closed = {} /\ left = {}
    BY <1>3, <2>1, <2>2 DEF CombInv, ClosedInv
  <2> QED  BY <1>1, <1>3, <2>1, <2>2, <2>3
<1> QED  BY <1>2, <1>3

\* The loop is left when all is done ...
LEMMA LoopLeft ==
    ASSUME CombInv, UNCHANGED <<op, cap, taps, closed>>, op # "merge", closed = {},
           pc'[1] = "close", left' = {t \in taps : t.close},
           \A o \in Dsts : Complete(o)'
    PROVE  ClosedInv'
<1>1. Closer' = 1 /\ Dsts' = Dsts /\ op' # "merge"
  BY OpStill DEF Closer
<1>2. closed' = {} /\ closed' \union Channels(left') = ToClose'
  BY DEF ToClose, Channels
<1> QED  BY <1>1, <1>2 DEF ClosedInv

\* ... or goes on, and the closer is where it was or not there yet.
LEMMA LoopGoesOn ==
    ASSUME CombInv, UNCHANGED <<op, cap, taps, closed, left, scopeDone>>,
           closed = {}, left = {},
           pc'[Closer] \notin {"close", "returned"}
             \/ (pc'[Closer] = pc[Closer] /\ pc[Closer] # "close")
    PROVE  ClosedInv'
<1>1. Closer' = Closer /\ Dsts' = Dsts
  BY OpStill
<1>2. closed' = {} /\ left' = {} /\ ToClose' = ToClose
  BY DEF ToClose
<1>3. pc[Closer] = "returned" /\ ~scopeDone /\ op \notin {"mult", "pub"} => ToClose = {}
  BY DEF CombInv, ClosedInv
<1> QED  BY <1>1, <1>2, <1>3 DEF ClosedInv

\* What a send changes but for the properties of the values sent.
LEMMA SendStep ==
    ASSUME CombInv, NEW w \in Workers, Send(w)
    PROVE  LET ending == op = "reduce" \/ (op = "take" /\ read[1] = Limit)
           IN  /\ pc[w] = "send" /\ w \in Inputs /\ closed = {} /\ left = {}
               /\ op \notin {"mult", "pub"} /\ (op # "merge" => w = 1 /\ Closer = 1)
               /\ op = "merge" => pc[0] \in {"count", "returned"} /\ Closer = 0
               /\ UNCHANGED <<op, cap, fed, ended, read, closed, parked, taken,
                              finished, counted, taps, scopeDone, panicked>>
               /\ hand[w] \in Msgs
               /\ \E d \in Dsts : /\ d = Dst(w)
                                 /\ Emitted(d)' = Append(Emitted(d), hand[w])
                                 /\ \A o \in Outs \ {d} : Emitted(o)' = Emitted(o)
               /\ CombTypeOK' /\ PlaceInv' /\ TapInv'
               /\ pc'[w] = IF ending THEN "close" ELSE "recv"
               /\ hand'[w] = <<>>
               /\ \A u \in Workers \ {w} : pc'[u] = pc[u] /\ hand'[u] = hand[u]
               /\ left' = IF ending THEN {t \in taps : t.close} ELSE left
<1>0. PICK d \in Outs : d = Dst(w) /\ d \in Dsts
  BY Who DEF Dst, Dsts, Outs
<1> DEFINE ending == op = "reduce" \/ (op = "take" /\ read[1] = Limit)
<1>1. /\ pc[w] = "send" /\ (Room(d) \/ d \in closed)
      /\ panicked' = (panicked \/ d \in closed)
      /\ IF d \in closed THEN UNCHANGED chan
         ELSE chan' = [chan EXCEPT ![d] = Append(@, hand[w])]
      /\ pc' = [pc EXCEPT ![w] = IF ending THEN "close" ELSE "recv"]
      /\ hand' = [hand EXCEPT ![w] = <<>>]
      /\ left' = IF ending THEN {t \in taps : t.close} ELSE left
      /\ UNCHANGED <<op, cap, fed, ended, read, closed, parked, taken, finished,
                     counted, taps, scopeDone>>
  BY <1>0 DEF Send, Closing, Goto, Hold, inVars
<1>2. /\ closed = {} /\ left = {} /\ w \in Inputs /\ w # 0
      /\ op # "merge" => w = 1 /\ Closer = 1
      /\ op = "merge" => pc[0] \in {"count", "returned"} /\ Closer = 0
  BY <1>1, Running
<1>3. op \notin {"mult", "pub"}
  BY <1>1 DEF CombInv, PlaceInv
<1>5. ~panicked /\ ~panicked' /\ hand[w] \in Msgs /\ panicked' = panicked
  <2>1. panicked \in BOOLEAN /\ panicked' \in BOOLEAN
    BY <1>1 DEF CombInv, CombTypeOK
  <2>2. ~panicked /\ ~panicked'
    BY <1>1, <1>2 DEF CombInv, NeverPanics
  <2> QED  BY <2>1, <2>2 DEF CombInv, CombTypeOK, Msgs
<1>6. Room(d) /\ chan' = [chan EXCEPT ![d] = Append(@, hand[w])]
  BY <1>1, <1>2
<1> HIDE DEF ending
<1>7. /\ Emitted(d)' = Append(Emitted(d), hand[w])
      /\ \A o \in Outs \ {d} : Emitted(o)' = Emitted(o)
      /\ chan' \in [Outs -> Seq(Seq(Values))]
      /\ \A o \in Outs : Len(chan'[o]) <= Capacity' + (IF o \in parked' THEN 1 ELSE 0)
  BY <1>1, <1>5, <1>6, Sent DEF CombInv
<1>8. /\ pc'[w] = IF ending THEN "close" ELSE "recv"
      /\ hand'[w] = <<>>
      /\ \A u \in Workers \ {w} : pc'[u] = pc[u] /\ hand'[u] = hand[u]
  BY <1>1 DEF CombInv, CombTypeOK
<1>9. CombTypeOK'
  <2>1. {scopeDone', panicked'} \subseteq BOOLEAN
    BY <1>1, <1>5 DEF CombInv, CombTypeOK
  <2>2. pc' \in [Workers -> Places]
    BY <1>1 DEF CombInv, CombTypeOK, Places
  <2>3. hand' \in [Workers -> Seq(Values)]
    BY <1>1 DEF CombInv, CombTypeOK
  <2>4. left' \subseteq taps'
    BY <1>1 DEF CombInv, CombTypeOK
  <2> QED  BY <1>1, <1>7, <2>1, <2>2, <2>3, <2>4 DEF CombInv, CombTypeOK
<1>10. PlaceInv'
  <2>1. Started(op)' = Started(op) /\ Closer' = Closer /\ (ending => w = Closer)
    BY <1>1, <1>2, OpStill DEF Started, ending
  <2>2. Len(hand'[w]) < 2
    BY <1>8
  <2> QED  BY <1>1, <1>2, <1>8, <2>1, <2>2 DEF CombInv, PlaceInv
<1>11. TapInv'
  BY <1>1, OpStill DEF CombInv, TapInv
<1> QED  BY <1>0, <1>1, <1>2, <1>3, <1>5, <1>7, <1>8, <1>9, <1>10, <1>11 DEF ending

\* A copy that is sent last: the order is kept when all that came before it
\* from the same input is in the output, and it is not.
LEMMA CopySent ==
    ASSUME CombTypeOK, UNCHANGED <<op, cap, read>>, NEW o \in Outs, NEW i \in Ins,
           NEW r, r = read,
           CopiesInOrder(o), r[i] > 0, <<<<i, r[i]>>>> \in Msgs,
           Meant(<<i, r[i]>>, o), ~InOutput(<<i, r[i]>>, o),
           CameUpTo(i, r[i] - 1, o),
           Emitted(o)' = Append(Emitted(o), <<<<i, r[i]>>>>)
    PROVE  CopiesInOrder(o)' /\ CameUpTo(i, r[i], o)'
<1> DEFINE e == Emitted(o)
           m == <<<<i, r[i]>>>>
           f == Append(e, m)
           l == Len(e)
<1>1. e \in Seq(Msgs) /\ l \in Nat /\ DOMAIN e = 1..l
  BY EmittedType
<1>2. f \in Seq(Msgs) /\ Len(f) = l + 1 /\ f[l + 1] = m /\ \A n \in 1..l : f[n] = e[n]
  BY <1>1, SeqAppend
<1>3. DOMAIN f = 1..l + 1 /\ \A n : n \in 1..l + 1 <=> n \in 1..l \/ n = l + 1
  BY <1>1, <1>2
<1>4. Ins \subseteq Inputs /\ Ins' = Ins /\ r[i] \in Nat
      /\ \A v : Meant(v, o)' <=> Meant(v, o)
  BY OpStill, CombinatorsConstants DEF Ins, Inputs, CombTypeOK
<1>5. /\ \A v : InOutput(v, o)' <=> InOutput(v, o) \/ m = <<v>>
      /\ \A j, k : CameUpTo(j, k, o) => CameUpTo(j, k, o)'
  BY OutGrows
<1>6. CameUpTo(i, r[i], o)'
  <2>1. \A j \in 1..r[i] - 1 : Meant(<<i, j>>, o)' => InOutput(<<i, j>>, o)'
    BY <1>5 DEF CameUpTo
  <2>2. InOutput(<<i, r[i]>>, o)'
    BY <1>5
  <2>3. \A j \in 1..r[i] : j \in 1..r[i] - 1 \/ j = r[i]
    BY <1>4
  <2>4. \A j \in 1..r[i] : Meant(<<i, j>>, o)' => InOutput(<<i, j>>, o)'
    BY <2>1, <2>2, <2>3
  <2> QED  BY <2>4 DEF CameUpTo
<1> HIDE DEF e, f, l
<1>7. ASSUME NEW n \in 1..l + 1
      PROVE  \E j \in Ins : \E k \in 1..r[j] :
                /\ f[n] = <<<<j, k>>>> /\ Meant(<<j, k>>, o) /\ CameUpTo(j, k, o)'
  <2>1. CASE n \in 1..l
    <3>1. PICK j \in Ins : \E k \in 1..r[j] :
                /\ e[n] = <<<<j, k>>>> /\ Meant(<<j, k>>, o) /\ CameUpTo(j, k, o)
      BY <1>1, <2>1 DEF CopiesInOrder, e
    <3> QED  BY <1>2, <1>5, <2>1, <3>1
  <2>2. CASE n = l + 1
    <3>1. r[i] \in 1..r[i]
      BY <1>4
    <3> QED  BY <1>2, <1>6, <2>2, <3>1
  <2> QED  BY <1>3, <2>1, <2>2
<1>8. ASSUME NEW a \in 1..l + 1, NEW b \in 1..l + 1, a < b, f[a][1][1] = f[b][1][1]
      PROVE  f[a][1][2] < f[b][1][2]
  <2>1. a \in 1..l /\ f[a] = e[a]
    BY <1>1, <1>2, <1>8
  <2>2. CASE b \in 1..l
    <3>1. f[b] = e[b]
      BY <1>2, <2>2
    <3> QED  BY <1>1, <1>8, <2>1, <2>2, <3>1 DEF CopiesInOrder, e
  <2>3. CASE b = l + 1
    <3>1. PICK j \in Ins : \E k \in 1..r[j] : e[a] = <<<<j, k>>>>
      BY <1>1, <2>1 DEF CopiesInOrder, e
    <3>2. PICK k \in 1..r[j] : e[a] = <<<<j, k>>>>
      BY <3>1
    <3>3. f[b] = m /\ j = i
      BY <1>2, <1>8, <2>1, <2>3, <3>2
    <3>4. k # r[i]
      BY <1>1, <2>1, <3>2, <3>3 DEF InOutput, e
    <3>5. k \in Nat /\ k < r[i]
      BY <1>4, <3>2, <3>3, <3>4
    <3> QED  BY <2>1, <3>2, <3>3, <3>5
  <2> QED  BY <1>3, <2>2, <2>3
<1>9. Emitted(o)' = f
  BY DEF e, f
<1>10. CopiesInOrder(o)'
  <2>1. \A n \in DOMAIN f :
          \E j \in Ins' : \E k \in 1..read'[j] :
             /\ f[n] = <<<<j, k>>>> /\ Meant(<<j, k>>, o)' /\ CameUpTo(j, k, o)'
    BY <1>3, <1>4, <1>7
  <2>2. \A a, b \in DOMAIN f :
          a < b /\ f[a][1][1] = f[b][1][1] => f[a][1][2] < f[b][1][2]
    BY <1>3, <1>8
  <2> QED  BY <1>9, <2>1, <2>2 DEF CopiesInOrder
<1> QED  BY <1>6, <1>10

\* A copying goroutine passes on what it holds.
LEMMA SendCopy ==
    ASSUME CombInv, NEW w \in Workers, Send(w), op \in Copying
    PROVE  CopyInv' /\ CountInv' /\ ClosedInv'
<1>1. /\ pc[w] = "send" /\ w \in Inputs /\ closed = {} /\ left = {}
      /\ op # "merge" => w = 1 /\ Closer = 1
      /\ op = "merge" => pc[0] \in {"count", "returned"} /\ Closer = 0
      /\ UNCHANGED <<op, cap, fed, ended, read, closed, parked, taken,
                     finished, counted, taps, scopeDone, panicked>>
      /\ hand[w] \in Msgs
      /\ pc'[w] = IF op = "take" /\ read[1] = Limit THEN "close" ELSE "recv"
      /\ \A u \in Workers \ {w} : pc'[u] = pc[u] /\ hand'[u] = hand[u]
      /\ left' = IF op = "take" /\ read[1] = Limit THEN {t \in taps : t.close} ELSE left
  BY SendStep DEF Copying
<1>2. PICK d \in Dsts : /\ d = Dst(w) /\ Emitted(d)' = Append(Emitted(d), hand[w])
                        /\ \A o \in Outs \ {d} : Emitted(o)' = Emitted(o)
  BY SendStep
<1>3. /\ w \in Ins /\ Reader(w) = w /\ \A i \in Ins : Reader(i) = w => i = w
      /\ Ins \subseteq Inputs /\ Dsts \subseteq Outs /\ 0 \in Workers /\ w # 0
      /\ \A i \in Ins : Reader(i) \in Workers
  BY <1>1, Who DEF Ins, Reader, Copying, Inputs
<1>0. PICK r : r = read /\ r = read' /\ r[1] = read[1]
  BY <1>1
<1> DEFINE v == <<w, r[w]>>
<1>4. /\ r[w] > 0 /\ hand[w] = <<v>>
      /\ \A o \in Dsts : ~InOutput(v, o) /\ CameUpTo(w, r[w] - 1, o) /\ CopiesInOrder(o)
  BY <1>0, <1>1, <1>3 DEF CombInv, CopyInv
<1>5. \A o \in Dsts : Meant(v, o) <=> o = d
  <2>1. hand[w][1] = v
    BY <1>4
  <2> HIDE DEF v
  <2>2. Meant(v, d)
    BY <1>2, <2>1 DEF Meant, Dst
  <2>3. ASSUME NEW o \in Dsts, Meant(v, o) PROVE o = d
    <3>1. CASE op = "split"
      <4>1. o \in {1, 2} /\ d \in {1, 2}
        BY DEF Dsts, Outs
      <4>2. (o = 1 <=> v \in Truthy \ Fails) /\ d = IF v \in Truthy \ Fails THEN 1 ELSE 2
        BY <1>2, <2>1, <2>3, <3>1 DEF Meant, Dst
      <4> QED  BY <4>1, <4>2
    <3>2. CASE op # "split"
      BY <1>1, <3>2 DEF Dsts, Copying
    <3> QED  BY <3>1, <3>2
  <2> QED  BY <2>2, <2>3
<1>6. /\ Ins' = Ins /\ Dsts' = Dsts /\ Closer' = Closer
      /\ \A i : Reader(i)' = Reader(i) /\ \A u, o : Meant(u, o)' <=> Meant(u, o)
  BY <1>1, OpStill
<1>7. \A o \in Dsts : /\ \A u : InOutput(u, o)' => InOutput(u, o) \/ u = v
                      /\ \A i, k : CameUpTo(i, k, o) => CameUpTo(i, k, o)'
  <2>1. ASSUME NEW o \in Dsts, o # d
        PROVE  /\ \A u : InOutput(u, o)' <=> InOutput(u, o)
               /\ \A i, k : CameUpTo(i, k, o)' <=> CameUpTo(i, k, o)
    BY <1>1, <1>2, <1>3, <2>1, OutStill
  <2>2. /\ \A u : InOutput(u, d)' <=> InOutput(u, d) \/ hand[w] = <<u>>
        /\ \A i, k : CameUpTo(i, k, d) => CameUpTo(i, k, d)'
    BY <1>1, <1>2, <1>3, OutGrows DEF CombInv
  <2>3. \A u : hand[w] = <<u>> => u = v
    BY <1>4
  <2> HIDE DEF v
  <2> QED  BY <2>1, <2>2, <2>3
<1>8. \A o \in Dsts : CopiesInOrder(o)'
  <2>1. CopiesInOrder(d)'
    BY <1>1, <1>2, <1>3, <1>4, <1>5, <1>0, CopySent DEF CombInv
  <2>2. ASSUME NEW o \in Dsts, o # d PROVE CopiesInOrder(o)'
    <3>1. \A i \in Inputs : read'[i] \in 0..MaxVals /\ r[i] = read'[i]
      BY <1>0, <1>1 DEF CombInv, CombTypeOK
    <3>2. \A i \in Inputs : read'[i] >= read[i]
      BY <1>0, <3>1, CombinatorsConstants
    <3> QED  BY <1>1, <1>2, <1>3, <1>4, <2>2, <3>2, CopiesStill DEF CombInv, CombTypeOK
  <2> QED  BY <2>1, <2>2
<1>9. \A o \in Dsts : CameUpTo(w, r[w], o)'
  <2>1. CameUpTo(w, r[w], d)'
    BY <1>1, <1>2, <1>3, <1>4, <1>5, <1>0, CopySent DEF CombInv
  <2>2. ASSUME NEW o \in Dsts, o # d PROVE CameUpTo(w, r[w], o)'
    <3>1. CameUpTo(w, r[w] - 1, o)'
      BY <1>4, <1>7
    <3>2. ~Meant(v, o)'
      BY <1>5, <1>6, <2>2
    <3>3. r[w] \in Nat
      BY <1>0, <1>3, CombinatorsConstants DEF CombInv, CombTypeOK
    <3>4. \A j \in 1..r[w] : j \in 1..r[w] - 1 \/ j = r[w]
      BY <3>3
    <3> QED  BY <3>1, <3>2, <3>4 DEF CameUpTo
  <2> QED  BY <2>1, <2>2
<1> HIDE DEF v
<1>10. CopyInv'
  <2>1. ASSUME NEW i \in Ins
        PROVE  (/\ pc[Reader(i)] = "send" =>
                     /\ read[i] > 0 /\ hand[Reader(i)] = <<<<i, read[i]>>>>
                     /\ \A o \in Dsts : ~InOutput(<<i, read[i]>>, o)
                                        /\ CameUpTo(i, read[i] - 1, o)
                /\ pc[Reader(i)] # "send" /\ (pc[Reader(i)] = "returned" => ~scopeDone)
                     => \A o \in Dsts : CameUpTo(i, read[i], o))'
    <3>1. Reader(i)' = Reader(i) /\ read' = r /\ scopeDone' = scopeDone /\ Dsts' = Dsts
      BY <1>0, <1>1, <1>6
    <3>2. /\ \A o : InOutput(<<i, read[i]>>, o)' <=> InOutput(<<i, r[i]>>, o)'
          /\ \A o : CameUpTo(i, read[i], o)' <=> CameUpTo(i, r[i], o)'
          /\ \A o : CameUpTo(i, read[i] - 1, o)' <=> CameUpTo(i, r[i] - 1, o)'
      <4>1. \A o : InOutput(<<i, read[i]>>, o)' <=> InOutput(<<i, r[i]>>, o)'
        BY <3>1 DEF InOutput
      <4>2. \A o : CameUpTo(i, read[i], o)' <=> CameUpTo(i, r[i], o)'
        BY <3>1 DEF CameUpTo
      <4>3. \A o : CameUpTo(i, read[i] - 1, o)' <=> CameUpTo(i, r[i] - 1, o)'
        BY <3>1 DEF CameUpTo
      <4> QED  BY <4>1, <4>2, <4>3
    <3>3. CASE i = w
      <4>1. pc'[Reader(i)] # "send"
        BY <1>1, <1>3, <3>3
      <4> QED  BY <1>9, <3>1, <3>2, <3>3, <4>1
    <3>4. CASE i # w
      <4>1. pc'[Reader(i)] = pc[Reader(i)] /\ hand'[Reader(i)] = hand[Reader(i)]
        BY <1>1, <1>3, <3>4
      <4>2. <<i, r[i]>> # v
        BY <3>4 DEF v
      <4>3. /\ pc[Reader(i)] = "send" =>
                    /\ r[i] > 0 /\ hand[Reader(i)] = <<<<i, r[i]>>>>
                    /\ \A o \in Dsts : ~InOutput(<<i, r[i]>>, o)
                                       /\ CameUpTo(i, r[i] - 1, o)
            /\ pc[Reader(i)] # "send" /\ (pc[Reader(i)] = "returned" => ~scopeDone)
                    => \A o \in Dsts : CameUpTo(i, r[i], o)
        BY <1>0 DEF CombInv, CopyInv
      <4>4. /\ pc[Reader(i)] = "send" =>
                    /\ r[i] > 0 /\ hand[Reader(i)] = <<<<i, r[i]>>>>
                    /\ \A o \in Dsts : ~InOutput(<<i, r[i]>>, o)'
                                       /\ CameUpTo(i, r[i] - 1, o)'
            /\ pc[Reader(i)] # "send" /\ (pc[Reader(i)] = "returned" => ~scopeDone)
                    => \A o \in Dsts : CameUpTo(i, r[i], o)'
        BY <1>7, <4>2, <4>3
      <4> QED  BY <3>1, <3>2, <4>1, <4>4
    <3> QED  BY <3>3, <3>4
  <2> QED  BY <1>6, <1>8, <2>1 DEF CopyInv
<1>11. CountInv'
  <2> SUFFICES ASSUME op = "merge" PROVE CountInv'
    BY <1>1 DEF CountInv
  <2>1. 1 \in Dsts
    BY Who
  <2>2. \A u \in Inputs : Through(u) => Through(u)'
    <3>1. \A u \in Inputs : Drained(u)' <=> Drained(u)
      BY <1>1 DEF Drained
    <3>2. \A u \in Inputs : CameUpTo(u, r[u], 1) => CameUpTo(u, r[u], 1)'
      BY <1>7, <2>1
    <3> QED  BY <1>0, <1>1, <3>1, <3>2 DEF Through
  <2>3. \A u \in Inputs : pc'[u] = "signal" => pc[u] = "signal"
    BY <1>1, Who
  <2>4. \A u \in Inputs : pc[u] = "returned" => pc'[u] = "returned"
    BY <1>1, Who
  <2>5. counted # 2 /\ pc'[0] = pc[0]
    BY <1>1, <1>3 DEF CombInv, CountInv
  <2> QED  BY <1>1, <2>2, <2>3, <2>4, <2>5 DEF CombInv, CountInv
<1>12. ClosedInv'
  <2>1. CASE op = "take" /\ r[1] = Limit
    <3>1. ASSUME NEW o \in Dsts PROVE Complete(o)'
      <4>1. w = 1 /\ Ins = {1} /\ CameUpTo(1, r[1], o)'
        BY <1>0, <1>1, <1>9, <2>1 DEF Ins
      <4>2. \A i \in Ins' : CameUpTo(i, r[i], o)'
        BY <1>6, <4>1
      <4> QED  BY <1>0, <1>1, <2>1, <4>2 DEF Complete, Copying
    <3> QED  BY <1>1, <2>1, <3>1, LoopLeft, <1>0
  <2>2. CASE ~(op = "take" /\ r[1] = Limit)
    <3>1. CASE op = "merge"
      BY <1>1, <1>3, <2>2, <3>1, <1>0, LoopGoesOn
    <3>2. CASE op # "merge"
      BY <1>1, <1>3, <2>2, <3>2, <1>0, LoopGoesOn
    <3> QED  BY <3>1, <3>2
  <2> QED  BY <2>1, <2>2
<1> QED  BY <1>10, <1>11, <1>12

\* map sends the pair that comes next.
LEMMA SendMap ==
    ASSUME CombInv, NEW w \in Workers, Send(w), op = "map"
    PROVE  MapInv' /\ ClosedInv'
<1>1. /\ pc[1] = "send" /\ closed = {} /\ left = {} /\ w = 1 /\ Closer = 1
      /\ UNCHANGED <<op, cap, read, closed, left, taps, scopeDone>>
      /\ hand[1] \in Msgs /\ pc'[1] = "recv" /\ hand'[1] = <<>>
  BY SendStep
<1>2. Emitted(1)' = Append(Emitted(1), hand[1])
  <2>1. PICK d \in Dsts : d = Dst(w) /\ Emitted(d)' = Append(Emitted(d), hand[w])
    BY SendStep
  <2>2. d = 1
    BY <2>1 DEF Dst
  <2> QED  BY <1>1, <2>1, <2>2
<1> DEFINE e == Emitted(1)
           f == Append(e, hand[1])
           l == Len(e)
<1>3. e \in Seq(Msgs) /\ l \in Nat /\ DOMAIN e = 1..l
  BY EmittedType DEF CombInv, Outs
<1>4. Len(f) = l + 1 /\ f[l + 1] = hand[1] /\ \A k \in 1..l : f[k] = e[k]
  BY <1>1, <1>3, SeqAppend
<1>5. /\ \A k \in 1..l : e[k] = <<<<1, k>>, <<2, k>>>>
      /\ hand[1] = <<<<1, l + 1>>, <<2, l + 1>>>> /\ read[1] = l + 1 /\ read[2] = l + 1
  BY <1>1 DEF CombInv, MapInv
<1> HIDE DEF e, f, l
<1>6. \A k \in 1..l + 1 : f[k] = <<<<1, k>>, <<2, k>>>>
  <2>1. \A k \in 1..l + 1 : k \in 1..l \/ k = l + 1
    BY <1>3
  <2> QED  BY <1>4, <1>5, <2>1
<1>7. Emitted(1)' = f
  BY <1>2 DEF e, f
<1>8. MapInv'
  <2>1. Len(<<>>) = 0 /\ l + 1 = l + 1 + 0
    BY <1>3
  <2> QED  BY <1>1, <1>4, <1>5, <1>6, <1>7, <2>1 DEF MapInv
<1>9. ClosedInv'
  BY <1>1, LoopGoesOn
<1> QED  BY <1>8, <1>9

\* reduce answers.
LEMMA SendReduce ==
    ASSUME CombInv, NEW w \in Workers, Send(w), op = "reduce"
    PROVE  ReduceInv' /\ ClosedInv'
<1>1. /\ pc[1] = "send" /\ closed = {} /\ left = {} /\ w = 1 /\ Closer = 1 /\ Dsts = {1}
      /\ UNCHANGED <<op, cap, fed, ended, read, closed, taps, scopeDone>>
      /\ hand[1] \in Msgs /\ pc'[1] = "close" /\ left' = {t \in taps : t.close}
  BY SendStep DEF Dsts
<1>2. Emitted(1)' = Append(Emitted(1), hand[1])
  <2>1. PICK d \in Dsts : d = Dst(w) /\ Emitted(d)' = Append(Emitted(d), hand[w])
    BY SendStep
  <2>2. d = 1
    BY <2>1 DEF Dst
  <2> QED  BY <1>1, <2>1, <2>2
<1>3. /\ Emitted(1) = <<>> /\ IsFold(hand[1])
      /\ Drained(1) \/ \E k \in 1..read[1] : <<1, k>> \in Fails
  BY <1>1 DEF CombInv, ReduceInv
<1>4. Len(Emitted(1)') = 1 /\ Emitted(1)'[1] = hand[1] /\ Emitted(1)' # <<>>
  <2>1. \A m \in Msgs : /\ Len(Append(<<>>, m)) = 1 /\ Append(<<>>, m)[1] = m
                        /\ Append(<<>>, m) # <<>>
    OBVIOUS
  <2>2. Emitted(1)' = Append(<<>>, hand[1])
    BY <1>2, <1>3
  <2>3. /\ Len(Append(<<>>, hand[1])) = 1 /\ Append(<<>>, hand[1])[1] = hand[1]
        /\ Append(<<>>, hand[1]) # <<>>
    BY <1>1, <2>1
  <2> QED  BY <2>2, <2>3
<1>5. IsFold(Emitted(1)[1])'
  BY <1>1, <1>3, <1>4 DEF IsFold
<1>6. Drained(1)' <=> Drained(1)
  BY <1>1 DEF Drained
<1>7. ReduceInv'
  BY <1>1, <1>4, <1>5 DEF ReduceInv
<1>8. ClosedInv'
  <2>1. Complete(1)'
    BY <1>1, <1>3, <1>4, <1>5, <1>6 DEF Complete, Copying
  <2> QED  BY <1>1, <2>1, LoopLeft
<1> QED  BY <1>7, <1>8

\* A send, whatever the combinator.
LEMMA InvSend ==
    ASSUME CombInv, NEW w \in Workers, Send(w)
    PROVE  CombInv'
<1>1. /\ op' = op /\ op \notin {"mult", "pub"} /\ panicked' = panicked
      /\ CombTypeOK' /\ PlaceInv' /\ TapInv'
  BY SendStep
<1>2. NeverPanics' /\ OfferInv'
  BY <1>1 DEF CombInv, NeverPanics, OfferInv
<1>3. CASE op \in Copying
  <2>1. MapInv' /\ ReduceInv'
    BY <1>1, <1>3 DEF Copying, MapInv, ReduceInv
  <2> QED  BY <1>1, <1>2, <1>3, <2>1, SendCopy DEF CombInv
<1>4. CASE op = "map"
  <2>1. CopyInv' /\ CountInv' /\ ReduceInv'
    BY <1>1, <1>4 DEF Copying, CopyInv, CountInv, ReduceInv
  <2> QED  BY <1>1, <1>2, <1>4, <2>1, SendMap DEF CombInv
<1>5. CASE op = "reduce"
  <2>1. CopyInv' /\ CountInv' /\ MapInv'
    BY <1>1, <1>5 DEF Copying, CopyInv, CountInv, MapInv
  <2> QED  BY <1>1, <1>2, <1>5, <2>1, SendReduce DEF CombInv
<1> QED  BY <1>1, <1>3, <1>4, <1>5, Who DEF Copying

\* How a receive ends: with a value, by the kind of the combinator ...
LEMMA RecvValue ==
    ASSUME CombInv, NEW w \in Workers, NEW v, Received(w, v), pc[w] = "recv"
    PROVE  /\ op \in Copying => Hold(w, <<v>>) /\ Goto(w, "send") /\ left' = left
           /\ op = "map" /\ Len(hand[w]) = 0 => Hold(w, <<v>>) /\ UNCHANGED <<pc, left>>
           /\ op = "map" /\ Len(hand[w]) = 1 /\ v \in Fails => Closing(w)
           /\ op = "map" /\ Len(hand[w]) = 1 /\ v \notin Fails =>
                 Hold(w, Append(hand[w], v)) /\ Goto(w, "send") /\ left' = left
           /\ op = "reduce" /\ v \in Fails => Goto(w, "send") /\ UNCHANGED <<hand, left>>
           /\ op = "reduce" /\ v \notin Fails =>
                 Hold(w, Append(hand[w], v)) /\ UNCHANGED <<pc, left>>
           /\ op \in {"mult", "pub"} =>
                 \/ UNCHANGED <<pc, hand, left>>
                 \/ Hold(w, <<v>>) /\ Goto(w, "lock") /\ left' = left
<1>1. CASE op \in Copying
  BY <1>1 DEF Received, Copying
<1>2. CASE op = "map"
  BY <1>2 DEF Received, Copying
<1>3. CASE op = "reduce"
  BY <1>3 DEF Received, Copying
<1>4. CASE op \in {"mult", "pub"}
  BY <1>4 DEF Received, Copying
<1> QED  BY <1>1, <1>2, <1>3, <1>4

\* ... or with the end.
LEMMA RecvEnd ==
    ASSUME NEW w, InputEnd(w)
    PROVE  /\ op = "merge" => Goto(w, "signal") /\ UNCHANGED <<hand, left>>
           /\ op \in Copying \ {"merge"} \/ op = "map" => Closing(w)
           /\ op = "reduce" => Goto(w, "send") /\ UNCHANGED <<hand, left>>
           /\ op \in {"mult", "pub"} => Goto(w, "lock") /\ UNCHANGED <<hand, left>>
<1>1. CASE op = "merge"
  BY <1>1 DEF InputEnd, Copying
<1>2. CASE op = "reduce"
  BY <1>2 DEF InputEnd, Copying
<1>3. CASE op \in {"mult", "pub"}
  BY <1>3 DEF InputEnd, Copying
<1>4. CASE op \notin {"merge", "reduce", "mult", "pub"}
  BY <1>4 DEF InputEnd, Copying
<1> QED  BY <1>1, <1>2, <1>3, <1>4

\* What a receive changes but for the properties of the values received.
LEMMA RecvStep ==
    ASSUME CombInv, NEW w \in Workers, Recv(w)
    PROVE  /\ pc[w] = "recv" /\ w \in Inputs /\ w # 0 /\ closed = {} /\ left = {}
           /\ op # "merge" => w = 1 /\ Closer = 1
           /\ op = "merge" => pc[0] \in {"count", "returned"} /\ Closer = 0
           /\ op = "map" => Len(hand[w]) \in {0, 1}
           /\ UNCHANGED <<op, cap, fed, ended, chan, closed, parked, taken, finished,
                          counted, taps, scopeDone, panicked>>
           /\ \A o : Emitted(o)' = Emitted(o)
           /\ \E i \in Ins :
                 /\ i = Src(w) /\ i \in Inputs /\ read[i] \in Nat
                 /\ \/ /\ read' = [read EXCEPT ![i] = @ + 1] /\ read[i] + 1 \in 1..MaxVals
                       /\ Received(w, <<i, read[i] + 1>>)
                    \/ read' = read /\ Drained(i) /\ InputEnd(w)
           /\ read' \in [Inputs -> 0..MaxVals] /\ \A i \in Inputs : read'[i] >= read[i]
<1>1. /\ pc[w] = "recv"
      /\ UNCHANGED <<op, cap, fed, ended, chan, closed, parked, taken, finished,
                     counted, taps, scopeDone, panicked>>
  BY DEF Recv, outVars
<1>2. /\ w \in Inputs /\ w # 0 /\ closed = {} /\ left = {}
      /\ op # "merge" => w = 1 /\ Closer = 1
      /\ op = "merge" => pc[0] \in {"count", "returned"} /\ Closer = 0
  BY <1>1, Running
<1>3. op = "map" => Len(hand[w]) \in {0, 1}
  <2>1. hand[w] \in Seq(Values) /\ Len(hand[w]) \in Nat
    BY DEF CombInv, CombTypeOK
  <2>2. op = "map" => Len(hand[w]) < 2
    BY <1>1 DEF CombInv, PlaceInv
  <2>3. \A n \in Nat : n < 2 => n \in {0, 1}
    OBVIOUS
  <2> QED  BY <2>1, <2>2, <2>3
<1>4. PICK i \in Ins : i = Src(w) /\ i \in Inputs
  <2>1. CASE op = "merge"
    BY <1>2, <2>1 DEF Src, Ins
  <2>2. CASE op = "map"
    <3>1. Len(hand[w]) + 1 \in {1, 2}
      <4>1. \A n \in {0, 1} : n + 1 \in {1, 2}
        OBVIOUS
      <4> QED  BY <1>3, <2>2, <4>1
    <3> QED  BY <2>2, <3>1 DEF Src, Ins, Inputs
  <2>3. CASE op \notin {"merge", "map"}
    BY <2>3 DEF Src, Ins, Inputs
  <2> QED  BY <2>1, <2>2, <2>3
<1>5. /\ read \in [Inputs -> 0..MaxVals] /\ fed[i] \in 0..MaxVals /\ MaxVals \in Nat
      /\ read[i] \in Nat
  BY <1>4, CombinatorsConstants DEF CombInv, CombTypeOK
<1>6. \/ /\ read[i] < fed[i] /\ read' = [read EXCEPT ![i] = @ + 1]
         /\ Received(w, <<i, read[i] + 1>>)
      \/ read[i] = fed[i] /\ i \in ended /\ InputEnd(w) /\ read' = read
  BY <1>4 DEF Recv
<1>7. read' \in [Inputs -> 0..MaxVals] /\ \A j \in Inputs : read'[j] >= read[j]
  <2>1. CASE read[i] < fed[i] /\ read' = [read EXCEPT ![i] = @ + 1]
    BY <1>4, <1>5, <2>1
  <2>2. CASE read' = read
    BY <1>5, <2>2
  <2> QED  BY <1>6, <2>1, <2>2
<1>8. \/ /\ read' = [read EXCEPT ![i] = @ + 1] /\ read[i] + 1 \in 1..MaxVals
         /\ Received(w, <<i, read[i] + 1>>)
      \/ read' = read /\ Drained(i) /\ InputEnd(w)
  BY <1>5, <1>6 DEF Drained
<1>9. \A o : Emitted(o)' = Emitted(o)
  BY <1>1 DEF Emitted
<1> QED  BY <1>1, <1>2, <1>3, <1>4, <1>5, <1>7, <1>8, <1>9

\* Where a receive leads.
LEMMA RecvLeads ==
    ASSUME CombInv, NEW w \in Workers, Recv(w)
    PROVE  \E p \in Places, h \in Seq(Values) :
              /\ pc' = [pc EXCEPT ![w] = p] /\ hand' = [hand EXCEPT ![w] = h]
              /\ left' \in {left, {t \in taps : t.close}}
              /\ p # "count" /\ p # "pass" /\ (p = "signal" => op = "merge")
              /\ p = "lock" => op \in {"mult", "pub"}
              /\ p = "send" => op \notin {"mult", "pub"}
              /\ p = "close" => op # "merge"
              /\ p = "recv" /\ op = "map" => Len(h) < 2
<1>1. pc[w] = "recv" /\ (op = "map" => Len(hand[w]) \in {0, 1})
  BY RecvStep
<1>2. PICK i \in Ins :
         /\ i \in Inputs /\ read[i] \in Nat
         /\ \/ /\ read[i] + 1 \in 1..MaxVals /\ Received(w, <<i, read[i] + 1>>)
            \/ InputEnd(w)
  BY RecvStep
<1>3. /\ pc \in [Workers -> Places] /\ hand \in [Workers -> Seq(Values)]
      /\ hand[w] \in Seq(Values) /\ <<>> \in Seq(Values)
  BY DEF CombInv, CombTypeOK
<1>4. /\ pc = [pc EXCEPT ![w] = "recv"] /\ hand = [hand EXCEPT ![w] = hand[w]]
      /\ {"recv", "send", "signal", "lock", "close"} \subseteq Places
  BY <1>1, <1>3, RecvStep DEF Places
<1>5. CASE InputEnd(w)
  <2>1. CASE op \in Copying \ {"merge"} \/ op = "map"
    BY <1>3, <1>4, <1>5, <2>1, RecvEnd DEF Closing, Goto, Hold, Copying
  <2>2. CASE op \notin (Copying \ {"merge"}) \union {"map"}
    BY <1>3, <1>4, <1>5, <2>2, RecvEnd, Who DEF Goto, Copying
  <2> QED  BY <2>1, <2>2
<1>6. ASSUME read[i] + 1 \in 1..MaxVals, Received(w, <<i, read[i] + 1>>)
      PROVE  \E p \in Places, h \in Seq(Values) :
              /\ pc' = [pc EXCEPT ![w] = p] /\ hand' = [hand EXCEPT ![w] = h]
              /\ left' \in {left, {t \in taps : t.close}}
              /\ p # "count" /\ p # "pass" /\ (p = "signal" => op = "merge")
              /\ p = "lock" => op \in {"mult", "pub"}
              /\ p = "send" => op \notin {"mult", "pub"}
              /\ p = "close" => op # "merge"
              /\ p = "recv" /\ op = "map" => Len(h) < 2
  <2> DEFINE v == <<i, read[i] + 1>>
  <2>1. v \in Values
    BY <1>2, <1>6 DEF Values
  <2>2. Received(w, v)
    BY <1>6
  <2> HIDE DEF v
  <2>3. <<v>> \in Seq(Values) /\ Append(hand[w], v) \in Seq(Values) /\ Len(<<v>>) = 1
    BY <1>3, <2>1
  <2>4. CASE op \in Copying
    <3>1. /\ hand' = [hand EXCEPT ![w] = <<v>>] /\ pc' = [pc EXCEPT ![w] = "send"]
          /\ left' = left
      BY <1>1, <2>2, <2>4, RecvValue DEF Goto, Hold
    <3>2. op \notin {"map", "mult", "pub"} /\ "send" \in Places
      BY <1>4, <2>4 DEF Copying
    <3> QED  BY <2>3, <3>1, <3>2
  <2>5. CASE op = "map" /\ Len(hand[w]) = 0
    <3>1. hand' = [hand EXCEPT ![w] = <<v>>] /\ pc' = [pc EXCEPT ![w] = "recv"] /\ left' = left
      BY <1>1, <1>4, <2>2, <2>5, RecvValue DEF Hold
    <3>2. "recv" \in Places /\ Len(<<v>>) < 2
      BY <1>4, <2>3
    <3> QED  BY <2>3, <2>5, <3>1, <3>2
  <2>6. CASE op = "map" /\ Len(hand[w]) = 1
    BY <1>1, <1>3, <1>4, <2>2, <2>3, <2>6, RecvValue DEF Goto, Hold, Closing
  <2>7. CASE op = "reduce"
    BY <1>1, <1>3, <1>4, <2>2, <2>3, <2>7, RecvValue DEF Goto, Hold
  <2>8. CASE op \in {"mult", "pub"}
    BY <1>1, <1>3, <1>4, <2>2, <2>3, <2>8, RecvValue DEF Goto, Hold
  <2> QED  BY <1>1, <2>4, <2>5, <2>6, <2>7, <2>8, Who DEF Copying
<1> QED  BY <1>2, <1>5, <1>6

\* A receive keeps the types, the places and the destinations.
LEMMA RecvTypes ==
    ASSUME CombInv, NEW w \in Workers, Recv(w)
    PROVE  /\ CombTypeOK' /\ PlaceInv' /\ TapInv' /\ NeverPanics'
           /\ \A u \in Workers \ {w} : pc'[u] = pc[u] /\ hand'[u] = hand[u]
<1>1. /\ w # 0 /\ (op # "merge" => w = 1 /\ Closer = 1)
      /\ UNCHANGED <<op, cap, fed, ended, chan, closed, parked, taken, finished,
                     counted, taps, scopeDone, panicked>>
      /\ read' \in [Inputs -> 0..MaxVals]
  BY RecvStep
<1>2. PICK p \in Places, h \in Seq(Values) :
              /\ pc' = [pc EXCEPT ![w] = p] /\ hand' = [hand EXCEPT ![w] = h]
              /\ left' \in {left, {t \in taps : t.close}}
              /\ p # "count" /\ p # "pass" /\ (p = "signal" => op = "merge")
              /\ p = "lock" => op \in {"mult", "pub"}
              /\ p = "send" => op \notin {"mult", "pub"}
              /\ p = "close" => op # "merge"
              /\ p = "recv" /\ op = "map" => Len(h) < 2
  BY RecvLeads
<1>3. /\ pc'[w] = p /\ hand'[w] = h
      /\ \A u \in Workers \ {w} : pc'[u] = pc[u] /\ hand'[u] = hand[u]
  BY <1>2 DEF CombInv, CombTypeOK
<1>4. CombTypeOK'
  <2>1. {scopeDone', panicked'} \subseteq BOOLEAN
    BY <1>1 DEF CombInv, CombTypeOK
  <2>2. pc' \in [Workers -> Places] /\ hand' \in [Workers -> Seq(Values)]
    BY <1>2 DEF CombInv, CombTypeOK
  <2>3. left' \subseteq taps'
    BY <1>1, <1>2 DEF CombInv, CombTypeOK
  <2>4. Capacity' = Capacity
    BY <1>1, OpStill
  <2> QED  BY <1>1, <2>1, <2>2, <2>3, <2>4 DEF CombInv, CombTypeOK
<1>5. PlaceInv'
  <2>1. Started(op)' = Started(op) /\ Closer' = Closer
    BY <1>1, OpStill DEF Started
  <2>2. w \in Started(op)
    BY <1>1, RecvStep DEF CombInv, PlaceInv
  <2> QED  BY <1>1, <1>2, <1>3, <2>1, <2>2 DEF CombInv, PlaceInv
<1>6. TapInv'
  BY <1>1, OpStill DEF CombInv, TapInv
<1> QED  BY <1>1, <1>3, <1>4, <1>5, <1>6 DEF CombInv, NeverPanics

\* A copying goroutine receives: what it had is in the outputs.
LEMMA RecvCopy ==
    ASSUME CombInv, NEW w \in Workers, Recv(w), op \in Copying
    PROVE  CopyInv' /\ CountInv' /\ ClosedInv'
<1>1. /\ pc[w] = "recv" /\ w \in Inputs /\ w # 0 /\ closed = {} /\ left = {}
      /\ op # "merge" => w = 1 /\ Closer = 1
      /\ op = "merge" => pc[0] \in {"count", "returned"} /\ Closer = 0
      /\ UNCHANGED <<op, cap, fed, ended, closed, counted, taps, scopeDone>>
      /\ \A o : Emitted(o)' = Emitted(o)
      /\ read' \in [Inputs -> 0..MaxVals] /\ \A i \in Inputs : read'[i] >= read[i]
  BY RecvStep
<1>2. /\ w \in Ins /\ Reader(w) = w /\ \A i \in Ins : Reader(i) = w => i = w
      /\ Ins \subseteq Inputs /\ Dsts \subseteq Outs /\ 0 \in Workers
      /\ \A i \in Ins : Reader(i) \in Workers
      /\ Src(w) = w
  BY <1>1, Who DEF Ins, Reader, Copying, Inputs, Src
<1>3. read \in [Inputs -> 0..MaxVals] /\ read[w] \in Nat
  BY <1>1, CombinatorsConstants DEF CombInv, CombTypeOK
<1>4. \A u \in Workers \ {w} : pc'[u] = pc[u] /\ hand'[u] = hand[u]
  BY RecvTypes
<1>5. /\ pc \in [Workers -> Places] /\ hand \in [Workers -> Seq(Values)]
  BY DEF CombInv, CombTypeOK
<1>6. \/ /\ read' = [read EXCEPT ![w] = @ + 1]
         /\ pc'[w] = "send" /\ hand'[w] = <<<<w, read[w] + 1>>>> /\ left' = left
      \/ /\ read' = read /\ Drained(w)
         /\ \/ op = "merge" /\ pc'[w] = "signal" /\ left' = left
            \/ op # "merge" /\ pc'[w] = "close" /\ left' = {t \in taps : t.close}
  <2>1. \/ read' = [read EXCEPT ![w] = @ + 1] /\ Received(w, <<w, read[w] + 1>>)
        \/ read' = read /\ Drained(w) /\ InputEnd(w)
    BY <1>2, RecvStep
  <2>2. CASE read' = [read EXCEPT ![w] = @ + 1] /\ Received(w, <<w, read[w] + 1>>)
    BY <1>1, <1>5, <2>2, RecvValue DEF Goto, Hold
  <2>3. CASE read' = read /\ Drained(w) /\ InputEnd(w)
    BY <1>1, <1>5, <2>3, RecvEnd DEF Goto, Hold, Closing
  <2> QED  BY <2>1, <2>2, <2>3
<1>7. /\ Ins' = Ins /\ Dsts' = Dsts /\ Closer' = Closer
      /\ \A i : Reader(i)' = Reader(i)
      /\ \A o : \A u : InOutput(u, o)' <=> InOutput(u, o)
      /\ \A o : \A i, k : CameUpTo(i, k, o)' <=> CameUpTo(i, k, o)
  BY <1>1, OpStill, OutStill
<1>8. \A o \in Dsts : CopiesInOrder(o) /\ CopiesInOrder(o)'
  BY <1>1, CopiesStill DEF CombInv, CopyInv
<1>9. \A o \in Dsts : CameUpTo(w, read[w], o)
  BY <1>1, <1>2 DEF CombInv, CopyInv
<1>10. \A o \in Dsts : ~InOutput(<<w, read[w] + 1>>, o)
  <2> SUFFICES ASSUME NEW o \in Dsts, NEW n \in DOMAIN Emitted(o),
                      Emitted(o)[n] = <<<<w, read[w] + 1>>>>
               PROVE  FALSE
    BY DEF InOutput
  <2>1. PICK i \in Ins : \E k \in 1..read[i] : Emitted(o)[n] = <<<<i, k>>>>
    BY <1>8 DEF CopiesInOrder
  <2>2. PICK k \in 1..read[i] : Emitted(o)[n] = <<<<i, k>>>>
    BY <2>1
  <2>3. i = w /\ k = read[w] + 1
    BY <2>2
  <2> QED  BY <1>3, <2>2, <2>3
<1>11. PICK r : r = read'
  OBVIOUS
<1>12. \A i \in Inputs \ {w} : r[i] = read[i]
  BY <1>3, <1>6, <1>11
<1>13. CopyInv'
  <2>1. ASSUME NEW i \in Ins
        PROVE  (/\ pc[Reader(i)] = "send" =>
                     /\ read[i] > 0 /\ hand[Reader(i)] = <<<<i, read[i]>>>>
                     /\ \A o \in Dsts : ~InOutput(<<i, read[i]>>, o)
                                        /\ CameUpTo(i, read[i] - 1, o)
                /\ pc[Reader(i)] # "send" /\ (pc[Reader(i)] = "returned" => ~scopeDone)
                     => \A o \in Dsts : CameUpTo(i, read[i], o))'
    <3>1. Reader(i)' = Reader(i) /\ read' = r /\ scopeDone' = scopeDone /\ Dsts' = Dsts
      BY <1>1, <1>7, <1>11
    <3>2. /\ \A o : InOutput(<<i, read[i]>>, o)' <=> InOutput(<<i, r[i]>>, o)'
          /\ \A o : CameUpTo(i, read[i], o)' <=> CameUpTo(i, r[i], o)'
          /\ \A o : CameUpTo(i, read[i] - 1, o)' <=> CameUpTo(i, r[i] - 1, o)'
      <4>1. \A o : InOutput(<<i, read[i]>>, o)' <=> InOutput(<<i, r[i]>>, o)'
        BY <3>1 DEF InOutput
      <4>2. \A o : CameUpTo(i, read[i], o)' <=> CameUpTo(i, r[i], o)'
        BY <3>1 DEF CameUpTo
      <4>3. \A o : CameUpTo(i, read[i] - 1, o)' <=> CameUpTo(i, r[i] - 1, o)'
        BY <3>1 DEF CameUpTo
      <4> QED  BY <4>1, <4>2, <4>3
    <3>3. CASE i = w
      <4>1. CASE pc'[w] = "send"
        <5>1. /\ r[w] = read[w] + 1 /\ r[w] > 0 /\ r[w] - 1 = read[w]
              /\ hand'[w] = <<<<w, r[w]>>>>
          BY <1>2, <1>3, <1>6, <1>11, <4>1
        <5>2. \A o \in Dsts : ~InOutput(<<w, r[w]>>, o)' /\ CameUpTo(w, r[w] - 1, o)'
          BY <1>7, <1>9, <1>10, <5>1
        <5> QED  BY <1>2, <3>1, <3>2, <3>3, <4>1, <5>1, <5>2
      <4>2. CASE pc'[w] # "send"
        <5>1. r[w] = read[w]
          BY <1>6, <1>11, <4>2
        <5>2. \A o \in Dsts : CameUpTo(w, r[w], o)'
          BY <1>7, <1>9, <5>1
        <5> QED  BY <1>2, <3>1, <3>2, <3>3, <4>2, <5>2
      <4> QED  BY <4>1, <4>2
    <3>4. CASE i # w
      <4>1. /\ pc'[Reader(i)] = pc[Reader(i)] /\ hand'[Reader(i)] = hand[Reader(i)]
            /\ read[i] = r[i]
        BY <1>2, <1>4, <1>12, <3>4
      <4>2. /\ pc[Reader(i)] = "send" =>
                    /\ r[i] > 0 /\ hand[Reader(i)] = <<<<i, r[i]>>>>
                    /\ \A o \in Dsts : ~InOutput(<<i, r[i]>>, o)
                                       /\ CameUpTo(i, r[i] - 1, o)
            /\ pc[Reader(i)] # "send" /\ (pc[Reader(i)] = "returned" => ~scopeDone)
                    => \A o \in Dsts : CameUpTo(i, r[i], o)
        BY <4>1 DEF CombInv, CopyInv
      <4>3. /\ pc[Reader(i)] = "send" =>
                    /\ r[i] > 0 /\ hand[Reader(i)] = <<<<i, r[i]>>>>
                    /\ \A o \in Dsts : ~InOutput(<<i, r[i]>>, o)'
                                       /\ CameUpTo(i, r[i] - 1, o)'
            /\ pc[Reader(i)] # "send" /\ (pc[Reader(i)] = "returned" => ~scopeDone)
                    => \A o \in Dsts : CameUpTo(i, r[i], o)'
        BY <1>7, <4>2
      <4> QED  BY <3>1, <3>2, <4>1, <4>3
    <3> QED  BY <3>3, <3>4
  <2> QED  BY <1>7, <1>8, <2>1 DEF CopyInv
<1>14. CountInv'
  <2> SUFFICES ASSUME op = "merge" PROVE CountInv'
    BY <1>1 DEF CountInv
  <2>1. 1 \in Dsts
    BY Who
  <2>2. ASSUME NEW u \in Inputs \ {w}, Through(u) PROVE Through(u)'
    BY <1>1, <1>11, <1>12, <2>2, ThroughStill DEF Drained
  <2>3. pc'[w] = "signal" => Through(w)'
    <3> SUFFICES ASSUME pc'[w] = "signal" PROVE Through(w)'
      OBVIOUS
    <3>1. read' = read /\ Through(w)
      BY <1>6, <1>9, <2>1 DEF Through
    <3> QED  BY <1>1, <3>1, ThroughStill DEF Drained
  <2>4. pc'[w] # "returned" /\ \A u \in Inputs \ {w} : pc'[u] = pc[u]
    BY <1>4, <1>6, Who
  <2>5. counted # 2 /\ pc'[0] = pc[0]
    BY <1>1, <1>2, <1>4 DEF CombInv, CountInv
  <2> QED  BY <1>1, <2>2, <2>3, <2>4, <2>5 DEF CombInv, CountInv
<1>15. ClosedInv'
  <2>1. CASE op # "merge" /\ pc'[w] = "close"
    <3>1. /\ read' = read /\ Drained(1) /\ w = 1 /\ Ins = {1}
          /\ left' = {t \in taps : t.close}
      BY <1>1, <1>6, <2>1 DEF Ins, Copying
    <3>2. ASSUME NEW o \in Dsts PROVE Complete(o)'
      <4>1. Complete(o)
        BY <1>9, <3>1 DEF Complete, Copying
      <4> QED  BY <1>1, <3>1, <4>1, CompleteStill DEF Drained
    <3> QED  BY <1>1, <2>1, <3>1, <3>2, LoopLeft
  <2>2. CASE op # "merge" /\ pc'[w] # "close"
    BY <1>1, <1>6, <2>2, LoopGoesOn
  <2>3. CASE op = "merge"
    <3>1. pc'[0] = pc[0] /\ left' = left
      BY <1>1, <1>2, <1>4, <1>6, <2>3
    <3> QED  BY <1>1, <2>3, <3>1, LoopGoesOn
  <2> QED  BY <2>1, <2>2, <2>3
<1> QED  BY <1>13, <1>14, <1>15

\* map receives from its inputs in turn.
LEMMA RecvMap ==
    ASSUME CombInv, NEW w \in Workers, Recv(w), op = "map"
    PROVE  MapInv' /\ ClosedInv'
<1> DEFINE n == Len(Emitted(1))
           h == hand[1]
<1>1. /\ pc[1] = "recv" /\ closed = {} /\ left = {} /\ w = 1 /\ Closer = 1 /\ 1 \in Workers
      /\ UNCHANGED <<op, cap, fed, ended, closed, taps, scopeDone>>
      /\ Emitted(1)' = Emitted(1) /\ Dsts = {1} /\ Ins = Inputs
  BY RecvStep DEF Dsts, Ins
<1>2. /\ h = <<>> \/ h = <<<<1, n + 1>>>>
      /\ read[1] = n + Len(h) /\ read[2] = n
      /\ \A k \in 1..n : Emitted(1)[k] = <<<<1, k>>, <<2, k>>>>
  BY <1>1 DEF CombInv, MapInv
<1>3. /\ pc \in [Workers -> Places] /\ hand \in [Workers -> Seq(Values)]
      /\ read \in [Inputs -> 0..MaxVals] /\ n \in Nat /\ Inputs = {1, 2}
  BY EmittedType DEF CombInv, CombTypeOK, Inputs, Outs
<1>4. Src(1) = Len(h) + 1
  BY <1>1 DEF Src
<1> HIDE DEF n, h
<1>5. CASE h = <<>>
  <2>1. Len(h) = 0 /\ Src(1) = 1 /\ read[1] = n
    BY <1>2, <1>3, <1>4, <1>5
  <2>2. \/ read' = [read EXCEPT ![1] = @ + 1] /\ Received(1, <<1, n + 1>>)
        \/ read' = read /\ Drained(1) /\ InputEnd(1)
    <3>1. PICK i \in Ins :
             /\ i = Src(w)
             /\ \/ read' = [read EXCEPT ![i] = @ + 1] /\ Received(w, <<i, read[i] + 1>>)
                \/ read' = read /\ Drained(i) /\ InputEnd(w)
      BY RecvStep
    <3> QED  BY <1>1, <2>1, <3>1
  <2>3. CASE read' = [read EXCEPT ![1] = @ + 1] /\ Received(1, <<1, n + 1>>)
    <3>1. /\ pc'[1] = "recv" /\ hand'[1] = <<<<1, n + 1>>>> /\ left' = left /\ pc' = pc
          /\ read'[1] = n + 1 /\ read'[2] = n
      BY <1>1, <1>2, <1>3, <2>1, <2>3, RecvValue DEF Hold, h
    <3>2. Len(hand'[1]) = 1
      BY <3>1
    <3>3. MapInv'
      BY <1>1, <1>2, <3>1, <3>2 DEF MapInv, n
    <3> QED  BY <1>1, <3>1, <3>3, LoopGoesOn
  <2>4. CASE read' = read /\ Drained(1) /\ InputEnd(1)
    <3>1. pc'[1] = "close" /\ left' = {t \in taps : t.close}
      BY <1>1, <1>3, <2>4, RecvEnd DEF Closing, Goto
    <3>2. Complete(1)'
      <4>1. Complete(1)
        BY <1>1, <1>2, <1>3, <2>4 DEF Complete, Copying, n
      <4> QED  BY <1>1, <2>4, <4>1, CompleteStill DEF Drained
    <3>3. MapInv'
      BY <1>1, <1>2, <3>1 DEF MapInv, n
    <3> QED  BY <1>1, <3>1, <3>2, <3>3, LoopLeft
  <2> QED  BY <2>2, <2>3, <2>4
<1>6. CASE h = <<<<1, n + 1>>>>
  <2>1. Len(h) = 1 /\ Src(1) = 2 /\ read[1] = n + 1
    BY <1>2, <1>3, <1>4, <1>6
  <2>2. \/ read' = [read EXCEPT ![2] = @ + 1] /\ Received(1, <<2, n + 1>>)
        \/ read' = read /\ Drained(2) /\ InputEnd(1)
    BY <1>1, <1>2, <2>1, RecvStep
  <2>3. CASE /\ read' = [read EXCEPT ![2] = @ + 1] /\ Received(1, <<2, n + 1>>)
             /\ <<2, n + 1>> \notin Fails
    <3>1. /\ hand' = [hand EXCEPT ![1] = Append(h, <<2, n + 1>>)]
          /\ pc' = [pc EXCEPT ![1] = "send"] /\ left' = left
      BY <1>1, <2>1, <2>3, RecvValue DEF Hold, Goto, h
    <3>2. pc'[1] = "send" /\ hand'[1] = <<<<1, n + 1>>, <<2, n + 1>>>>
      <4> DEFINE a == <<1, n + 1>>
                 b == <<2, n + 1>>
      <4> HIDE DEF a, b
      <4>1. Append(<<a>>, b) = <<a, b>>
        BY PairAppend
      <4>2. hand' = [hand EXCEPT ![1] = <<a, b>>]
        BY <1>6, <3>1, <4>1 DEF a, b
      <4>3. pc'[1] = "send" /\ hand'[1] = <<a, b>>
        BY <1>1, <1>3, <3>1, <4>2
      <4> QED  BY <4>3 DEF a, b
    <3>4. read'[1] = n + 1 /\ read'[2] = n + 1
      BY <1>2, <1>3, <2>1, <2>3
    <3>3. MapInv'
      BY <1>1, <1>2, <3>2, <3>4 DEF MapInv, n
    <3> QED  BY <1>1, <3>1, <3>2, <3>3, LoopGoesOn
  <2>4. CASE /\ read' = [read EXCEPT ![2] = @ + 1] /\ Received(1, <<2, n + 1>>)
             /\ <<2, n + 1>> \in Fails
    <3>1. /\ pc'[1] = "close" /\ left' = {t \in taps : t.close} /\ read'[2] = n + 1
      BY <1>1, <1>2, <1>3, <2>1, <2>4, RecvValue DEF Closing, Goto, h
    <3>2. Complete(1)'
      <4>1. n = n + 1 - 1
        BY <1>3
      <4> QED  BY <1>1, <2>4, <3>1, <4>1 DEF Complete, Copying, n
    <3>3. MapInv'
      BY <1>1, <1>2, <3>1 DEF MapInv, n
    <3> QED  BY <1>1, <3>1, <3>2, <3>3, LoopLeft
  <2>5. CASE read' = read /\ Drained(2) /\ InputEnd(1)
    <3>1. pc'[1] = "close" /\ left' = {t \in taps : t.close}
      BY <1>1, <1>3, <2>5, RecvEnd DEF Closing, Goto
    <3>2. Complete(1)'
      <4>1. Complete(1)
        BY <1>1, <1>2, <1>3, <2>5 DEF Complete, Copying, n
      <4> QED  BY <1>1, <2>5, <4>1, CompleteStill DEF Drained
    <3>3. MapInv'
      BY <1>1, <1>2, <3>1 DEF MapInv, n
    <3> QED  BY <1>1, <3>1, <3>2, <3>3, LoopLeft
  <2> QED  BY <2>2, <2>3, <2>4, <2>5
<1> QED  BY <1>2, <1>5, <1>6

\* reduce holds one value more, or the function threw, or the input ended.
LEMMA RecvReduce ==
    ASSUME CombInv, NEW w \in Workers, Recv(w), op = "reduce"
    PROVE  ReduceInv' /\ ClosedInv'
<1> DEFINE h == hand[1]
           l == read[1]
           v == <<1, l + 1>>
           f == Append(h, v)
<1>1. /\ pc[1] = "recv" /\ closed = {} /\ left = {} /\ w = 1 /\ Closer = 1 /\ 1 \in Workers
      /\ UNCHANGED <<op, cap, fed, ended, closed, taps, scopeDone>>
      /\ Emitted(1)' = Emitted(1) /\ Ins = {1}
  BY RecvStep DEF Ins
<1>2. Emitted(1) = <<>> /\ Len(h) = l /\ IsFold(h)
  BY <1>1 DEF CombInv, ReduceInv
<1>3. /\ pc \in [Workers -> Places] /\ hand \in [Workers -> Seq(Values)]
      /\ read \in [Inputs -> 0..MaxVals] /\ 1 \in Inputs /\ l \in Nat /\ h \in Seq(Values)
  BY <1>1, CombinatorsConstants DEF CombInv, CombTypeOK, Inputs
<1>4. \/ /\ read' = [read EXCEPT ![1] = @ + 1] /\ v \in Values /\ Received(1, v)
      \/ read' = read /\ Drained(1) /\ InputEnd(1)
  <2>1. \/ /\ read' = [read EXCEPT ![1] = @ + 1] /\ l + 1 \in 1..MaxVals
           /\ Received(1, v)
        \/ read' = read /\ Drained(1) /\ InputEnd(1)
    <3>1. PICK i \in Ins :
             \/ /\ read' = [read EXCEPT ![i] = @ + 1] /\ read[i] + 1 \in 1..MaxVals
                /\ Received(w, <<i, read[i] + 1>>)
             \/ read' = read /\ Drained(i) /\ InputEnd(w)
      BY RecvStep
    <3>2. i = 1
      BY <1>1
    <3> QED  BY <1>1, <3>1, <3>2
  <2> QED  BY <1>3, <2>1 DEF Values
<1>5. /\ \A k \in 1..l : h[k] = <<1, k>> /\ <<1, k>> \notin Fails
  BY <1>2 DEF IsFold
<1>6. CASE read' = [read EXCEPT ![1] = @ + 1] /\ Received(1, v) /\ v \in Fails
  <2>1. pc'[1] = "send" /\ hand' = hand /\ left' = left /\ read'[1] = l + 1
    <3>1. pc' = [pc EXCEPT ![1] = "send"] /\ hand' = hand /\ left' = left
      BY <1>1, <1>6, RecvValue DEF Goto
    <3>2. read'[1] = l + 1
      BY <1>3, <1>6
    <3> QED  BY <1>1, <1>3, <3>1, <3>2
  <2>2. IsFold(hand[1])'
    <3>1. hand'[1] = h /\ Len(h) <= l + 1
      BY <1>2, <1>3, <2>1
    <3>2. Len(h) < l + 1 => <<1, Len(h) + 1>> \in Fails
      BY <1>2, <1>6
    <3>3. \A k \in 1..Len(h) : h[k] = <<1, k>> /\ <<1, k>> \notin Fails
      BY <1>2 DEF IsFold
    <3> HIDE DEF h, l
    <3> QED  BY <2>1, <3>1, <3>2, <3>3 DEF IsFold
  <2>3. \E k \in 1..read'[1] : <<1, k>> \in Fails
    <3>1. l + 1 \in 1..l + 1
      BY <1>3
    <3>2. <<1, l + 1>> \in Fails /\ read'[1] = l + 1
      BY <1>6, <2>1
    <3> HIDE DEF l
    <3> QED  BY <3>1, <3>2
  <2>4. ReduceInv'
    BY <1>1, <1>2, <2>1, <2>2, <2>3 DEF ReduceInv
  <2> QED  BY <1>1, <2>1, <2>4, LoopGoesOn
<1>7. CASE /\ read' = [read EXCEPT ![1] = @ + 1] /\ v \in Values /\ Received(1, v)
           /\ v \notin Fails
  <2>1. pc' = pc /\ hand' = [hand EXCEPT ![1] = f] /\ left' = left /\ read'[1] = l + 1
    BY <1>1, <1>3, <1>7, RecvValue DEF Hold
  <2>2. /\ f \in Seq(Values) /\ Len(f) = l + 1 /\ f[l + 1] = v
        /\ \A k \in 1..l : f[k] = h[k]
    BY <1>2, <1>3, <1>7, SeqAppend
  <2> HIDE DEF f, h, l
  <2>3. \A k \in 1..l + 1 : k \in 1..l \/ k = l + 1
    BY <1>3
  <2>4. \A k \in 1..l + 1 : f[k] = <<1, k>> /\ <<1, k>> \notin Fails
    BY <1>5, <1>7, <2>2, <2>3
  <2>5. hand'[1] = f
    BY <1>1, <1>3, <2>1
  <2>6. IsFold(hand[1])'
    BY <1>3, <2>1, <2>2, <2>4, <2>5 DEF IsFold
  <2>7. ReduceInv'
    BY <1>1, <1>2, <2>1, <2>2, <2>5, <2>6 DEF ReduceInv
  <2> QED  BY <1>1, <2>1, <2>7, LoopGoesOn
<1>8. CASE read' = read /\ Drained(1) /\ InputEnd(1)
  <2>1. pc'[1] = "send" /\ hand' = hand /\ left' = left
    BY <1>1, <1>3, <1>8, RecvEnd DEF Goto
  <2>2. IsFold(hand[1])' /\ Drained(1)'
    BY <1>1, <1>2, <1>8, <2>1 DEF IsFold, Drained
  <2>3. ReduceInv'
    BY <1>1, <1>2, <2>1, <2>2 DEF ReduceInv
  <2> QED  BY <1>1, <2>1, <2>3, LoopGoesOn
<1> QED  BY <1>4, <1>6, <1>7, <1>8

\* mult and pub have a value to offer, or nothing more.
LEMMA RecvOffer ==
    ASSUME CombInv, NEW w \in Workers, Recv(w), op \in {"mult", "pub"}
    PROVE  OfferInv' /\ ClosedInv'
<1> DEFINE l == read[1]
           v == <<1, l + 1>>
<1>1. /\ pc[1] = "recv" /\ closed = {} /\ left = {} /\ w = 1 /\ Closer = 1 /\ 1 \in Workers
      /\ UNCHANGED <<op, cap, fed, ended, closed, taps, scopeDone>>
      /\ \A o : Emitted(o)' = Emitted(o)
      /\ Ins = {1}
  BY RecvStep DEF Ins
<1>2. OfferInv
  BY DEF CombInv
<1>3. /\ pc \in [Workers -> Places] /\ hand \in [Workers -> Seq(Values)]
      /\ read \in [Inputs -> 0..MaxVals] /\ 1 \in Inputs /\ l \in Nat
  BY <1>1, CombinatorsConstants DEF CombInv, CombTypeOK, Inputs
<1>4. \/ read' = [read EXCEPT ![1] = @ + 1] /\ Received(1, v)
      \/ read' = read /\ Drained(1) /\ InputEnd(1)
  <2>1. PICK i \in Ins :
             \/ read' = [read EXCEPT ![i] = @ + 1] /\ Received(w, <<i, read[i] + 1>>)
             \/ read' = read /\ Drained(i) /\ InputEnd(w)
    BY RecvStep
  <2>2. i = 1
    BY <1>1
  <2> QED  BY <1>1, <2>1, <2>2
<1>5. /\ hand[1] = <<>>
      /\ \A o \in Outs :
            /\ \A n \in DOMAIN Emitted(o) : \E k \in 1..l : Emitted(o)[n] = <<<<1, k>>>>
            /\ \A j, k \in DOMAIN Emitted(o) :
                  j < k => Emitted(o)[j][1][2] < Emitted(o)[k][1][2]
  BY <1>1, <1>2 DEF OfferInv
<1>6. CASE read' = [read EXCEPT ![1] = @ + 1] /\ Received(1, v)
  <2>1. read'[1] = l + 1
    BY <1>3, <1>6
  <2>2. \/ pc'[1] = "recv" /\ hand'[1] = <<>> /\ left' = left
        \/ pc'[1] = "lock" /\ hand'[1] = <<v>> /\ left' = left
    BY <1>1, <1>3, <1>5, <1>6, RecvValue DEF Goto, Hold
  <2>3. \A o \in Outs : \A n \in DOMAIN Emitted(o) :
           /\ \E k \in 1..l + 1 : Emitted(o)[n] = <<<<1, k>>>>
           /\ Emitted(o)[n][1][2] < l + 1
    <3> SUFFICES ASSUME NEW o \in Outs, NEW n \in DOMAIN Emitted(o)
                 PROVE  /\ \E k \in 1..l + 1 : Emitted(o)[n] = <<<<1, k>>>>
                        /\ Emitted(o)[n][1][2] < l + 1
      OBVIOUS
    <3>1. PICK k \in 1..l : Emitted(o)[n] = <<<<1, k>>>>
      BY <1>5
    <3>2. k \in 1..l + 1 /\ k < l + 1
      BY <1>3, <3>1
    <3> QED  BY <3>1, <3>2
  <2>4. OfferInv'
    <3>1. \A o \in Outs :
            /\ \A n \in DOMAIN Emitted(o)' :
                  \E k \in 1..read'[1] : Emitted(o)'[n] = <<<<1, k>>>>
            /\ \A j, k \in DOMAIN Emitted(o)' :
                  j < k => Emitted(o)'[j][1][2] < Emitted(o)'[k][1][2]
            /\ \A k \in DOMAIN Emitted(o)' : Emitted(o)'[k][1][2] < read'[1]
      BY <1>1, <1>5, <2>1, <2>3
    <3>2. pc'[1] # "pass"
      BY <2>2
    <3>3. /\ pc'[1] = "recv" => hand'[1] = <<>>
          /\ pc'[1] = "lock" => hand'[1] = <<<<1, read'[1]>>>> /\ hand'[1] # <<>>
      BY <2>1, <2>2
    <3> QED  BY <3>1, <3>2, <3>3 DEF OfferInv
  <2> QED  BY <1>1, <2>2, <2>4, LoopGoesOn
<1>7. CASE read' = read /\ Drained(1) /\ InputEnd(1)
  <2>1. pc'[1] = "lock" /\ hand'[1] = <<>> /\ left' = left
    BY <1>1, <1>3, <1>5, <1>7, RecvEnd DEF Goto
  <2>2. Drained(1)'
    BY <1>1, <1>7 DEF Drained
  <2>3. OfferInv'
    BY <1>1, <1>5, <1>7, <2>1, <2>2 DEF OfferInv
  <2> QED  BY <1>1, <2>1, <2>3, LoopGoesOn
<1> QED  BY <1>4, <1>6, <1>7

\* A receive, whatever the combinator.
LEMMA InvRecv ==
    ASSUME CombInv, NEW w \in Workers, Recv(w)
    PROVE  CombInv'
<1>1. op' = op /\ CombTypeOK' /\ PlaceInv' /\ TapInv' /\ NeverPanics'
  BY RecvStep, RecvTypes
<1>2. CASE op \in Copying
  <2>1. MapInv' /\ ReduceInv' /\ OfferInv'
    BY <1>1, <1>2 DEF Copying, MapInv, ReduceInv, OfferInv
  <2> QED  BY <1>1, <1>2, <2>1, RecvCopy DEF CombInv
<1>3. CASE op = "map"
  <2>1. CopyInv' /\ CountInv' /\ ReduceInv' /\ OfferInv'
    BY <1>1, <1>3 DEF Copying, CopyInv, CountInv, ReduceInv, OfferInv
  <2> QED  BY <1>1, <1>3, <2>1, RecvMap DEF CombInv
<1>4. CASE op = "reduce"
  <2>1. CopyInv' /\ CountInv' /\ MapInv' /\ OfferInv'
    BY <1>1, <1>4 DEF Copying, CopyInv, CountInv, MapInv, OfferInv
  <2> QED  BY <1>1, <1>4, <2>1, RecvReduce DEF CombInv
<1>5. CASE op \in {"mult", "pub"}
  <2>1. CopyInv' /\ CountInv' /\ MapInv' /\ ReduceInv'
    BY <1>1, <1>5 DEF Copying, CopyInv, CountInv, MapInv, ReduceInv
  <2> QED  BY <1>1, <1>5, <2>1, RecvOffer DEF CombInv
<1> QED  BY <1>2, <1>3, <1>4, <1>5, Who DEF Copying

\* The combinator starts with nothing received, sent or closed.
LEMMA InvInit == CombInit => CombInv
<1> SUFFICES ASSUME CombInit PROVE CombInv
  OBVIOUS
<1>1. /\ op \in Ops /\ cap \in Caps /\ closed = {} /\ parked = {} /\ finished = {}
      /\ read = [i \in Inputs |-> 0] /\ counted = 0 /\ left = {}
      /\ scopeDone = FALSE /\ panicked = FALSE
      /\ chan = [o \in Outs |-> <<>>] /\ taken = [o \in Outs |-> <<>>]
      /\ hand = [w \in Workers |-> <<>>]
      /\ pc = [w \in Workers |-> IF w \notin Started(op) THEN "returned"
                                 ELSE IF w = 0 THEN "count" ELSE "recv"]
  BY DEF CombInit
<1>2. op \in {"pipe", "onto", "merge", "reduce", "split", "map", "take", "mult", "pub"}
  BY <1>1, CombinatorsConstants
<1>3. /\ Workers = {0, 1, 2} /\ Inputs = {1, 2} /\ Outs = {1, 2}
      /\ MaxVals \in Nat /\ Bound[op] \in 0..MaxVals /\ cap \in Nat
  BY <1>1, CombinatorsConstants DEF Workers, Inputs, Outs
<1>4. /\ \A w \in Workers : /\ pc[w] \in {"recv", "count", "returned"} /\ hand[w] = <<>>
                            /\ pc[w] = "returned" <=> w \notin Started(op)
                            /\ pc[w] = "count" => w = 0
                            /\ w = 0 => pc[w] # "recv"
      /\ pc[Closer] \notin {"close", "returned"}
  BY <1>1, <1>3 DEF Started, Closer
<1>5. /\ fed \in [Inputs -> 0..MaxVals] /\ ended \subseteq Inputs
  <2>1. /\ fed = [i \in Inputs |-> IF op = "onto" THEN Bound[op] ELSE 0]
        /\ ended = (IF op = "onto" THEN {1} ELSE {})
    BY DEF CombInit
  <2> QED  BY <1>3, <2>1
<1>6. taps \subseteq {Entry(1, 1, TRUE), Entry(1, 1, FALSE), Entry(2, 2, TRUE)}
      /\ (op \in {"mult", "pub"} => taps = {})
      /\ (op \notin {"mult", "pub", "split"} => \E c \in BOOLEAN : taps = {Entry(1, 1, c)})
      /\ (op = "split" => taps = {Entry(1, 1, TRUE), Entry(2, 2, TRUE)})
  <2>1. taps \in CASE op = "split" -> {{Entry(1, 1, TRUE), Entry(2, 2, TRUE)}}
                  [] op \in {"mult", "pub"} -> {{}}
                  [] op \in {"pipe", "onto"} -> {{Entry(1, 1, c)} : c \in BOOLEAN}
                  [] OTHER -> {{Entry(1, 1, TRUE)}}
    BY DEF CombInit
  <2>2. CASE op = "split"
    BY <2>1, <2>2
  <2>3. CASE op \in {"mult", "pub"}
    BY <2>1, <2>3
  <2>4. CASE op \in {"pipe", "onto"}
    BY <2>1, <2>4
  <2>5. CASE op \notin {"split", "mult", "pub", "pipe", "onto"}
    BY <2>1, <2>5
  <2> QED  BY <2>2, <2>3, <2>4, <2>5
<1>7. /\ \A t \in taps : t.ch \in Outs /\ t.close \in BOOLEAN
      /\ \A t, u \in taps : t.ch = u.ch => t = u
      /\ op = "mult" => \A t \in taps : t.key = t.ch
      /\ \A t \in taps : t.ch \in Dsts
  <2>1. \A k, o : \A c \in BOOLEAN :
           /\ Entry(k, o, c).key = k /\ Entry(k, o, c).ch = o
           /\ Entry(k, o, c).close \in BOOLEAN
    BY DEF Entry
  <2>2. CASE op \in {"mult", "pub"}
    BY <1>6, <2>2
  <2>3. CASE op = "split"
    <3>1. Dsts = Outs
      BY <2>3 DEF Dsts
    <3> DEFINE a == Entry(1, 1, TRUE)
               b == Entry(2, 2, TRUE)
    <3>2. a.ch = 1 /\ b.ch = 2 /\ a.close \in BOOLEAN /\ b.close \in BOOLEAN
      BY <2>1
    <3>3. taps = {a, b}
      BY <1>6, <2>3
    <3> HIDE DEF a, b
    <3> QED  BY <1>3, <2>3, <3>1, <3>2, <3>3
  <2>4. CASE op \notin {"mult", "pub", "split"}
    <3>1. Dsts = {1}
      BY <2>4 DEF Dsts
    <3> QED  BY <1>3, <1>6, <2>1, <2>4, <3>1
  <2> QED  BY <2>2, <2>3, <2>4
<1>8. \A o \in Outs : Emitted(o) = <<>>
  BY <1>1 DEF Emitted
<1>9. CombTypeOK
  <2>1. Capacity \in Nat
    BY <1>3 DEF Capacity
  <2>2. \A o \in Outs : Len(chan[o]) <= Capacity + (IF o \in parked THEN 1 ELSE 0)
    BY <1>1, <2>1
  <2>3. pc \in [Workers -> Places]
    BY <1>1 DEF Places
  <2>4. /\ chan \in [Outs -> Seq(Seq(Values))] /\ taken \in [Outs -> Seq(Seq(Values))]
        /\ hand \in [Workers -> Seq(Values)] /\ read \in [Inputs -> 0..MaxVals]
    BY <1>1, <1>3
  <2>5. {scopeDone, panicked} \subseteq BOOLEAN
    <3>1. scopeDone \in BOOLEAN /\ panicked \in BOOLEAN
      BY <1>1
    <3> QED  BY <3>1
  <2>7. counted \in 0..2 /\ left \subseteq taps
    BY <1>1
  <2>6. closed \subseteq Outs /\ parked \subseteq Outs /\ finished \subseteq Outs
    BY <1>1
  <2> QED  BY <1>1, <1>5, <1>7, <2>2, <2>3, <2>4, <2>5, <2>6, <2>7 DEF CombTypeOK
<1>10. PlaceInv
  <2>1. \A w \in Workers : Len(hand[w]) < 2
    BY <1>4
  <2>2. pc[0] \in {"count", "returned"} /\ \A w \in Workers \ {0} : pc[w] # "count"
    BY <1>3, <1>4
  <2> QED  BY <1>4, <2>1, <2>2 DEF PlaceInv
<1>11. TapInv
  BY <1>7 DEF TapInv
<1>12. CountInv
  BY <1>1, <1>3, <1>4 DEF CountInv
<1>13. ClosedInv
  BY <1>1, <1>4 DEF ClosedInv
<1>14. CopyInv
  <2>1. Ins \subseteq Inputs /\ Dsts \subseteq Outs /\ \A i \in Ins : Reader(i) \in Workers
    BY <1>3 DEF Ins, Dsts, Reader
  <2>2. \A o \in Outs : CopiesInOrder(o)
    BY <1>8 DEF CopiesInOrder
  <2>3. \A i \in Ins : \A o : CameUpTo(i, read[i], o)
    BY <1>1, <2>1 DEF CameUpTo
  <2>4. \A i \in Ins : pc[Reader(i)] # "send"
    BY <1>4, <2>1
  <2> QED  BY <2>1, <2>2, <2>3, <2>4 DEF CopyInv
<1>15. MapInv
  BY <1>1, <1>3, <1>4, <1>8 DEF MapInv
<1>16. ReduceInv
  <2>1. Len(hand[1]) = 0 /\ read[1] = 0 /\ hand[1] = <<>>
    BY <1>1, <1>3
  <2>2. IsFold(hand[1])
    BY <2>1 DEF IsFold
  <2> QED  BY <1>3, <1>4, <1>8, <2>1, <2>2 DEF ReduceInv
<1>17. OfferInv
  BY <1>3, <1>4, <1>8 DEF OfferInv
<1> QED  BY <1>1, <1>9, <1>10, <1>11, <1>12, <1>13, <1>14, <1>15, <1>16, <1>17
         DEF CombInv, NeverPanics

\* Every step of the goroutines and of the program preserves the invariant.
LEMMA InvNext == CombInv /\ [CombNext]_combVars => CombInv'
<1> SUFFICES ASSUME CombInv, [CombNext]_combVars PROVE CombInv'
  OBVIOUS
<1>1. CASE UNCHANGED combVars
  <2>1. UNCHANGED <<op, cap, fed, ended, read, chan, closed, parked, taken, finished,
                    pc, hand, counted, left, taps, scopeDone, panicked>>
    BY <1>1 DEF combVars, inVars, outVars, loopVars
  <2>2. CombTypeOK'
    BY <2>1, TypeStill DEF CombInv, CombTypeOK
  <2>3. \A o \in Outs : Emitted(o)' = Emitted(o)
    BY <2>1 DEF Emitted
  <2> QED  BY <2>1, <2>2, <2>3, AsideStill DEF Drained
<1>2. ASSUME (\E i \in Inputs : Put(i) \/ CloseInput(i)) \/ Cancel PROVE CombInv'
  BY <1>2, InvInputs
<1>3. ASSUME NEW o \in Outs, Taker(o) PROVE CombInv'
  BY <1>3, InvTaker
<1>4. ASSUME NEW w \in Workers, Loop(w) PROVE CombInv'
  BY <1>4, InvRecv, InvStop, InvSend, InvSignal, InvCloseDst, InvReturn, InvLock,
     InvOffer, InvUnlock
     DEF Loop
<1>5. ASSUME \/ \E k \in Outs \union Topics, o \in Outs, c \in BOOLEAN : Tap(k, o, c)
             \/ \E k \in Outs \union Topics : Untap(k)
             \/ UntapAll
      PROVE  CombInv'
  BY <1>5, InvTap
<1> QED  BY <1>1, <1>2, <1>3, <1>4, <1>5 DEF CombNext

\* The inductive invariant of the combinators.
THEOREM CombInvariant == CombSpec => []CombInv
BY InvInit, InvNext, PTL DEF CombSpec

\* The goroutines and the outputs of a combinator have the types they should,
\* and no output holds more than its capacity and its parked taker.
THEOREM CombTypeCorrect == CombSpec => []CombTypeOK
<1>1. CombInv => CombTypeOK
  BY DEF CombInv
<1> QED  BY <1>1, CombInvariant, PTL

\* No goroutine of a combinator sends on a closed channel or closes one twice.
THEOREM ClosesOnce == CombSpec => []NeverPanics
<1>1. CombInv => NeverPanics
  BY DEF CombInv
<1> QED  BY <1>1, CombInvariant, PTL

\* What a combinator sends is what it received, in order, to the right output.
THEOREM PassesInOrder == CombSpec => []FlowsInOrder
<1>1. CombInv => FlowsInOrder
  <2> SUFFICES ASSUME CombInv, NEW o \in Dsts
               PROVE  CASE op \in Copying ->
                /\ CopiesInOrder(o)
                /\ \A i \in Ins : ~scopeDone /\ pc[Reader(i)] # "send"
                                     => CameUpTo(i, read[i], o)
          [] op = "map" ->
                \A k \in DOMAIN Emitted(o) : Emitted(o)[k] = <<<<1, k>>, <<2, k>>>>
          [] op = "reduce" ->
                Emitted(o) # <<>> => Len(Emitted(o)) = 1 /\ IsFold(Emitted(o)[1])
          [] OTHER ->
                \A j, k \in DOMAIN Emitted(o) :
                    j < k => Emitted(o)[j][1][2] < Emitted(o)[k][1][2]
    BY DEF FlowsInOrder
  <2>1. o \in Outs /\ DOMAIN Emitted(o) = 1..Len(Emitted(o))
    BY Who, EmittedType DEF CombInv
  <2>2. CASE op \in Copying
    BY <2>2 DEF CombInv, CopyInv, Copying
  <2>3. CASE op = "map"
    <3>1. o = 1
      BY <2>3 DEF Dsts
    <3> QED  BY <2>1, <2>3, <3>1 DEF CombInv, MapInv, Copying
  <2>4. CASE op = "reduce"
    <3>1. o = 1
      BY <2>4 DEF Dsts
    <3> QED  BY <2>4, <3>1 DEF CombInv, ReduceInv, Copying
  <2>5. CASE op \in {"mult", "pub"}
    BY <2>1, <2>5 DEF CombInv, OfferInv, Copying
  <2> QED  BY <2>2, <2>3, <2>4, <2>5, Who DEF Copying
<1> QED  BY <1>1, CombInvariant, PTL

\* An output is closed only when all that is meant for it has gone through.
THEOREM EndsComplete == CombSpec => []EndMeansComplete
<1>1. CombInv => EndMeansComplete
  <2> SUFFICES ASSUME CombInv PROVE EndMeansComplete
    OBVIOUS
  <2>1. \A o \in closed : Complete(o)
    BY DEF CombInv, ClosedInv
  <2>2. ASSUME ~scopeDone, op \notin {"mult", "pub"}, \A w \in Workers : pc[w] = "returned"
        PROVE  closed = ToClose
    BY <2>2, Who DEF CombInv, ClosedInv
  <2> QED  BY <2>1, <2>2 DEF EndMeansComplete
<1> QED  BY <1>1, CombInvariant, PTL
=============================================================================
